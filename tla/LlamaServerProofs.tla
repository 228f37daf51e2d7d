------------------------- MODULE LlamaServerProofs -------------------------
(***************************************************************************)
(* Proofs about LlamaServer, for every number of requests, tasks and slots *)
(* and for queues of every length: every variable keeps its type, and no   *)
(* task of a request that waits for results is ever lost.                  *)
(*                                                                         *)
(* NoTaskLost alone is not inductive.  That a result is not dropped by     *)
(* send needs that the ids of a waiting request stay announced; that a     *)
(* CANCEL does not free the slot of a live request needs that every CANCEL *)
(* belongs to a request that gave up; that taking the next task does not   *)
(* overwrite one needs that the main loop holds a task only while it       *)
(* processes it.                                                           *)
(***************************************************************************)
EXTENDS LlamaServer, DequeTheorems

-----------------------------------------------------------------------------
(* What each operation of server_queue and server_response does to the     *)
(* tasks pending in the two task queues and to the results on their way,   *)
(* for queues of every length.                                             *)

\* The tasks in either queue, and the results in the result queue.
Pending == Range(queue_tasks) \cup Range(queue_tasks_deferred)
Results == Range(queue_results)

\* The three kinds of task: only a client's task carries an id, only a CANCEL
\* a target.
LEMMA TaskShape ==
    /\ -1 \notin Tasks
    /\ \A t \in Tasks : /\ ClientTask(t).type \in ClientTypes
                        /\ ClientTask(t).id = t /\ ClientTask(t).id_target = -1
    /\ \A x \in server_task :
          \/ x.id \in Tasks /\ x = ClientTask(x.id)
          \/ x.type = "CANCEL" /\ x.id = -1 /\ x.id_target \in Tasks
          \/ x = NextResponse
    /\ NextResponse.type = "NEXT_RESPONSE" /\ NextResponse.id = -1
    /\ NextResponse \in server_task /\ NextResponse.id_target = -1
    /\ "CANCEL" \notin ClientTypes /\ "NEXT_RESPONSE" \notin ClientTypes
<1>1. -1 \notin Tasks
    BY TasksAssumption
<1>2. \A t \in Tasks : TypeOf[t] \in ClientTypes
    BY TasksAssumption
<1>. QED
    BY <1>1, <1>2 DEF server_task, ClientTask, CancelTask, NextResponse,
                      ClientTypes, SlotTasks, SlotActions

\* An element of a sequence is at one of its positions.
LEMMA InRange ==
    ASSUME NEW S, NEW s \in Seq(S)
    PROVE  /\ Range(s) \subseteq S
           /\ \A i \in DOMAIN s : s[i] \in Range(s) /\ s[i] \in S
           /\ \A x \in Range(s) : \E i \in DOMAIN s : s[i] = x
    BY DEF Range

\* cleanup_pending_task keeps exactly the tasks with other targets.
LEMMA CleanupKeeps ==
    ASSUME NEW q \in Seq(server_task), NEW ids
    PROVE  /\ cleanup_pending_task(q, ids) \in Seq(server_task)
           /\ Range(cleanup_pending_task(q, ids)) = {x \in Range(q) : x.id_target \notin ids}
<1> DEFINE K == {i \in DOMAIN q : q[i].id_target \notin ids}
<1>1. K \in SUBSET DOMAIN q
    OBVIOUS
<1>2. /\ KeepAt(q, K) \in Seq(server_task)
      /\ Range(KeepAt(q, K)) = {q[i] : i \in K}
    BY <1>1, KeepAtProperties
<1>3. {q[i] : i \in K} = {x \in Range(q) : x.id_target \notin ids}
    BY DEF Range
<1>. QED
    BY <1>2, <1>3 DEF cleanup_pending_task

\* post adds the posted tasks and nothing else.
LEMMA PostAdds ==
    ASSUME QueueTypeOK, NEW new \in Seq(server_task), NEW front \in BOOLEAN,
           Post(new, front)
    PROVE  /\ QueueTypeOK' /\ Pending' = Pending \cup Range(new)
           /\ Range(queue_tasks)' = Range(queue_tasks) \cup Range(new)
<1> DEFINE rev == [i \in DOMAIN new |-> new[Len(new) + 1 - i]]
<1>1. Len(new) \in Nat /\ DOMAIN new = 1..Len(new)
    OBVIOUS
<1>2. \A i \in 1..Len(new) : Len(new) + 1 - i \in 1..Len(new)
    BY <1>1
<1>3. rev \in [1..Len(new) -> server_task]
    BY <1>1, <1>2
<1>4. rev \in Seq(server_task) /\ DOMAIN rev = 1..Len(new)
    BY <1>1, <1>3
<1>5. \A i \in 1..Len(new) : rev[i] = new[Len(new) + 1 - i]
    BY <1>1
<1>6. \A i \in 1..Len(new) : Len(new) + 1 - (Len(new) + 1 - i) = i
    BY <1>1
<1>7. Range(rev) = Range(new)
    <2>1. ASSUME NEW x \in Range(rev) PROVE x \in Range(new)
        BY <1>1, <1>2, <1>4, <1>5 DEF Range
    <2>2. ASSUME NEW x \in Range(new) PROVE x \in Range(rev)
        <3>1. PICK i \in 1..Len(new) : new[i] = x
            BY <1>1 DEF Range
        <3>2. Len(new) + 1 - i \in DOMAIN rev /\ rev[Len(new) + 1 - i] = x
            BY <1>2, <1>4, <1>5, <1>6, <3>1
        <3>. QED
            BY <3>2 DEF Range
    <2>. QED
        BY <2>1, <2>2
<1>8. CASE front
    <2>1. queue_tasks' = rev \o queue_tasks /\ queue_tasks_deferred' = queue_tasks_deferred
        BY <1>8 DEF Post
    <2>2. rev \o queue_tasks \in Seq(server_task)
          /\ Range(rev \o queue_tasks) = Range(rev) \cup Range(queue_tasks)
        BY <1>4, RangeOfConcat DEF QueueTypeOK
    <2>. QED
        BY <1>7, <2>1, <2>2 DEF QueueTypeOK, Pending
<1>9. CASE ~front
    <2>1. queue_tasks' = queue_tasks \o new /\ queue_tasks_deferred' = queue_tasks_deferred
        BY <1>9 DEF Post
    <2>2. queue_tasks \o new \in Seq(server_task)
          /\ Range(queue_tasks \o new) = Range(queue_tasks) \cup Range(new)
        BY RangeOfConcat DEF QueueTypeOK
    <2>. QED
        BY <2>1, <2>2 DEF QueueTypeOK, Pending
<1>. QED
    BY <1>8, <1>9

\* The cancels are posted; of the tasks already pending only CANCELs for the
\* same targets go.
LEMMA PostCancelsKeeps ==
    ASSUME QueueTypeOK, NEW targets \in Seq(Tasks), PostCancels(targets)
    PROVE  /\ QueueTypeOK'
           /\ \A x \in Pending' : x \in Pending \/ \E t \in Range(targets) : x = CancelTask(t)
           /\ \A x \in Pending : x.id_target \notin Range(targets) => x \in Pending'
           /\ \A x \in Range(queue_tasks) :
                 x.id_target \notin Range(targets) => x \in Range(queue_tasks)'
           /\ Range(queue_tasks_deferred)' \subseteq Range(queue_tasks_deferred)
<1> DEFINE ids == {targets[i] : i \in DOMAIN targets}
           cancels == [i \in DOMAIN targets |-> CancelTask(targets[Len(targets) + 1 - i])]
           kept == cleanup_pending_task(queue_tasks, ids)
<1>1. Len(targets) \in Nat /\ DOMAIN targets = 1..Len(targets)
    OBVIOUS
<1>2. \A i \in 1..Len(targets) : /\ Len(targets) + 1 - i \in 1..Len(targets)
                                 /\ targets[Len(targets) + 1 - i] \in Tasks
    BY <1>1
<1>3. \A t \in Tasks : CancelTask(t) \in server_task
    BY DEF server_task
<1>4. cancels \in [1..Len(targets) -> server_task]
    BY <1>1, <1>2, <1>3
<1>5. cancels \in Seq(server_task) /\ DOMAIN cancels = 1..Len(targets)
    BY <1>1, <1>4
<1>6. ASSUME NEW x \in Range(cancels) PROVE \E t \in Range(targets) : x = CancelTask(t)
    <2>1. PICK i \in 1..Len(targets) : x = cancels[i]
        BY <1>5, <1>6 DEF Range
    <2>2. x = CancelTask(targets[Len(targets) + 1 - i])
        BY <1>1, <2>1
    <2>3. targets[Len(targets) + 1 - i] \in Range(targets)
        BY <1>1, <1>2 DEF Range
    <2>. QED
        BY <2>2, <2>3
<1>7. ids = Range(targets)
    BY DEF Range
<1>8. /\ queue_tasks' = cancels \o kept
      /\ queue_tasks_deferred' = cleanup_pending_task(queue_tasks_deferred, ids)
    BY DEF PostCancels
<1>9. /\ kept \in Seq(server_task)
      /\ Range(kept)
            = {x \in Range(queue_tasks) : x.id_target \notin ids}
      /\ cleanup_pending_task(queue_tasks_deferred, ids) \in Seq(server_task)
      /\ Range(cleanup_pending_task(queue_tasks_deferred, ids))
            = {x \in Range(queue_tasks_deferred) : x.id_target \notin ids}
    BY CleanupKeeps DEF QueueTypeOK
<1> HIDE DEF cancels, kept, ids
<1>10. /\ cancels \o kept \in Seq(server_task)
       /\ Range(cancels \o kept)
            = Range(cancels) \cup Range(kept)
    BY <1>5, <1>9, RangeOfConcat
<1>11. QueueTypeOK'
    BY <1>8, <1>9, <1>10 DEF QueueTypeOK
<1>12. Pending' = Range(cancels) \cup {x \in Pending : x.id_target \notin Range(targets)}
    BY <1>7, <1>8, <1>9, <1>10 DEF Pending
<1>13. /\ Range(queue_tasks)'
            = Range(cancels) \cup {x \in Range(queue_tasks) : x.id_target \notin Range(targets)}
       /\ Range(queue_tasks_deferred)' \subseteq Range(queue_tasks_deferred)
    BY <1>7, <1>8, <1>9, <1>10
<1>. QED
    BY <1>6, <1>11, <1>12, <1>13

\* A deferred task is pending, ...
LEMMA DeferAdds ==
    ASSUME QueueTypeOK, NEW x \in server_task, Defer(x)
    PROVE  QueueTypeOK' /\ Pending' = Pending \cup {x}
<1>1. /\ Append(queue_tasks_deferred, x) \in Seq(server_task)
      /\ Range(Append(queue_tasks_deferred, x)) = Range(queue_tasks_deferred) \cup {x}
    BY RangeOfAppend DEF QueueTypeOK
<1>. QED
    BY <1>1 DEF Defer, QueueTypeOK, Pending

\* ... and stays so when pop_deferred_task moves it to the other queue.
LEMMA PopDeferredKeeps ==
    ASSUME QueueTypeOK, PopDeferred
    PROVE  /\ QueueTypeOK' /\ Pending' = Pending
           /\ Range(queue_tasks) \subseteq Range(queue_tasks)'
           /\ Range(queue_tasks_deferred)' \subseteq Range(queue_tasks_deferred)
           /\ queue_tasks_deferred # <<>> =>
                 \E x \in Range(queue_tasks_deferred) : x \in Range(queue_tasks)'
<1>1. CASE queue_tasks_deferred = <<>>
    BY <1>1 DEF PopDeferred, QueueTypeOK, Pending, queueVars
<1>2. CASE queue_tasks_deferred # <<>>
    <2> DEFINE h == Head(queue_tasks_deferred)
    <2>1. /\ h \in Range(queue_tasks_deferred) /\ Tail(queue_tasks_deferred) \in Seq(server_task)
          /\ Range(queue_tasks_deferred) = Range(Tail(queue_tasks_deferred)) \cup {h}
        BY <1>2, RangeOfTail DEF QueueTypeOK
    <2>2. h \in server_task
        BY <2>1, InRange DEF QueueTypeOK
    <2>3. /\ Append(queue_tasks, h) \in Seq(server_task)
          /\ Range(Append(queue_tasks, h)) = Range(queue_tasks) \cup {h}
        BY <2>2, RangeOfAppend DEF QueueTypeOK
    <2>4. /\ queue_tasks' = Append(queue_tasks, h)
          /\ queue_tasks_deferred' = Tail(queue_tasks_deferred)
        BY <1>2 DEF PopDeferred
    <2>. QED
        BY <2>1, <2>3, <2>4 DEF QueueTypeOK, Pending
<1>. QED
    BY <1>1, <1>2

\* The main loop takes one pending task.
LEMMA TakeTaskTakes ==
    ASSUME QueueTypeOK, TakeTask
    PROVE  /\ QueueTypeOK' /\ Head(queue_tasks) \in server_task
           /\ Pending = Pending' \cup {Head(queue_tasks)}
<1>1. /\ Head(queue_tasks) \in Range(queue_tasks) /\ Tail(queue_tasks) \in Seq(server_task)
      /\ Range(queue_tasks) = Range(Tail(queue_tasks)) \cup {Head(queue_tasks)}
    BY RangeOfTail DEF TakeTask, QueueTypeOK
<1>2. Head(queue_tasks) \in server_task
    BY <1>1, InRange DEF QueueTypeOK
<1>. QED
    BY <1>1, <1>2 DEF TakeTask, QueueTypeOK, Pending

-----------------------------------------------------------------------------
\* What can be sent, and what the result queue holds.
Sendable(S) == [id : S, kind : ResultKinds]

\* send keeps what is there and adds the results somebody waits for.
LEMMA SendAdds ==
    ASSUME NEW S, waiting_task_ids \subseteq S, queue_results \in Seq(Sendable(S)),
           NEW U, NEW results \in Seq(Sendable(U)), Send(results)
    PROVE  /\ queue_results' \in Seq(Sendable(S)) /\ waiting_task_ids' = waiting_task_ids
           /\ Results' = Results \cup {x \in Range(results) : x.id \in waiting_task_ids}
<1> DEFINE K == {i \in DOMAIN results : results[i].id \in waiting_task_ids}
           kept == KeepAt(results, K)
<1>1. K \in SUBSET DOMAIN results
    OBVIOUS
<1>2. kept \in Seq(Sendable(U)) /\ Range(kept) = {results[i] : i \in K}
    BY <1>1, KeepAtProperties
<1>3. Range(kept) = {x \in Range(results) : x.id \in waiting_task_ids}
    BY <1>2 DEF Range
<1>4. Range(kept) \subseteq Sendable(S)
    <2>1. Range(results) \subseteq Sendable(U)
        BY InRange
    <2>. QED
        BY <1>3, <2>1 DEF Sendable
<1>5. kept \in Seq(Sendable(S))
    <2>1. kept \in Seq(Range(kept))
        BY <1>2, SeqOfRange
    <2>. QED
        BY <1>4, <2>1
<1>6. /\ queue_results \o kept \in Seq(Sendable(S))
      /\ Range(queue_results \o kept) = Range(queue_results) \cup Range(kept)
    BY <1>5, RangeOfConcat
<1>7. queue_results' = queue_results \o kept /\ waiting_task_ids' = waiting_task_ids
    BY DEF Send
<1>. QED
    BY <1>3, <1>6, <1>7 DEF Results

\* remove_waiting_task_id removes the results for the ids and no others.
LEMMA PurgeKeeps ==
    ASSUME NEW R, queue_results \in Seq(R), NEW ids, RemoveAndPurge(ids)
    PROVE  /\ queue_results' \in Seq(R) /\ waiting_task_ids' = waiting_task_ids \ ids
           /\ Results' = {x \in Results : x.id \notin ids}
<1> DEFINE K == {i \in DOMAIN queue_results : queue_results[i].id \notin ids}
<1>1. K \in SUBSET DOMAIN queue_results
    OBVIOUS
<1>2. /\ KeepAt(queue_results, K) \in Seq(R)
      /\ Range(KeepAt(queue_results, K)) = {queue_results[i] : i \in K}
    BY <1>1, KeepAtProperties
<1>3. {queue_results[i] : i \in K} = {x \in Range(queue_results) : x.id \notin ids}
    BY DEF Range
<1>. QED
    BY <1>2, <1>3 DEF RemoveAndPurge, Results

\* recv removes the result it returns and no other.
LEMMA TakeResultKeeps ==
    ASSUME NEW R, queue_results \in Seq(R), NEW i \in DOMAIN queue_results, TakeResult(i)
    PROVE  /\ queue_results' \in Seq(R) /\ waiting_task_ids' = waiting_task_ids
           /\ Results' \subseteq Results /\ Results \subseteq Results' \cup {queue_results[i]}
<1> DEFINE K == DOMAIN queue_results \ {i}
<1>1. K \in SUBSET DOMAIN queue_results
    OBVIOUS
<1>2. /\ KeepAt(queue_results, K) \in Seq(R)
      /\ Range(KeepAt(queue_results, K)) = {queue_results[j] : j \in K}
    BY <1>1, KeepAtProperties
<1>3. /\ {queue_results[j] : j \in K} \subseteq Range(queue_results)
      /\ Range(queue_results) \subseteq {queue_results[j] : j \in K} \cup {queue_results[i]}
    BY DEF Range
<1>4. queue_results' = KeepAt(queue_results, K) /\ waiting_task_ids' = waiting_task_ids
    BY DEF TakeResult, EraseAt
<1>. QED
    BY <1>2, <1>3, <1>4 DEF Results

-----------------------------------------------------------------------------
(* The inductive invariant.                                                *)

\* The main loop holds a task only while it processes it.
CurClear == loop # "process" => cur = NextResponse

\* While a request posts its tasks and waits, send does not drop its results.
AnnouncedFor(r) ==
    http[r] \in {"registered", "receiving"} => TasksOf(r) \subseteq waiting_task_ids

\* Every CANCEL that is pending or taken belongs to a request that gave up.
GaveUp(t) == \E r \in Requests : t \in TasksOf(r) /\ http[r] \in {"cancelled", "done"}
CancelsOwned == \A x \in Pending \cup {cur} : x.type = "CANCEL" => GaveUp(x.id_target)

\* NoTaskLost, said with sets of tasks and results.
HasResult(t) == \E x \in Results : x.id = t /\ x.kind # "partial"
Held(t)      == (\E x \in Pending \cup {cur} : x.id = t) \/ Running(t)
KeptFor(r)   == http[r] = "receiving" =>
                   \A t \in TasksOf(r) : t \in received[r] \/ HasResult(t) \/ Held(t)

IInv == /\ TypeOK
        /\ CurClear
        /\ \A r \in Requests : AnnouncedFor(r)
        /\ CancelsOwned
        /\ \A r \in Requests : KeptFor(r)

-----------------------------------------------------------------------------
\* What the proofs use of the constants.
LEMMA Constants ==
    /\ N_SLOTS \in Nat \ {0} /\ N_BATCH \in Nat \ {0}
    /\ Slots = 0..(N_SLOTS - 1)
    /\ \A r \in Requests : /\ ReqTasks[r] \in Seq(Tasks)
                           /\ TasksOf(r) = Range(ReqTasks[r])
                           /\ TasksOf(r) \subseteq Tasks
    /\ \A q, r \in Requests : q # r => TasksOf(q) \cap TasksOf(r) = {}
    /\ NPrompt \in [Tasks -> Nat]
<1>1. \A r \in Requests : ReqTasks[r] \in Seq(Tasks)
    BY ServerAssumption
<1>2. \A r \in Requests : TasksOf(r) = Range(ReqTasks[r])
    BY DEF TasksOf, Range
<1>3. \A r \in Requests : TasksOf(r) \subseteq Tasks
    BY <1>1, <1>2, InRange
<1>. QED
    BY <1>1, <1>2, <1>3, ServerAssumption DEF Slots

\* KeptFor says for one request what NoTaskLost says for all.
LEMMA KeptIsNoTaskLost ==
    ASSUME QueueTypeOK
    PROVE  (\A r \in Requests : KeptFor(r)) => NoTaskLost
<1>1. \A t : (\E x \in Pending : x.id = t) => Queued(t) \/ Deferred(t)
    BY InRange DEF QueueTypeOK, Pending, Queued, Deferred, Range
<1>2. \A t : HasResult(t) => Ended(t)
    BY DEF HasResult, Ended, Results, Range
<1>. QED
    BY <1>1, <1>2 DEF KeptFor, Held, NoTaskLost

\* A slot with other fields set is still a slot.
LEMMA SlotUpdate ==
    ASSUME slots \in [Slots -> server_slot], NEW s \in Slots, NEW slot \in server_slot,
           slots' = [slots EXCEPT ![s] = slot]
    PROVE  /\ slots' \in [Slots -> server_slot]
           /\ slots'[s] = slot /\ \A u \in Slots : u # s => slots'[u] = slots[u]
    OBVIOUS

\* release moves no task but the one of its slot.
LEMMA ReleaseKeeps ==
    ASSUME QueueTypeOK, slots \in [Slots -> server_slot],
           NEW s \in Slots, NEW slot \in server_slot,
           slot.id_task = slots[s].id_task, release(s, slot)
    PROVE  /\ QueueTypeOK' /\ Pending' = Pending
           /\ slots' \in [Slots -> server_slot]
           /\ \A t : Running(t) => Running(t)' \/ t = slots[s].id_task
<1>1. CASE is_processing(s)
    <2> DEFINE idle == [slot EXCEPT !.state = "IDLE"]
    <2>1. slots' = [slots EXCEPT ![s] = idle] /\ PopDeferred
        BY <1>1 DEF release
    <2>2. idle \in server_slot
        BY DEF server_slot, slot_state
    <2>3. /\ slots' \in [Slots -> server_slot]
          /\ \A u \in Slots : u # s => slots'[u] = slots[u]
        BY <2>1, <2>2, SlotUpdate
    <2>4. QueueTypeOK' /\ Pending' = Pending
        BY <2>1, PopDeferredKeeps
    <2>. QED
        BY <2>3, <2>4 DEF Running, is_processing
<1>2. CASE ~is_processing(s)
    BY <1>2 DEF release, queueVars, QueueTypeOK, Pending, Running, is_processing
<1>. QED
    BY <1>1, <1>2

\* send, seen from the whole server.
LEMMA SendKeeps ==
    ASSUME ResponseTypeOK, NEW results \in Seq(Sendable(Tasks \cup {-1})), Send(results)
    PROVE  /\ ResponseTypeOK' /\ waiting_task_ids' = waiting_task_ids
           /\ Results' = Results \cup {x \in Range(results) : x.id \in waiting_task_ids}
<1>1. /\ waiting_task_ids \subseteq Tasks /\ queue_results \in Seq(Sendable(Tasks))
    BY DEF ResponseTypeOK, Sendable
<1>2. /\ queue_results' \in Seq(Sendable(Tasks)) /\ waiting_task_ids' = waiting_task_ids
      /\ Results' = Results \cup {x \in Range(results) : x.id \in waiting_task_ids}
    BY <1>1, SendAdds
<1>. QED
    BY <1>1, <1>2 DEF ResponseTypeOK, Sendable

\* The same for the one result most steps send.
LEMMA SendOne ==
    ASSUME ResponseTypeOK, NEW t \in Tasks \cup {-1}, NEW k \in ResultKinds,
           Send(<<Result(t, k)>>)
    PROVE  /\ ResponseTypeOK' /\ waiting_task_ids' = waiting_task_ids
           /\ Results \subseteq Results'
           /\ t \in waiting_task_ids /\ k # "partial" => HasResult(t)'
<1> DEFINE res == <<Result(t, k)>>
<1>1. res \in Seq(Sendable(Tasks \cup {-1})) /\ Result(t, k) \in Range(res)
    BY DEF Result, Sendable, Range
<1>2. /\ ResponseTypeOK' /\ waiting_task_ids' = waiting_task_ids
      /\ Results' = Results \cup {x \in Range(res) : x.id \in waiting_task_ids}
    BY <1>1, SendKeeps
<1>. QED
    BY <1>1, <1>2 DEF HasResult, Result

-----------------------------------------------------------------------------
(* Steps of the main loop.                                                 *)

\* The tasks somebody waits for.
Live(t) == \E r \in Requests : http[r] = "receiving" /\ t \in TasksOf(r)

\* What a step of the main loop does to the tasks: it invents none and loses none.
LoopKeeps ==
    /\ TypeOK' /\ CurClear'
    /\ http' = http /\ received' = received /\ waiting_task_ids' = waiting_task_ids
    /\ \A x \in Pending' \cup {cur'} : x \in Pending \cup {cur} \/ x = NextResponse
    /\ Results \subseteq Results'
    /\ \A t : Live(t) /\ Held(t) => Held(t)' \/ HasResult(t)'

LEMMA LoopKeepsInvariant ==
    ASSUME IInv, LoopKeeps
    PROVE  IInv'
<1>1. \A r \in Requests : AnnouncedFor(r)'
    BY DEF IInv, LoopKeeps, AnnouncedFor
<1>2. CancelsOwned'
    <2> SUFFICES ASSUME NEW x \in Pending' \cup {cur'}, x.type = "CANCEL"
                 PROVE  GaveUp(x.id_target)'
        BY DEF CancelsOwned
    <2>1. x \in Pending \cup {cur}
        BY TaskShape DEF LoopKeeps
    <2>2. GaveUp(x.id_target)
        BY <2>1 DEF IInv, CancelsOwned
    <2>. QED
        BY <2>2 DEF LoopKeeps, GaveUp
<1>3. ASSUME NEW r \in Requests PROVE KeptFor(r)'
    <2> SUFFICES ASSUME http[r] = "receiving", NEW t \in TasksOf(r)
                 PROVE  t \in received[r] \/ HasResult(t)' \/ Held(t)'
        BY DEF KeptFor, LoopKeeps
    <2>1. Live(t)
        BY DEF Live
    <2>2. t \in received[r] \/ HasResult(t) \/ Held(t)
        BY DEF IInv, KeptFor
    <2>3. HasResult(t) => HasResult(t)'
        BY DEF HasResult, LoopKeeps
    <2>. QED
        BY <2>1, <2>2, <2>3 DEF LoopKeeps
<1>. QED
    BY <1>1, <1>2, <1>3 DEF IInv, LoopKeeps

\* A task somebody waits for is announced.
LEMMA LiveIsAnnounced ==
    ASSUME IInv, NEW t, Live(t)
    PROVE  t \in waiting_task_ids /\ t \in Tasks /\ t # -1
    BY TaskShape, Constants DEF IInv, Live, AnnouncedFor

\* Start of the loop: the first pending task becomes the current one.
LEMMA TakeNextKeeps == ASSUME IInv, TakeNext PROVE LoopKeeps
<1>1. /\ QueueTypeOK' /\ cur' \in server_task
      /\ Pending = Pending' \cup {cur'}
    BY TakeTaskTakes DEF IInv, TypeOK, TakeNext
<1>2. TypeOK'
    BY <1>1 DEF IInv, TypeOK, TakeNext, ResponseTypeOK, LoopTypeOK, HttpTypeOK,
                responseVars, httpVars, Phases
<1>3. cur = NextResponse
    BY DEF IInv, CurClear, TakeNext
<1>4. \A t : Live(t) /\ Held(t) => Held(t)'
    <2> SUFFICES ASSUME NEW t, Live(t), Held(t) PROVE Held(t)'
        OBVIOUS
    <2>1. t # -1
        BY LiveIsAnnounced
    <2>2. Running(t) => Running(t)'
        BY DEF TakeNext, Running, is_processing
    <2>. QED
        BY <1>1, <1>3, <2>1, <2>2, TaskShape DEF Held
<1>. QED
    BY <1>1, <1>2, <1>4 DEF LoopKeeps, CurClear, TakeNext, responseVars, httpVars, Results

\* Steps that leave the tasks, the results and the slots alone.
LEMMA IdleStepKeeps ==
    ASSUME IInv, UNCHANGED <<queueVars, responseVars, httpVars, cur>>, CurClear',
           LoopTypeOK',
           \A t : Running(t) => Running(t)'
    PROVE  LoopKeeps
<1>1. TypeOK'
    BY DEF IInv, TypeOK, QueueTypeOK, ResponseTypeOK, HttpTypeOK,
           queueVars, responseVars, httpVars
<1>2. Pending' = Pending /\ Results' = Results
    BY DEF Pending, Results, queueVars, responseVars
<1>. QED
    BY <1>1, <1>2 DEF LoopKeeps, Held, responseVars, httpVars

\* Steps that move the task the main loop holds to where it belongs.
LEMMA ProcessedKeeps ==
    ASSUME IInv, loop = "process", Processed, QueueTypeOK', ResponseTypeOK',
           slots' \in [Slots -> server_slot],
           waiting_task_ids' = waiting_task_ids,
           Pending \subseteq Pending', Pending' \subseteq Pending \cup {cur},
           Results \subseteq Results',
           \A t : Running(t) => Running(t)' \/ ~Live(t),
           NEW c, c = cur.id,
           Live(c) => cur \in Pending' \/ Running(c)' \/ HasResult(c)'
    PROVE  LoopKeeps
<1>1. TypeOK'
    BY TaskShape DEF IInv, TypeOK, Processed, HttpTypeOK, LoopTypeOK, httpVars, Phases
<1>2. ASSUME NEW t, Live(t), Held(t) PROVE Held(t)' \/ HasResult(t)'
    <2>1. CASE \E x \in Pending : x.id = t
        BY <2>1 DEF Held
    <2>2. CASE t = c
        BY <1>2, <2>2 DEF Held
    <2>3. CASE Running(t)
        BY <1>2, <2>3 DEF Held
    <2>. QED
        BY <1>2, <2>1, <2>2, <2>3 DEF Held
<1>. QED
    BY <1>1, <1>2 DEF LoopKeeps, CurClear, Processed, httpVars

LEMMA DeferTaskKeeps == ASSUME IInv, DeferTask PROVE LoopKeeps
<1> PICK c : c = cur.id
    OBVIOUS
<1>1. QueueTypeOK' /\ Pending' = Pending \cup {cur}
    BY DeferAdds DEF IInv, TypeOK, LoopTypeOK, DeferTask
<1>2. /\ ResponseTypeOK' /\ slots' \in [Slots -> server_slot] /\ Results' = Results
      /\ waiting_task_ids' = waiting_task_ids
      /\ \A t : Running(t) => Running(t)'
    BY DEF IInv, TypeOK, LoopTypeOK, DeferTask, ResponseTypeOK, responseVars, Results,
           Running, is_processing
<1>. QED
    BY <1>1, <1>2, ProcessedKeeps DEF DeferTask

\* An idle slot is taken, so no running task is disturbed; the task runs or is
\* answered with an error.
LEMMA LaunchKeeps ==
    ASSUME IInv, NEW s \in Slots, launch_slot_with_task(s) PROVE LoopKeeps
<1>0. PICK t : t = cur.id
    OBVIOUS
<1> DEFINE slot == [slots[s] EXCEPT !.id_task = t, !.n_left = NPrompt[t]]
           started == [slot EXCEPT !.state = "STARTED"]
<1>1. /\ loop = "process" /\ Processed /\ UNCHANGED queueVars /\ ~is_processing(s)
      /\ cur.type \in SlotTasks
    BY DEF launch_slot_with_task, Idle
<1>2. t \in Tasks
    BY <1>0, <1>1, TaskShape DEF IInv, TypeOK, LoopTypeOK, SlotTasks
<1>3. slot \in server_slot /\ started \in server_slot
      /\ started.state = "STARTED" /\ started.id_task = t
    BY <1>2, Constants DEF IInv, TypeOK, LoopTypeOK, server_slot, slot_state
<1>4. QueueTypeOK' /\ Pending' = Pending
    BY <1>1 DEF IInv, TypeOK, QueueTypeOK, Pending, queueVars
<1>5. slots \in [Slots -> server_slot] /\ ResponseTypeOK
    BY DEF IInv, TypeOK, LoopTypeOK
<1>6. CASE t \in Invalid
    <2>1. slots' = [slots EXCEPT ![s] = slot] /\ Send(<<Result(t, "error")>>)
        BY <1>0, <1>6 DEF launch_slot_with_task, send_error
    <2>2. /\ slots' \in [Slots -> server_slot]
          /\ \A u \in Slots : u # s => slots'[u] = slots[u]
        BY <1>3, <1>5, <2>1, SlotUpdate
    <2>3. \A x : Running(x) => Running(x)'
        BY <1>1, <2>2 DEF Running, is_processing
    <2>4. /\ ResponseTypeOK' /\ waiting_task_ids' = waiting_task_ids
          /\ Results \subseteq Results' /\ (t \in waiting_task_ids => HasResult(t)')
        BY <1>2, <1>5, <2>1, SendOne DEF ResultKinds
    <2>5. Live(t) => HasResult(t)'
        BY <2>4, LiveIsAnnounced
    <2>. QED
        BY <1>0, <1>1, <1>4, <2>2, <2>3, <2>4, <2>5, ProcessedKeeps
<1>7. CASE t \notin Invalid
    <2>1. slots' = [slots EXCEPT ![s] = started] /\ UNCHANGED responseVars
        BY <1>0, <1>7 DEF launch_slot_with_task
    <2>2. /\ slots' \in [Slots -> server_slot] /\ slots'[s] = started
          /\ \A u \in Slots : u # s => slots'[u] = slots[u]
        BY <1>3, <1>5, <2>1, SlotUpdate
    <2>3. (\A x : Running(x) => Running(x)') /\ Running(t)'
        BY <1>1, <1>3, <2>2 DEF Running, is_processing
    <2>4. ResponseTypeOK' /\ waiting_task_ids' = waiting_task_ids /\ Results' = Results
        BY <1>5, <2>1 DEF ResponseTypeOK, Results, responseVars
    <2>. QED
        BY <1>0, <1>1, <1>4, <2>2, <2>3, <2>4, ProcessedKeeps
<1>. QED
    BY <1>6, <1>7

\* A CANCEL frees the slot of a task nobody waits for.
LEMMA CancelRunningKeeps == ASSUME IInv, CancelRunning PROVE LoopKeeps
<1> DEFINE c == cur.id_target
<1>1. loop = "process" /\ cur.type = "CANCEL" /\ Processed /\ UNCHANGED responseVars
    BY DEF CancelRunning
<1>2. ~Live(c)
    <2>1. PICK r \in Requests : c \in TasksOf(r) /\ http[r] \in {"cancelled", "done"}
        BY <1>1 DEF IInv, CancelsOwned, GaveUp
    <2>. QED
        BY <2>1, Constants DEF Live
<1>3. ~Live(cur.id)
    <2>1. cur \in server_task
        BY DEF IInv, TypeOK, LoopTypeOK
    <2>2. cur.id = -1
        BY <1>1, <2>1, TaskShape DEF ClientTask
    <2>. QED
        BY <2>2, LiveIsAnnounced
<1>4. /\ QueueTypeOK' /\ Pending' = Pending /\ slots' \in [Slots -> server_slot]
      /\ \A t : Running(t) => Running(t)' \/ t = c
    <2>1. CASE \E s \in Slots : HasTask(s, c)
        <3>1. PICK s \in Slots : HasTask(s, c) /\ release(s, slots[s])
            BY <2>1 DEF CancelRunning
        <3>2. slots[s] \in server_slot /\ slots[s].id_task = c
            BY <3>1 DEF IInv, TypeOK, LoopTypeOK, HasTask
        <3>. QED
            BY <3>1, <3>2, ReleaseKeeps DEF IInv, TypeOK, LoopTypeOK
    <2>2. CASE ~(\E s \in Slots : HasTask(s, c))
        BY <2>2 DEF CancelRunning, IInv, TypeOK, LoopTypeOK, QueueTypeOK, queueVars,
                    Pending, Running, is_processing
    <2>. QED
        BY <2>1, <2>2
<1>5. ResponseTypeOK' /\ waiting_task_ids' = waiting_task_ids /\ Results' = Results
    BY <1>1 DEF IInv, TypeOK, ResponseTypeOK, Results, responseVars
<1>. QED
    BY <1>1, <1>2, <1>3, <1>4, <1>5, ProcessedKeeps

LEMMA ProcessNextResponseKeeps == ASSUME IInv, ProcessNextResponse PROVE LoopKeeps
<1>1. /\ QueueTypeOK' /\ ResponseTypeOK' /\ slots' \in [Slots -> server_slot]
      /\ Pending' = Pending /\ Results' = Results /\ waiting_task_ids' = waiting_task_ids
      /\ \A t : Running(t) => Running(t)'
    BY DEF ProcessNextResponse, IInv, TypeOK, LoopTypeOK, QueueTypeOK, ResponseTypeOK,
           queueVars, responseVars, Pending, Results, Running, is_processing
<1>2. ~Live(cur.id)
    <2>1. cur \in server_task /\ cur.type = "NEXT_RESPONSE"
        BY DEF IInv, TypeOK, LoopTypeOK, ProcessNextResponse
    <2>2. cur.id = -1
        BY <2>1, TaskShape DEF ClientTask
    <2>. QED
        BY <2>2, LiveIsAnnounced
<1>. QED
    BY <1>1, <1>2, ProcessedKeeps DEF ProcessNextResponse

LEMMA ProcessQueryKeeps == ASSUME IInv, ProcessQuery PROVE LoopKeeps
<1>0. PICK t : t = cur.id
    OBVIOUS
<1>1. t \in Tasks
    BY <1>0, TaskShape DEF IInv, TypeOK, LoopTypeOK, ProcessQuery
<1>2. /\ QueueTypeOK' /\ slots' \in [Slots -> server_slot] /\ Pending' = Pending
      /\ \A x : Running(x) => Running(x)'
    BY DEF ProcessQuery, IInv, TypeOK, LoopTypeOK, QueueTypeOK, queueVars, Pending,
           Running, is_processing
<1>3. /\ ResponseTypeOK' /\ waiting_task_ids' = waiting_task_ids
      /\ Results \subseteq Results' /\ (t \in waiting_task_ids => HasResult(t)')
    BY <1>0, <1>1, SendOne DEF ProcessQuery, IInv, TypeOK, ResultKinds
<1>. QED
    BY <1>0, <1>2, <1>3, LiveIsAnnounced, ProcessedKeeps DEF ProcessQuery

LEMMA ProcessSlotActionKeeps == ASSUME IInv, ProcessSlotAction PROVE LoopKeeps
<1>0. PICK t : t = cur.id
    OBVIOUS
<1>1. cur \in server_task /\ t \in Tasks
    BY <1>0, TaskShape DEF IInv, TypeOK, LoopTypeOK, ProcessSlotAction, SlotActions
<1>2. /\ slots' \in [Slots -> server_slot] /\ \A x : Running(x) => Running(x)'
    BY DEF ProcessSlotAction, IInv, TypeOK, LoopTypeOK, Running, is_processing
<1>3. CASE Defer(cur) /\ UNCHANGED responseVars
    <2>1. QueueTypeOK' /\ Pending' = Pending \cup {cur}
        BY <1>1, <1>3, DeferAdds DEF IInv, TypeOK
    <2>2. ResponseTypeOK' /\ waiting_task_ids' = waiting_task_ids /\ Results' = Results
        BY <1>3 DEF IInv, TypeOK, ResponseTypeOK, Results, responseVars
    <2>. QED
        BY <1>0, <1>2, <2>1, <2>2, ProcessedKeeps DEF ProcessSlotAction
<1>4. ASSUME NEW k \in {"final", "error"}, Send(<<Result(t, k)>>), UNCHANGED queueVars
      PROVE  LoopKeeps
    <2>1. /\ ResponseTypeOK' /\ waiting_task_ids' = waiting_task_ids
          /\ Results \subseteq Results' /\ (t \in waiting_task_ids => HasResult(t)')
        BY <1>1, <1>4, SendOne DEF IInv, TypeOK, ResultKinds
    <2>2. QueueTypeOK' /\ Pending' = Pending
        BY <1>4 DEF IInv, TypeOK, QueueTypeOK, queueVars, Pending
    <2>. QED
        BY <1>0, <1>2, <2>1, <2>2, LiveIsAnnounced, ProcessedKeeps DEF ProcessSlotAction
<1>. QED
    BY <1>0, <1>3, <1>4 DEF ProcessSlotAction, send_error

\* Where update_slots may go on, and with which locals.
Locals == [n_tokens : Nat, slot_batched : Slots \cup {-1}, k : 0..N_SLOTS,
           i : Nat, n_batch : Nat \ {0}]

LEMMA GoToType ==
    ASSUME NEW phase \in Phases, NEW b \in Locals, GoTo(phase, b)
    PROVE  loop' \in Phases /\ batch' \in Locals
    BY Constants DEF GoTo, Locals, EmptyBatch, Phases

\* Steps of the loop that only move on.
LEMMA MoveOnKeeps ==
    ASSUME IInv,
           \/ TasksDrained \/ Wake \/ AllIdle \/ PromptsBatched \/ DecodeOk
           \/ DecodeRetry \/ DecodeFails \/ AllFailed \/ ViewDone
    PROVE  LoopKeeps
<1>1. /\ UNCHANGED <<queueVars, responseVars, httpVars, cur, slots>>
      /\ loop # "process" /\ loop' # "process"
    BY DEF TasksDrained, Wake, AllIdle, PromptsBatched, DecodeOk, DecodeRetry,
           DecodeFails, AllFailed, ViewDone, InUpdate, GoTo
<1>2. batch \in Locals /\ loop \in Phases /\ slots' \in [Slots -> server_slot]
      /\ cur' \in server_task
    BY <1>1 DEF IInv, TypeOK, LoopTypeOK, Locals
<1>3. loop' \in Phases /\ batch' \in Locals
    <2>1. CASE TasksDrained \/ Wake
        BY <1>2, <2>1 DEF TasksDrained, Wake, Phases
    <2>2. CASE AllIdle \/ PromptsBatched \/ DecodeOk \/ AllFailed
        BY <1>2, <2>2, GoToType DEF AllIdle, PromptsBatched, DecodeOk, AllFailed, Phases
    <2>3. CASE DecodeRetry
        <3>1. batch.n_batch \in Nat /\ batch.n_batch > 1 /\ loop' = loop
              /\ batch' = [batch EXCEPT !.n_batch = @ \div 2]
            BY <1>2, <2>3 DEF DecodeRetry, InUpdate, Locals
        <3>2. batch.n_batch \div 2 \in Nat \ {0}
            BY <3>1
        <3>. QED
            BY <1>2, <3>1, <3>2 DEF Locals
    <2>4. CASE DecodeFails
        <3>0. 0 \in 0..N_SLOTS
            BY Constants
        <3>1. [batch EXCEPT !.k = 0] \in Locals
            BY <1>2, <3>0 DEF Locals
        <3>. QED
            BY <2>4, <3>1, GoToType DEF DecodeFails, Phases
    <2>5. CASE ViewDone
        <3> DEFINE next == batch.i + batch.n_batch
        <3>1. [batch EXCEPT !.i = next] \in Locals
            BY <1>2 DEF Locals
        <3>2. (IF next < batch.n_tokens THEN "decode" ELSE "wait") \in Phases
            BY DEF Phases
        <3>3. GoTo(IF next < batch.n_tokens THEN "decode" ELSE "wait",
                   [batch EXCEPT !.i = next])
            BY <2>5 DEF ViewDone
        <3>. QED
            BY <3>1, <3>2, <3>3, GoToType
    <2>. QED
        BY <2>1, <2>2, <2>3, <2>4, <2>5
<1>4. CurClear'
    BY <1>1 DEF IInv, CurClear
<1>5. \A t : Running(t) => Running(t)'
    BY <1>1 DEF Running, is_processing
<1>6. LoopTypeOK'
    BY <1>2, <1>3 DEF LoopTypeOK, Locals
<1>. QED
    BY <1>1, <1>4, <1>5, <1>6, IdleStepKeeps

LEMMA PostNextResponseKeeps == ASSUME IInv, PostNextResponse PROVE LoopKeeps
<1>1. /\ Post(<<NextResponse>>, FALSE) /\ UNCHANGED <<responseVars, slots, cur, httpVars>>
      /\ loop # "process" /\ GoTo("shift", batch)
    BY DEF PostNextResponse, InUpdate
<1>2. /\ <<NextResponse>> \in Seq(server_task) /\ Range(<<NextResponse>>) = {NextResponse}
    BY TaskShape DEF Range
<1>3. QueueTypeOK' /\ Pending' = Pending \cup {NextResponse}
    BY <1>1, <1>2, PostAdds DEF IInv, TypeOK
<1>4. loop' \in Phases /\ batch' \in Locals /\ loop' # "process"
    <2>1. batch \in Locals /\ "shift" \in Phases
        BY DEF IInv, TypeOK, LoopTypeOK, Locals, Phases
    <2>. QED
        BY <1>1, <2>1, GoToType DEF GoTo
<1>5. TypeOK' /\ CurClear'
    BY <1>1, <1>3, <1>4 DEF IInv, TypeOK, CurClear, ResponseTypeOK, LoopTypeOK, HttpTypeOK,
                            responseVars, httpVars, Locals
<1>6. \A t : Running(t) => Running(t)'
    BY <1>1 DEF Running, is_processing
<1>. QED
    BY <1>1, <1>3, <1>5, <1>6 DEF LoopKeeps, Held, Results, responseVars, httpVars

-----------------------------------------------------------------------------
\* Steps of update_slots that change slots, each of which stays at work on its
\* task.
LEMMA WorkKeeps ==
    ASSUME IInv, UNCHANGED <<queueVars, responseVars, httpVars, cur>>,
           loop # "process", loop' \in Phases \ {"process"}, batch' \in Locals,
           slots' \in [Slots -> server_slot],
           \A s \in Slots : is_processing(s) =>
               slots'[s].state # "IDLE" /\ slots'[s].id_task = slots[s].id_task
    PROVE  LoopKeeps
<1>1. \A t : Running(t) => Running(t)'
    BY DEF Running, is_processing
<1>2. LoopTypeOK'
    BY DEF IInv, TypeOK, LoopTypeOK, Locals
<1>3. CurClear'
    BY DEF IInv, CurClear
<1>. QED
    BY <1>1, <1>2, <1>3, IdleStepKeeps

\* Steps of update_slots that end the task of a slot: its slot is released and a
\* final result or an error is sent, after other results or alone.
LEMMA EndKeeps ==
    ASSUME IInv, NEW s \in Slots, NEW slot \in server_slot,
           slot.id_task = slots[s].id_task, release(s, slot),
           NEW t, t = slots[s].id_task, NEW k \in {"final", "error"},
           NEW results \in Seq(Sendable(Tasks \cup {-1})), Result(t, k) \in Range(results),
           Send(results),
           UNCHANGED <<httpVars, cur>>, loop # "process", loop' = loop, batch' \in Locals
    PROVE  LoopKeeps
<1>1. /\ QueueTypeOK' /\ Pending' = Pending
      /\ slots' \in [Slots -> server_slot]
      /\ \A x : Running(x) => Running(x)' \/ x = t
    BY ReleaseKeeps DEF IInv, TypeOK, LoopTypeOK
<1>2. /\ ResponseTypeOK' /\ waiting_task_ids' = waiting_task_ids
      /\ Results' = Results \cup {x \in Range(results) : x.id \in waiting_task_ids}
    BY SendKeeps DEF IInv, TypeOK
<1>3. Live(t) => HasResult(t)'
    BY <1>2, LiveIsAnnounced DEF HasResult, Result
<1>4. TypeOK' /\ CurClear'
    BY <1>1, <1>2 DEF IInv, TypeOK, CurClear, LoopTypeOK, HttpTypeOK, httpVars, Locals
<1>5. \A x : Live(x) /\ Held(x) => Held(x)' \/ HasResult(x)'
    BY <1>1, <1>3 DEF Held
<1>. QED
    BY <1>1, <1>2, <1>4, <1>5 DEF LoopKeeps, httpVars

\* One result is a sequence of results.
LEMMA OneResult ==
    ASSUME NEW t \in Tasks \cup {-1}, NEW k \in ResultKinds
    PROVE  /\ <<Result(t, k)>> \in Seq(Sendable(Tasks \cup {-1}))
           /\ Result(t, k) \in Range(<<Result(t, k)>>)
    BY DEF Result, Sendable, Range

LEMMA ContextFullKeeps == ASSUME IInv, NEW s \in Slots, ContextFull(s) PROVE LoopKeeps
<1>1. slots[s] \in server_slot /\ batch \in Locals
    BY DEF IInv, TypeOK, LoopTypeOK, Locals
<1>2. PICK t \in Tasks \cup {-1} : t = slots[s].id_task
    BY <1>1 DEF server_slot
<1>3. /\ release(s, slots[s]) /\ Send(<<Result(t, "error")>>) /\ UNCHANGED <<httpVars, cur>>
      /\ loop # "process" /\ loop' = loop /\ batch' = batch
    BY <1>2 DEF ContextFull, InUpdate, send_error
<1>4. /\ <<Result(t, "error")>> \in Seq(Sendable(Tasks \cup {-1}))
      /\ Result(t, "error") \in Range(<<Result(t, "error")>>)
    BY OneResult DEF ResultKinds
<1>. QED
    BY <1>1, <1>2, <1>3, <1>4, EndKeeps

LEMMA FailSlotKeeps == ASSUME IInv, NEW s \in Slots, FailSlot(s) PROVE LoopKeeps
<1>1. slots[s] \in server_slot /\ batch \in Locals
    BY DEF IInv, TypeOK, LoopTypeOK, Locals
<1>2. PICK t \in Tasks \cup {-1} : t = slots[s].id_task
    BY <1>1 DEF server_slot
<1>3. /\ release(s, slots[s]) /\ Send(<<Result(t, "error")>>) /\ UNCHANGED <<httpVars, cur>>
      /\ loop # "process" /\ loop' = loop /\ batch' = [batch EXCEPT !.k = s + 1]
    BY <1>2 DEF FailSlot, InUpdate, send_error
<1>4. batch' \in Locals
    BY <1>1, <1>3, Constants DEF Locals
<1>5. /\ <<Result(t, "error")>> \in Seq(Sendable(Tasks \cup {-1}))
      /\ Result(t, "error") \in Range(<<Result(t, "error")>>)
    BY OneResult DEF ResultKinds
<1>. QED
    BY <1>1, <1>2, <1>3, <1>4, <1>5, EndKeeps

\* Where the loop over the prompts goes next.
LEMMA NextSlot ==
    ASSUME batch \in Locals, NEW s \in Slots
    PROVE  /\ BatchedWith(s) \in Slots \cup {-1}
           /\ s + 1 \in 0..N_SLOTS /\ N_SLOTS \in 0..N_SLOTS
    BY Constants DEF Locals, BatchedWith

LEMMA RejectPromptKeeps == ASSUME IInv, NEW s \in Slots, RejectPrompt(s) PROVE LoopKeeps
<1>1. slots[s] \in server_slot /\ batch \in Locals
    BY DEF IInv, TypeOK, LoopTypeOK, Locals
<1>2. PICK t \in Tasks \cup {-1} : t = slots[s].id_task
    BY <1>1 DEF server_slot
<1>3. PICK k \in {"final", "error"} : k = IF NPrompt[t] = 0 THEN "final" ELSE "error"
    OBVIOUS
<1>4. /\ release(s, slots[s]) /\ Send(<<Result(t, k)>>) /\ UNCHANGED <<httpVars, cur>>
      /\ loop # "process" /\ loop' = loop /\ batch.k = s
      /\ batch' = [batch EXCEPT !.k = @ + 1, !.slot_batched = BatchedWith(s)]
    BY <1>2, <1>3 DEF RejectPrompt, AtPrompt, InUpdate, send_error, send_final_response
<1>5. batch' \in Locals
    BY <1>1, <1>4, NextSlot DEF Locals
<1>6. /\ <<Result(t, k)>> \in Seq(Sendable(Tasks \cup {-1}))
      /\ Result(t, k) \in Range(<<Result(t, k)>>)
    BY OneResult DEF ResultKinds
<1>. QED
    BY <1>1, <1>2, <1>4, <1>5, <1>6, EndKeeps

LEMMA SendEmbeddingKeeps == ASSUME IInv, NEW s \in Slots, SendEmbedding(s) PROVE LoopKeeps
<1> DEFINE slot == [slots[s] EXCEPT !.i_batch = -1]
<1>1. slots[s] \in server_slot /\ batch \in Locals
    BY DEF IInv, TypeOK, LoopTypeOK, Locals
<1>2. PICK t \in Tasks \cup {-1} : t = slots[s].id_task
    BY <1>1 DEF server_slot
<1>3. /\ release(s, slot) /\ Send(<<Result(t, "final")>>) /\ UNCHANGED <<httpVars, cur>>
      /\ loop # "process" /\ loop' = loop /\ batch' = batch
    BY <1>2 DEF SendEmbedding, InUpdate, send_embedding
<1>4. slot \in server_slot /\ slot.id_task = slots[s].id_task
    BY <1>1 DEF server_slot
<1>5. /\ <<Result(t, "final")>> \in Seq(Sendable(Tasks \cup {-1}))
      /\ Result(t, "final") \in Range(<<Result(t, "final")>>)
    BY OneResult DEF ResultKinds
<1> HIDE DEF slot
<1>. QED
    BY <1>1, <1>2, <1>3, <1>4, <1>5, EndKeeps

LEMMA SkipKeeps ==
    ASSUME IInv, NEW s \in Slots, SkipNoPrompt(s) \/ SkipIncompatible(s)
    PROVE  LoopKeeps
<1>1. batch \in Locals /\ slots \in [Slots -> server_slot] /\ loop \in Phases
    BY DEF IInv, TypeOK, LoopTypeOK, Locals
<1>2. /\ UNCHANGED <<queueVars, responseVars, httpVars, cur, slots, loop>>
      /\ loop # "process" /\ batch.k = s
      /\ \/ batch' = [batch EXCEPT !.k = NextPrompt(batch)]
         \/ batch' = [batch EXCEPT !.k = @ + 1]
    BY DEF SkipNoPrompt, SkipIncompatible, AtPrompt, InUpdate
<1>3. batch' \in Locals
    BY <1>1, <1>2, NextSlot DEF Locals, NextPrompt
<1>4. \A u \in Slots : is_processing(u) =>
          slots'[u].state # "IDLE" /\ slots'[u].id_task = slots[u].id_task
    BY <1>2 DEF is_processing
<1>. QED
    BY <1>1, <1>2, <1>3, <1>4, WorkKeeps

LEMMA BatchPromptKeeps == ASSUME IInv, NEW s \in Slots, BatchPrompt(s) PROVE LoopKeeps
<1> DEFINE room == N_BATCH - batch.n_tokens
           left == slots[s].n_left
           fits == ~is_non_causal(s) \/ left <= room
           n == IF ~fits \/ room <= 0 THEN 0 ELSE IF left <= room THEN left ELSE room
           b == [batch EXCEPT !.n_tokens = @ + n, !.slot_batched = BatchedWith(s)]
           done == [slots[s] EXCEPT !.state = "DONE_PROMPT", !.n_left = 0,
                                    !.n_decoded = 0, !.i_batch = b.n_tokens - 1]
           more == [slots[s] EXCEPT !.state = "PROCESSING_PROMPT", !.n_left = left - n]
<1>1. batch \in Locals /\ slots \in [Slots -> server_slot] /\ loop \in Phases
      /\ slots[s] \in server_slot
    BY DEF IInv, TypeOK, LoopTypeOK, Locals
<1>2. left \in Nat /\ batch.n_tokens \in Nat /\ room \in Int
    BY <1>1, Constants DEF server_slot, Locals
<1>3. n \in Nat /\ n <= left
    BY <1>2
<1>4. /\ UNCHANGED <<queueVars, responseVars, httpVars, cur, loop>>
      /\ loop # "process" /\ batch.k = s
      /\ slots' = [slots EXCEPT ![s] = IF n = left THEN done ELSE more]
      /\ batch' = [b EXCEPT !.k = IF fits THEN NextPrompt(b) ELSE b.k + 1]
    BY DEF BatchPrompt, AtPrompt, InUpdate
<1> HIDE DEF n, fits
<1>5. b \in Locals /\ b.k = batch.k /\ b.n_tokens \in Nat
    <2>1. batch.n_tokens + n \in Nat
        BY <1>2, <1>3
    <2>2. BatchedWith(s) \in Slots \cup {-1}
        BY <1>1, NextSlot
    <2>. QED
        BY <1>1, <2>1, <2>2 DEF Locals
<1> HIDE DEF b
<1>6. done \in server_slot /\ done.state # "IDLE" /\ done.id_task = slots[s].id_task
    <2>1. b.n_tokens - 1 \in Nat \cup {-1}
        BY <1>5
    <2>. QED
        BY <1>1, <2>1 DEF server_slot, slot_state
<1>7. more \in server_slot /\ more.state # "IDLE" /\ more.id_task = slots[s].id_task
    <2>1. left - n \in Nat
        BY <1>2, <1>3
    <2>. QED
        BY <1>1, <2>1 DEF server_slot, slot_state
<1> HIDE DEF done, more
<1>8. batch' \in Locals
    <2>1. (IF fits THEN NextPrompt(b) ELSE b.k + 1) \in 0..N_SLOTS
        BY <1>1, <1>5, <1>4, NextSlot DEF NextPrompt
    <2>. QED
        BY <1>5, <1>4, <2>1 DEF Locals
<1>9. PICK slot \in server_slot : /\ slots' = [slots EXCEPT ![s] = slot]
                                  /\ slot.state # "IDLE" /\ slot.id_task = slots[s].id_task
    BY <1>6, <1>7, <1>4
<1>10. /\ slots' \in [Slots -> server_slot] /\ slots'[s] = slot
       /\ \A u \in Slots : u # s => slots'[u] = slots[u]
    BY <1>1, <1>9, SlotUpdate
<1>11. \A u \in Slots : is_processing(u) =>
           slots'[u].state # "IDLE" /\ slots'[u].id_task = slots[u].id_task
    BY <1>9, <1>10 DEF is_processing
<1>. QED
    BY <1>1, <1>4, <1>8, <1>10, <1>11, WorkKeeps

\* The batched slots are some of the slots, so they can be counted and, if
\* there are any, one comes first.
LEMMA BatchableSlots ==
    /\ \A S \in SUBSET Slots : IsFiniteSet(S) /\ Cardinality(S) \in Nat
    /\ \A S \in SUBSET Slots : S # {} => \E f \in S : \A g \in S : f <= g
<1>1. IsFiniteSet(Slots)
    BY Constants, FS_Interval
<1>2. ASSUME NEW S \in SUBSET Slots PROVE IsFiniteSet(S) /\ Cardinality(S) \in Nat
    <2>1. IsFiniteSet(S)
        BY <1>1, FS_Subset
    <2>. QED
        BY <2>1, FS_CardinalityType
<1>3. ASSUME NEW S \in SUBSET Slots, S # {} PROVE \E f \in S : \A g \in S : f <= g
    <2>1. S \in SUBSET Nat
        BY Constants
    <2>. QED
        BY <1>3, <2>1, SmallestElement
<1>. QED
    BY <1>2, <1>3

LEMMA BatchSampledKeeps == ASSUME IInv, BatchSampled PROVE LoopKeeps
<1> DEFINE row(s) == Cardinality({u \in Batchable : u < s})
           n == Cardinality(Batchable)
           first == IF Batchable = {} THEN -1
                    ELSE CHOOSE f \in Batchable : \A g \in Batchable : f <= g
           b == [EmptyBatch EXCEPT !.n_tokens = n, !.slot_batched = first]
           phase == IF ContBatching \/ n = 0 THEN "prompt" ELSE "decode"
<1>1. slots \in [Slots -> server_slot]
    BY DEF IInv, TypeOK, LoopTypeOK
<1>2. Batchable \in SUBSET Slots /\ \A s \in Slots : {u \in Batchable : u < s} \in SUBSET Slots
    BY DEF Batchable, Generating
<1>3. n \in Nat /\ \A s \in Slots : row(s) \in Nat
    BY <1>2, BatchableSlots
<1>4. first \in Slots \cup {-1}
    <2>1. CASE Batchable = {}
        BY <2>1
    <2>2. CASE Batchable # {}
        <3>1. \E f \in Batchable : \A g \in Batchable : f <= g
            BY <1>2, <2>2, BatchableSlots
        <3>. QED
            BY <1>2, <2>2, <3>1
    <2>. QED
        BY <2>1, <2>2
<1>5. /\ UNCHANGED <<queueVars, responseVars, httpVars, cur>> /\ loop # "process"
      /\ slots' = [s \in Slots |-> IF s \in Batchable
                                   THEN [slots[s] EXCEPT !.i_batch = row(s)] ELSE slots[s]]
      /\ GoTo(phase, b)
    BY DEF BatchSampled, InUpdate
<1> HIDE DEF row, n, first
<1>6. b \in Locals
    <2>1. EmptyBatch \in Locals
        BY Constants DEF Locals, EmptyBatch
    <2>. QED
        BY <1>3, <1>4, <2>1 DEF Locals
<1>7. loop' \in Phases \ {"process"} /\ batch' \in Locals
    <2>1. phase \in Phases
        BY DEF Phases
    <2>2. loop' # "process"
        BY <1>5 DEF GoTo
    <2>. QED
        BY <1>5, <1>6, <2>1, <2>2, GoToType
<1>8. ASSUME NEW s \in Slots
      PROVE  /\ slots'[s] \in server_slot /\ slots'[s].state = slots[s].state
             /\ slots'[s].id_task = slots[s].id_task
    <2>1. slots[s] \in server_slot /\ row(s) \in Nat
        BY <1>1, <1>3
    <2>2. slots'[s] = IF s \in Batchable
                      THEN [slots[s] EXCEPT !.i_batch = row(s)] ELSE slots[s]
        BY <1>5
    <2>. QED
        BY <2>1, <2>2 DEF server_slot
<1>9. slots' \in [Slots -> server_slot]
    BY <1>5, <1>8
<1>. QED
    BY <1>5, <1>7, <1>8, <1>9, WorkKeeps DEF is_processing

LEMMA SampleTokenKeeps == ASSUME IInv, NEW s \in Slots, SampleToken(s) PROVE LoopKeeps
<1>1. slots[s] \in server_slot /\ batch \in Locals /\ slots \in [Slots -> server_slot]
      /\ loop \in Phases
    BY DEF IInv, TypeOK, LoopTypeOK, Locals
<1>2. PICK t \in Tasks \cup {-1} : t = slots[s].id_task
    BY <1>1 DEF server_slot
<1> DEFINE slot == [slots[s] EXCEPT !.state = "GENERATING", !.i_batch = -1,
                                    !.n_decoded = @ + 1]
           partial == <<Result(t, "partial")>>
           end == <<Result(t, "final")>>
<1>3. slot \in server_slot /\ slot.id_task = slots[s].id_task /\ slot.state # "IDLE"
    <2>1. slots[s].n_decoded + 1 \in Nat
        BY <1>1 DEF server_slot
    <2>. QED
        BY <1>1, <2>1 DEF server_slot, slot_state
<1>4. /\ UNCHANGED <<httpVars, cur, loop, batch>> /\ loop # "process"
      /\ \E text \in {<<>>, partial} :
            \/ /\ slots' = [slots EXCEPT ![s] = slot]
               /\ Send(text)
               /\ UNCHANGED queueVars
            \/ release(s, slot) /\ Send(text \o end)
    BY <1>2, <1>3 DEF SampleToken, process_token, InUpdate
<1>5. PICK text \in {<<>>, partial} :
            \/ /\ slots' = [slots EXCEPT ![s] = slot]
               /\ Send(text)
               /\ UNCHANGED queueVars
            \/ release(s, slot) /\ Send(text \o end)
    BY <1>4
<1>6. /\ end \in Seq(Sendable(Tasks \cup {-1})) /\ Result(t, "final") \in Range(end)
      /\ partial \in Seq(Sendable(Tasks \cup {-1}))
    BY OneResult DEF ResultKinds
<1> HIDE DEF slot, partial, end
<1>7. text \in Seq(Sendable(Tasks \cup {-1}))
    <2>1. <<>> \in Seq(Sendable(Tasks \cup {-1}))
        OBVIOUS
    <2>. QED
        BY <1>6, <2>1
<1>8. CASE slots' = [slots EXCEPT ![s] = slot] /\ Send(text) /\ UNCHANGED queueVars
    <2>1. /\ slots' \in [Slots -> server_slot] /\ slots'[s] = slot
          /\ \A u \in Slots : u # s => slots'[u] = slots[u]
        BY <1>1, <1>3, <1>8, SlotUpdate
    <2>2. \A x : Running(x) => Running(x)'
        BY <1>3, <2>1 DEF Running, is_processing
    <2>3. /\ ResponseTypeOK' /\ waiting_task_ids' = waiting_task_ids
          /\ Results \subseteq Results'
        BY <1>7, <1>8, SendKeeps DEF IInv, TypeOK
    <2>4. QueueTypeOK' /\ Pending' = Pending
        BY <1>8 DEF IInv, TypeOK, QueueTypeOK, queueVars, Pending
    <2>5. TypeOK' /\ CurClear'
        BY <1>1, <1>4, <2>1, <2>3, <2>4 DEF IInv, TypeOK, CurClear, LoopTypeOK, HttpTypeOK,
                                            httpVars, Locals
    <2>. QED
        BY <1>4, <2>2, <2>3, <2>4, <2>5 DEF LoopKeeps, Held, httpVars
<1>9. CASE release(s, slot) /\ Send(text \o end)
    <2>1. /\ text \o end \in Seq(Sendable(Tasks \cup {-1}))
          /\ Result(t, "final") \in Range(text \o end)
        BY <1>6, <1>7, RangeOfConcat
    <2>. QED
        BY <1>1, <1>2, <1>3, <1>4, <1>9, <2>1, EndKeeps
<1>. QED
    BY <1>5, <1>8, <1>9

\* All steps of the main loop.
LEMMA StartLoopKeeps == ASSUME IInv, start_loop PROVE LoopKeeps
<1>1. CASE process_single_task
    BY <1>1, DeferTaskKeeps, LaunchKeeps, CancelRunningKeeps, ProcessNextResponseKeeps,
       ProcessQueryKeeps, ProcessSlotActionKeeps DEF process_single_task
<1>2. CASE update_slots
    BY <1>2, MoveOnKeeps, PostNextResponseKeeps, BatchSampledKeeps, ContextFullKeeps,
       SkipKeeps, RejectPromptKeeps, BatchPromptKeeps, FailSlotKeeps, SendEmbeddingKeeps,
       SampleTokenKeeps DEF update_slots
<1>. QED
    BY <1>1, <1>2, TakeNextKeeps, MoveOnKeeps DEF start_loop

-----------------------------------------------------------------------------
(* Steps of the HTTP threads.                                              *)

\* What a step of the thread of r may do to the requests of other threads:
\* nothing.  It gives back only its own ids and takes only its own results.
OthersKept(r) ==
    /\ UNCHANGED loopVars
    /\ TypeOK'
    /\ \A q \in Requests \ {r} : http'[q] = http[q] /\ received'[q] = received[q]
    /\ http[r] \in {"cancelled", "done"} => http'[r] \in {"cancelled", "done"}
    /\ waiting_task_ids \ TasksOf(r) \subseteq waiting_task_ids'
    /\ \A x \in Results : x.id \notin TasksOf(r) => x \in Results'
    /\ \A x \in Pending : x.id \in Tasks => x \in Pending'
    /\ \A x \in Pending' : \/ x \in Pending
                           \/ x.type # "CANCEL"
                           \/ http'[r] = "cancelled" /\ x.id_target \in TasksOf(r)

LEMMA HttpStepKeeps ==
    ASSUME IInv, NEW r \in Requests, OthersKept(r), AnnouncedFor(r)', KeptFor(r)'
    PROVE  IInv'
<1>1. CurClear'
    BY DEF IInv, CurClear, OthersKept, loopVars
<1>2. ASSUME NEW q \in Requests PROVE AnnouncedFor(q)'
    <2>1. CASE q = r
        BY <2>1
    <2>2. CASE q # r
        BY <2>2, Constants DEF IInv, AnnouncedFor, OthersKept
    <2>. QED
        BY <2>1, <2>2
<1>3. CancelsOwned'
    <2> SUFFICES ASSUME NEW x \in Pending' \cup {cur'}, x.type = "CANCEL"
                 PROVE  GaveUp(x.id_target)'
        BY DEF CancelsOwned
    <2>1. \A t : GaveUp(t) => GaveUp(t)'
        BY DEF GaveUp, OthersKept
    <2>2. CASE x \in Pending \cup {cur}
        BY <2>1, <2>2 DEF IInv, CancelsOwned
    <2>3. CASE x \notin Pending \cup {cur}
        BY <2>3 DEF OthersKept, GaveUp, loopVars
    <2>. QED
        BY <2>2, <2>3
<1>4. ASSUME NEW q \in Requests PROVE KeptFor(q)'
    <2>1. CASE q = r
        BY <2>1
    <2>2. CASE q # r
        <3> SUFFICES ASSUME http[q] = "receiving", NEW t \in TasksOf(q)
                     PROVE  t \in received[q] \/ HasResult(t)' \/ Held(t)'
            BY <2>2 DEF KeptFor, OthersKept
        <3>1. t \in Tasks /\ t \notin TasksOf(r)
            BY <2>2, Constants
        <3>2. HasResult(t) => HasResult(t)'
            BY <3>1 DEF HasResult, OthersKept
        <3>3. Running(t) => Running(t)'
            BY DEF OthersKept, loopVars, Running, is_processing
        <3>4. Held(t) => Held(t)'
            BY <3>1, <3>3 DEF Held, OthersKept, loopVars
        <3>. QED
            BY <3>2, <3>4 DEF IInv, KeptFor
    <2>. QED
        BY <2>1, <2>2
<1>. QED
    BY <1>1, <1>2, <1>3, <1>4 DEF IInv, OthersKept

\* http' after a thread moved.
LEMMA ThreadMoves ==
    ASSUME IInv, NEW r \in Requests, NEW to \in HttpStates,
           http' = [http EXCEPT ![r] = to]
    PROVE  /\ http' \in [Requests -> HttpStates] /\ http'[r] = to
           /\ \A q \in Requests \ {r} : http'[q] = http[q]
    BY DEF IInv, TypeOK, HttpTypeOK

LEMMA RegisterKeeps == ASSUME IInv, NEW r \in Requests, Register(r) PROVE IInv'
<1>1. /\ http' \in [Requests -> HttpStates] /\ http'[r] = "registered" /\ http[r] = "new"
      /\ \A q \in Requests \ {r} : http'[q] = http[q]
    BY ThreadMoves DEF Register, Thread, HttpStates
<1>2. /\ waiting_task_ids' = waiting_task_ids \cup TasksOf(r) /\ queue_results' = queue_results
      /\ UNCHANGED <<queueVars, loopVars, received, n_finished, closed>>
    BY DEF Register, AddWaiting
<1>3. TypeOK'
    BY <1>1, <1>2, Constants DEF IInv, TypeOK, QueueTypeOK, ResponseTypeOK, LoopTypeOK,
                                 HttpTypeOK, queueVars, loopVars
<1>4. Pending' = Pending /\ Results' = Results
    BY <1>2 DEF Pending, Results, queueVars
<1>5. OthersKept(r)
    BY <1>1, <1>2, <1>3, <1>4 DEF OthersKept
<1>6. AnnouncedFor(r)' /\ KeptFor(r)'
    BY <1>1, <1>2 DEF AnnouncedFor, KeptFor
<1>. QED
    BY <1>5, <1>6, HttpStepKeeps

\* The tasks a handler posts.
LEMMA PostedTasks ==
    ASSUME NEW r \in Requests
    PROVE  LET new == [i \in DOMAIN ReqTasks[r] |-> ClientTask(ReqTasks[r][i])]
           IN  new \in Seq(server_task) /\ Range(new) = {ClientTask(t) : t \in TasksOf(r)}
<1> DEFINE new == [i \in DOMAIN ReqTasks[r] |-> ClientTask(ReqTasks[r][i])]
<1>1. ReqTasks[r] \in Seq(Tasks) /\ \A t \in Tasks : ClientTask(t) \in server_task
    BY Constants DEF server_task
<1>2. /\ DOMAIN ReqTasks[r] = 1..Len(ReqTasks[r]) /\ Len(ReqTasks[r]) \in Nat
      /\ \A i \in DOMAIN ReqTasks[r] : ReqTasks[r][i] \in Tasks
    BY <1>1
<1>3. new \in [1..Len(ReqTasks[r]) -> server_task]
    BY <1>1, <1>2
<1>4. new \in Seq(server_task)
    BY <1>2, <1>3
<1>5. Range(new) = {ClientTask(ReqTasks[r][i]) : i \in DOMAIN ReqTasks[r]}
    BY <1>3 DEF Range
<1>6. Range(new) = {ClientTask(t) : t \in TasksOf(r)}
    BY <1>5 DEF TasksOf
<1>. QED
    BY <1>4, <1>6

\* Every task of the request is posted, so the server has it in hand.
LEMMA SubmitKeeps == ASSUME IInv, NEW r \in Requests, Submit(r) PROVE IInv'
<1> DEFINE new == [i \in DOMAIN ReqTasks[r] |-> ClientTask(ReqTasks[r][i])]
<1>1. /\ http' \in [Requests -> HttpStates] /\ http'[r] = "receiving" /\ http[r] = "registered"
      /\ \A q \in Requests \ {r} : http'[q] = http[q]
    BY ThreadMoves DEF Submit, Thread, HttpStates
<1>2. UNCHANGED <<responseVars, loopVars, received, n_finished, closed>>
    BY DEF Submit
<1>3. /\ new \in Seq(server_task)
      /\ Range(new) = {ClientTask(t) : t \in TasksOf(r)}
    BY PostedTasks
<1>4. PICK front \in BOOLEAN : Post(new, front)
    BY DEF Submit
<1> HIDE DEF new
<1>5. QueueTypeOK' /\ Pending' = Pending \cup {ClientTask(t) : t \in TasksOf(r)}
    BY <1>3, <1>4, PostAdds DEF IInv, TypeOK
<1>6. TypeOK'
    BY <1>1, <1>2, <1>5 DEF IInv, TypeOK, ResponseTypeOK, LoopTypeOK, HttpTypeOK,
                            responseVars, loopVars
<1>7. \A t \in TasksOf(r) : /\ ClientTask(t).type # "CANCEL" /\ ClientTask(t).id = t
    BY Constants, TaskShape
<1>8. OthersKept(r)
    <2>1. \A x \in Pending' : x \in Pending \/ x.type # "CANCEL"
        BY <1>5, <1>7
    <2>2. Pending \subseteq Pending' /\ Results' = Results
        BY <1>2, <1>5 DEF Results, responseVars
    <2>. QED
        BY <1>1, <1>2, <1>6, <2>1, <2>2 DEF OthersKept, responseVars
<1>9. AnnouncedFor(r)'
    BY <1>1, <1>2 DEF IInv, AnnouncedFor, responseVars
<1>10. KeptFor(r)'
    BY <1>5, <1>7 DEF KeptFor, Held
<1>. QED
    BY <1>8, <1>9, <1>10, HttpStepKeeps

LEMMA DisconnectKeeps == ASSUME IInv, NEW r \in Requests, Disconnect(r) PROVE IInv'
<1>1. /\ UNCHANGED <<queueVars, responseVars, loopVars, http, received, n_finished>>
      /\ closed' \in SUBSET Requests
    BY DEF Disconnect, IInv, TypeOK, HttpTypeOK
<1>2. TypeOK'
    BY <1>1 DEF IInv, TypeOK, QueueTypeOK, ResponseTypeOK, LoopTypeOK, HttpTypeOK,
                queueVars, responseVars, loopVars
<1>3. Pending' = Pending /\ Results' = Results
    BY <1>1 DEF Pending, Results, queueVars, responseVars
<1>4. \A t : Running(t) => Running(t)'
    BY <1>1 DEF loopVars, Running, is_processing
<1>5. OthersKept(r)
    BY <1>1, <1>2, <1>3 DEF OthersKept, responseVars
<1>6. AnnouncedFor(r)' /\ KeptFor(r)'
    BY <1>1, <1>3, <1>4 DEF IInv, AnnouncedFor, KeptFor, HasResult, Held,
                            responseVars, loopVars
<1>. QED
    BY <1>5, <1>6, HttpStepKeeps

\* The result that leaves the queue is counted as received, or the request ends.
LEMMA ReceiveKeeps == ASSUME IInv, NEW r \in Requests, Receive(r) PROVE IInv'
<1>1. PICK i \in DOMAIN queue_results :
        LET res == queue_results[i]
            n == n_finished[r] + (IF res.kind = "final" THEN 1 ELSE 0)
        IN  /\ IsFirstFor(i, TasksOf(r))
            /\ TakeResult(i)
            /\ \/ /\ res.kind = "error" /\ Mode[r] # "single"
                  /\ http' = [http EXCEPT ![r] = "cancelling"]
                  /\ UNCHANGED <<received, n_finished>>
               \/ /\ res.kind # "error" \/ Mode[r] = "single"
                  /\ received' = IF res.kind = "partial" THEN received
                                 ELSE [received EXCEPT ![r] = @ \cup {res.id}]
                  /\ n_finished' = [n_finished EXCEPT ![r] = n]
                  /\ http' = IF n = Len(ReqTasks[r]) \/ Mode[r] = "single"
                             THEN [http EXCEPT ![r] = "answered"] ELSE http
    BY DEF Receive
<1>2. PICK res : res = queue_results[i]
    OBVIOUS
<1>3. http[r] = "receiving" /\ UNCHANGED <<queueVars, loopVars, closed>>
    BY DEF Receive
<1>4. queue_results \in Seq(Sendable(Tasks)) /\ waiting_task_ids \subseteq Tasks
    BY DEF IInv, TypeOK, ResponseTypeOK, Sendable
<1>5. /\ queue_results' \in Seq(Sendable(Tasks)) /\ waiting_task_ids' = waiting_task_ids
      /\ Results' \subseteq Results /\ Results \subseteq Results' \cup {res}
    BY <1>1, <1>2, <1>4, TakeResultKeeps
<1>6. res \in Sendable(Tasks) /\ res.id \in TasksOf(r) /\ res.id \in Tasks
    <2>1. res \in Sendable(Tasks)
        BY <1>2, <1>4, InRange
    <2>2. res.id \in TasksOf(r)
        BY <1>1, <1>2 DEF IsFirstFor, Matches
    <2>. QED
        BY <2>1, <2>2 DEF Sendable
<1>7. /\ http' \in [Requests -> HttpStates] /\ \A q \in Requests \ {r} : http'[q] = http[q]
    <2>1. \/ http' = http \/ http' = [http EXCEPT ![r] = "cancelling"]
          \/ http' = [http EXCEPT ![r] = "answered"]
        BY <1>1
    <2>. QED
        BY <2>1, ThreadMoves DEF HttpStates, IInv, TypeOK, HttpTypeOK
<1>8. /\ received' \in [Requests -> SUBSET Tasks]
      /\ \A q \in Requests \ {r} : received'[q] = received[q]
      /\ received[r] \subseteq received'[r]
    <2>1. received' = received \/ received' = [received EXCEPT ![r] = @ \cup {res.id}]
        BY <1>1, <1>2
    <2>. QED
        BY <1>6, <2>1 DEF IInv, TypeOK, HttpTypeOK
<1>9. n_finished' \in [Requests -> Nat]
    <2>1. n_finished \in [Requests -> Nat]
        BY DEF IInv, TypeOK, HttpTypeOK
    <2>2. \E n \in Nat : n_finished' = n_finished \/ n_finished' = [n_finished EXCEPT ![r] = n]
        BY <1>1, <2>1
    <2>. QED
        BY <2>1, <2>2
<1>10. TypeOK'
    BY <1>3, <1>4, <1>5, <1>7, <1>8, <1>9
       DEF IInv, TypeOK, QueueTypeOK, ResponseTypeOK, LoopTypeOK, HttpTypeOK, Sendable,
           queueVars, loopVars
<1>11. Pending' = Pending
    BY <1>3 DEF Pending, queueVars
<1>12. OthersKept(r)
    BY <1>3, <1>5, <1>6, <1>7, <1>8, <1>10, <1>11 DEF OthersKept
<1>13. AnnouncedFor(r)'
    BY <1>3, <1>5 DEF IInv, AnnouncedFor
<1>14. KeptFor(r)'
    <2> SUFFICES ASSUME http'[r] = "receiving", NEW t \in TasksOf(r)
                 PROVE  t \in received'[r] \/ HasResult(t)' \/ Held(t)'
        BY DEF KeptFor
    <2>1. t \in received[r] \/ HasResult(t) \/ Held(t)
        BY <1>3 DEF IInv, KeptFor
    <2>2. CASE t \in received[r]
        BY <1>8, <2>2
    <2>3. CASE Held(t)
        <3>1. Running(t) => Running(t)'
            BY <1>3 DEF loopVars, Running, is_processing
        <3>. QED
            BY <1>3, <1>11, <2>3, <3>1 DEF Held, loopVars
    <2>4. CASE HasResult(t)
        <3>1. PICK x \in Results : x.id = t /\ x.kind # "partial"
            BY <2>4 DEF HasResult
        <3>2. CASE x \in Results'
            BY <3>1, <3>2 DEF HasResult
        <3>3. CASE x = res
            <4>1. http \in [Requests -> HttpStates] /\ received \in [Requests -> SUBSET Tasks]
                BY DEF IInv, TypeOK, HttpTypeOK
            <4>2. ~(http' = [http EXCEPT ![r] = "cancelling"])
                BY <4>1
            <4>3. received' = [received EXCEPT ![r] = @ \cup {res.id}]
                BY <1>1, <1>2, <3>1, <3>3, <4>2
            <4>. QED
                BY <3>1, <3>3, <4>1, <4>3
        <3>. QED
            BY <1>5, <3>2, <3>3
    <2>. QED
        BY <2>1, <2>2, <2>3, <2>4
<1>. QED
    BY <1>12, <1>13, <1>14, HttpStepKeeps

\* A step that leaves the thread of r neither registered nor receiving.
LEMMA AwayKeeps ==
    ASSUME IInv, NEW r \in Requests, OthersKept(r),
           http'[r] \notin {"registered", "receiving"}
    PROVE  IInv'
<1>1. AnnouncedFor(r)' /\ KeptFor(r)'
    BY DEF AnnouncedFor, KeptFor
<1>. QED
    BY <1>1, HttpStepKeeps

LEMMA FoundClosedKeeps == ASSUME IInv, NEW r \in Requests, FoundClosed(r) PROVE IInv'
<1>1. /\ http' \in [Requests -> HttpStates] /\ http'[r] = "cancelling" /\ http[r] = "receiving"
      /\ \A q \in Requests \ {r} : http'[q] = http[q]
    BY ThreadMoves DEF FoundClosed, Thread, HttpStates
<1>2. UNCHANGED <<queueVars, loopVars, received, n_finished, closed>>
    BY DEF FoundClosed
<1>3. queue_results \in Seq(Sendable(Tasks)) /\ waiting_task_ids \subseteq Tasks
    BY DEF IInv, TypeOK, ResponseTypeOK, Sendable
<1>4. /\ queue_results' \in Seq(Sendable(Tasks)) /\ waiting_task_ids' = waiting_task_ids
      /\ \A x \in Results : x.id \notin TasksOf(r) => x \in Results'
    <2>1. CASE UNCHANGED responseVars
        BY <1>3, <2>1 DEF responseVars, Results
    <2>2. ASSUME NEW i \in DOMAIN queue_results, IsFirstFor(i, TasksOf(r)), TakeResult(i)
          PROVE  /\ queue_results' \in Seq(Sendable(Tasks))
                 /\ waiting_task_ids' = waiting_task_ids
                 /\ \A x \in Results : x.id \notin TasksOf(r) => x \in Results'
        <3>1. /\ queue_results' \in Seq(Sendable(Tasks)) /\ waiting_task_ids' = waiting_task_ids
              /\ Results \subseteq Results' \cup {queue_results[i]}
            BY <1>3, <2>2, TakeResultKeeps
        <3>2. queue_results[i].id \in TasksOf(r)
            BY <2>2 DEF IsFirstFor, Matches
        <3>. QED
            BY <3>1, <3>2
    <2>. QED
        BY <2>1, <2>2 DEF FoundClosed
<1>5. TypeOK'
    BY <1>1, <1>2, <1>3, <1>4 DEF IInv, TypeOK, QueueTypeOK, ResponseTypeOK, LoopTypeOK,
                                  HttpTypeOK, Sendable, queueVars, loopVars
<1>6. OthersKept(r)
    BY <1>1, <1>2, <1>4, <1>5 DEF OthersKept, Pending, queueVars
<1>. QED
    BY <1>1, <1>6, AwayKeeps

LEMMA StopWaitingKeeps == ASSUME IInv, NEW r \in Requests, StopWaiting(r) PROVE IInv'
<1>1. /\ http' \in [Requests -> HttpStates] /\ http'[r] = "unregistered"
      /\ http[r] = "cancelling" /\ \A q \in Requests \ {r} : http'[q] = http[q]
    BY ThreadMoves DEF StopWaiting, Thread, HttpStates
<1>2. UNCHANGED <<queueVars, loopVars, received, n_finished, closed>>
    BY DEF StopWaiting
<1>3. queue_results \in Seq(Sendable(Tasks)) /\ waiting_task_ids \subseteq Tasks
    BY DEF IInv, TypeOK, ResponseTypeOK, Sendable
<1>4. /\ queue_results' \in Seq(Sendable(Tasks))
      /\ waiting_task_ids' = waiting_task_ids \ TasksOf(r)
      /\ Results' = {x \in Results : x.id \notin TasksOf(r)}
    BY <1>3, PurgeKeeps DEF StopWaiting
<1>5. TypeOK'
    BY <1>1, <1>2, <1>3, <1>4 DEF IInv, TypeOK, QueueTypeOK, ResponseTypeOK, LoopTypeOK,
                                  HttpTypeOK, Sendable, queueVars, loopVars
<1>6. OthersKept(r)
    BY <1>1, <1>2, <1>4, <1>5 DEF OthersKept, Pending, queueVars
<1>. QED
    BY <1>1, <1>6, AwayKeeps

\* The CANCELs are for tasks of r, which has given up; the cleanup drops only
\* other CANCELs.
LEMMA CancelTasksKeeps == ASSUME IInv, NEW r \in Requests, CancelTasks(r) PROVE IInv'
<1>1. /\ http' \in [Requests -> HttpStates] /\ http'[r] = "cancelled"
      /\ http[r] = "unregistered" /\ \A q \in Requests \ {r} : http'[q] = http[q]
    BY ThreadMoves DEF CancelTasks, Thread, HttpStates
<1>2. UNCHANGED <<responseVars, loopVars, received, n_finished, closed>>
    BY DEF CancelTasks
<1>3. /\ QueueTypeOK'
      /\ \A x \in Pending' : x \in Pending \/ \E t \in TasksOf(r) : x = CancelTask(t)
      /\ \A x \in Pending : x.id_target \notin TasksOf(r) => x \in Pending'
    BY PostCancelsKeeps, Constants DEF CancelTasks, IInv, TypeOK
<1>4. TypeOK'
    BY <1>1, <1>2, <1>3 DEF IInv, TypeOK, ResponseTypeOK, LoopTypeOK, HttpTypeOK,
                            responseVars, loopVars
<1>5. \A x \in Pending : x \in server_task
    BY InRange DEF IInv, TypeOK, QueueTypeOK, Pending
<1>6. \A x \in Pending : x.id \in Tasks => x.id_target = -1
    BY <1>5, TaskShape
<1>7. \A x \in Pending : x.id \in Tasks => x \in Pending'
    BY <1>3, <1>6, TaskShape, Constants
<1>8. \A x \in Pending' : x \in Pending \/ x.id_target \in TasksOf(r)
    BY <1>3 DEF CancelTask
<1>9. OthersKept(r)
    BY <1>1, <1>2, <1>4, <1>7, <1>8 DEF OthersKept, Results, responseVars
<1>. QED
    BY <1>1, <1>9, AwayKeeps

LEMMA LeaveKeeps == ASSUME IInv, NEW r \in Requests, Leave(r) PROVE IInv'
<1>1. /\ http' \in [Requests -> HttpStates] /\ http'[r] = "done"
      /\ \A q \in Requests \ {r} : http'[q] = http[q]
    BY ThreadMoves DEF Leave, HttpStates
<1>2. UNCHANGED <<queueVars, loopVars, received, n_finished, closed>>
    BY DEF Leave
<1>3. queue_results \in Seq(Sendable(Tasks)) /\ waiting_task_ids \subseteq Tasks
    BY DEF IInv, TypeOK, ResponseTypeOK, Sendable
<1>4. /\ queue_results' \in Seq(Sendable(Tasks)) /\ waiting_task_ids' \subseteq Tasks
      /\ waiting_task_ids \ TasksOf(r) \subseteq waiting_task_ids'
      /\ \A x \in Results : x.id \notin TasksOf(r) => x \in Results'
    <2>1. CASE RemoveAndPurge(TasksOf(r))
        BY <1>3, <2>1, PurgeKeeps
    <2>2. CASE RemoveWaiting(TasksOf(r)) \/ UNCHANGED responseVars
        BY <1>3, <2>2 DEF RemoveWaiting, responseVars, Results
    <2>. QED
        BY <2>1, <2>2 DEF Leave
<1>5. TypeOK'
    BY <1>1, <1>2, <1>4 DEF IInv, TypeOK, QueueTypeOK, ResponseTypeOK, LoopTypeOK,
                            HttpTypeOK, Sendable, queueVars, loopVars
<1>6. OthersKept(r)
    BY <1>1, <1>2, <1>4, <1>5 DEF OthersKept, Pending, queueVars
<1>. QED
    BY <1>1, <1>6, AwayKeeps

-----------------------------------------------------------------------------
(* The invariant and what follows from it.                                 *)

LEMMA StutterKeeps == ASSUME IInv, UNCHANGED vars PROVE IInv'
<1>1. UNCHANGED <<queue_tasks, queue_tasks_deferred, waiting_task_ids, queue_results, slots,
                  loop, cur, batch, http, received, n_finished, closed>>
    BY DEF vars, queueVars, responseVars, loopVars, httpVars
<1>2. TypeOK' /\ CurClear'
    BY <1>1 DEF IInv, TypeOK, CurClear, QueueTypeOK, ResponseTypeOK, LoopTypeOK, HttpTypeOK
<1>3. Pending' = Pending /\ Results' = Results /\ \A t : Running(t)' <=> Running(t)
    BY <1>1 DEF Pending, Results, Running, is_processing
<1>. QED
    BY <1>1, <1>2, <1>3 DEF IInv, AnnouncedFor, CancelsOwned, GaveUp, KeptFor, HasResult,
                            Held

LEMMA InitHolds == Init => IInv
<1> SUFFICES ASSUME Init PROVE IInv
    OBVIOUS
<1>1. QueueTypeOK /\ ResponseTypeOK /\ Pending = {}
    BY DEF Init, QueueInit, ResponseInit, QueueTypeOK, ResponseTypeOK, Pending, Range
<1>2. LoopTypeOK
    <2>1. FreshSlot \in server_slot
        BY DEF FreshSlot, server_slot, slot_state
    <2>2. EmptyBatch \in Locals
        BY Constants DEF EmptyBatch, Locals
    <2>. QED
        BY <2>1, <2>2, TaskShape DEF Init, LoopTypeOK, Phases, Locals
<1>3. HttpTypeOK /\ CurClear /\ \A r \in Requests : AnnouncedFor(r) /\ KeptFor(r)
    BY DEF Init, HttpTypeOK, HttpStates, CurClear, AnnouncedFor, KeptFor
<1>4. CancelsOwned
    BY <1>1, TaskShape DEF Init, CancelsOwned
<1>. QED
    BY <1>1, <1>2, <1>3, <1>4 DEF IInv, TypeOK

LEMMA NextHolds == IInv /\ [Next]_vars => IInv'
<1> SUFFICES ASSUME IInv, [Next]_vars PROVE IInv'
    OBVIOUS
<1>1. CASE start_loop
    BY <1>1, StartLoopKeeps, LoopKeepsInvariant
<1>2. ASSUME NEW r \in Requests, Handle(r) \/ Disconnect(r) PROVE IInv'
    <2>1. TimeoutRetry(r) => UNCHANGED vars
        BY DEF TimeoutRetry
    <2>. QED
        BY <1>2, <2>1, RegisterKeeps, SubmitKeeps, ReceiveKeeps, FoundClosedKeeps,
           StopWaitingKeeps, CancelTasksKeeps, LeaveKeeps, DisconnectKeeps, StutterKeeps
           DEF Handle
<1>3. CASE UNCHANGED vars
    BY <1>3, StutterKeeps
<1>. QED
    BY <1>1, <1>2, <1>3 DEF Next, Quiescent

\* The inductive invariant holds in every reachable state.
THEOREM InvariantHolds == Spec => []IInv
    BY InitHolds, NextHolds, PTL DEF Spec

\* Every variable of the server keeps its type, whatever the number of slots,
\* requests and tasks and however long the queues: the halved view of a failed
\* decode is never empty and update_slots never leaves the slots.
THEOREM TypeCorrect == Spec => []TypeOK
<1>1. IInv => TypeOK
    BY DEF IInv
<1>. QED
    BY <1>1, InvariantHolds, PTL

\* No task of a request that waits for results is ever lost between the queues,
\* the main loop, the slots and the result queue, whatever decodes fail and
\* whatever clients disconnect.
THEOREM TasksAreKept == Spec => []NoTaskLost
<1>1. IInv => NoTaskLost
    BY KeptIsNoTaskLost DEF IInv, TypeOK
<1>. QED
    BY <1>1, InvariantHolds, PTL

-----------------------------------------------------------------------------
(* No step takes over a slot that is at work.                              *)

\* A released slot is idle, and the others are not touched.
LEMMA ReleaseTakesNoSlot ==
    ASSUME slots \in [Slots -> server_slot], NEW s \in Slots, NEW slot \in server_slot,
           slot.id_task = slots[s].id_task, release(s, slot)
    PROVE  TaskOfSlotKept
<1>1. CASE is_processing(s)
    <2> DEFINE idle == [slot EXCEPT !.state = "IDLE"]
    <2>1. idle \in server_slot /\ idle.state = "IDLE" /\ idle.id_task = slots[s].id_task
        BY DEF server_slot, slot_state
    <2>2. slots' = [slots EXCEPT ![s] = idle]
        BY <1>1 DEF release
    <2>3. slots'[s] = idle /\ \A u \in Slots : u # s => slots'[u] = slots[u]
        BY <2>1, <2>2, SlotUpdate
    <2>. QED
        BY <2>1, <2>3 DEF TaskOfSlotKept
<1>2. CASE ~is_processing(s)
    BY <1>2 DEF release, TaskOfSlotKept
<1>. QED
    BY <1>1, <1>2

LEMMA StepTakesNoSlot == IInv /\ Next => TaskOfSlotKept
<1> SUFFICES ASSUME IInv, Next PROVE TaskOfSlotKept
    OBVIOUS
<1>1. slots \in [Slots -> server_slot] /\ \A s \in Slots : slots[s] \in server_slot
    BY DEF IInv, TypeOK, LoopTypeOK
<1>2. CASE UNCHANGED slots
    BY <1>2 DEF TaskOfSlotKept
<1>3. ASSUME NEW s \in Slots, launch_slot_with_task(s) PROVE TaskOfSlotKept
    <2>1. ~is_processing(s) /\ \E slot : slots' = [slots EXCEPT ![s] = slot]
        BY <1>3 DEF launch_slot_with_task, Idle
    <2>. QED
        BY <1>1, <2>1 DEF TaskOfSlotKept, is_processing
<1>4. CASE CancelRunning
    <2>1. CASE UNCHANGED slots
        BY <1>2, <2>1
    <2>2. CASE \E s \in Slots : release(s, slots[s])
        BY <1>1, <2>2, ReleaseTakesNoSlot
    <2>. QED
        BY <1>4, <2>1, <2>2 DEF CancelRunning
<1>5. ASSUME NEW s \in Slots, ContextFull(s) \/ RejectPrompt(s) \/ FailSlot(s)
      PROVE  TaskOfSlotKept
    BY <1>1, <1>5, ReleaseTakesNoSlot DEF ContextFull, RejectPrompt, FailSlot
<1>6. ASSUME NEW s \in Slots, SendEmbedding(s) PROVE TaskOfSlotKept
    <2> DEFINE slot == [slots[s] EXCEPT !.i_batch = -1]
    <2>1. slot \in server_slot /\ slot.id_task = slots[s].id_task
        BY <1>1 DEF server_slot
    <2>2. release(s, slot)
        BY <1>6 DEF SendEmbedding
    <2>. QED
        BY <1>1, <2>1, <2>2, ReleaseTakesNoSlot
<1>7. ASSUME NEW s \in Slots, SampleToken(s) PROVE TaskOfSlotKept
    <2> DEFINE slot == [slots[s] EXCEPT !.state = "GENERATING", !.i_batch = -1,
                                        !.n_decoded = @ + 1]
    <2>1. slots[s].n_decoded + 1 \in Nat
        BY <1>1 DEF server_slot
    <2>2. /\ slot \in server_slot /\ slot.id_task = slots[s].id_task
          /\ slot.state = "GENERATING"
        BY <1>1, <2>1 DEF server_slot, slot_state
    <2>3. slots' = [slots EXCEPT ![s] = slot] \/ release(s, slot)
        BY <1>7 DEF SampleToken
    <2> HIDE DEF slot
    <2>4. CASE slots' = [slots EXCEPT ![s] = slot]
        BY <1>1, <2>2, <2>4 DEF TaskOfSlotKept
    <2>5. CASE release(s, slot)
        BY <1>1, <2>2, <2>5, ReleaseTakesNoSlot
    <2>. QED
        BY <2>3, <2>4, <2>5
<1>8. CASE BatchSampled
    <2>1. \A s \in Slots : \/ slots'[s] = slots[s]
                           \/ \E n : slots'[s] = [slots[s] EXCEPT !.i_batch = n]
        BY <1>8 DEF BatchSampled
    <2>2. \A s \in Slots : /\ slots'[s].id_task = slots[s].id_task
                           /\ slots'[s].state = slots[s].state
        BY <1>1, <2>1 DEF server_slot
    <2>. QED
        BY <2>2 DEF TaskOfSlotKept
<1>9. ASSUME NEW s \in Slots, BatchPrompt(s) PROVE TaskOfSlotKept
    <2>1. PICK row, left :
              \/ slots' = [slots EXCEPT ![s] =
                     [slots[s] EXCEPT !.state = "DONE_PROMPT", !.n_left = 0,
                                      !.n_decoded = 0, !.i_batch = row]]
              \/ slots' = [slots EXCEPT ![s] =
                     [slots[s] EXCEPT !.state = "PROCESSING_PROMPT", !.n_left = left]]
        BY <1>9 DEF BatchPrompt
    <2> DEFINE done == [slots[s] EXCEPT !.state = "DONE_PROMPT", !.n_left = 0,
                                        !.n_decoded = 0, !.i_batch = row]
               more == [slots[s] EXCEPT !.state = "PROCESSING_PROMPT", !.n_left = left]
    <2>2. /\ done.id_task = slots[s].id_task /\ done.state # "STARTED"
          /\ more.id_task = slots[s].id_task /\ more.state # "STARTED"
        BY <1>1 DEF server_slot
    <2>3. slots' = [slots EXCEPT ![s] = done] \/ slots' = [slots EXCEPT ![s] = more]
        BY <2>1
    <2> HIDE DEF done, more
    <2>. QED
        BY <1>1, <2>2, <2>3 DEF TaskOfSlotKept
<1>10. CASE process_single_task
    <2>1. CASE DeferTask \/ ProcessNextResponse \/ ProcessQuery \/ ProcessSlotAction
        BY <1>2, <2>1 DEF DeferTask, ProcessNextResponse, ProcessQuery, ProcessSlotAction
    <2>. QED
        BY <1>3, <1>4, <1>10, <2>1 DEF process_single_task
<1>11. CASE update_slots
    <2>1. CASE \/ AllIdle \/ PostNextResponse \/ PromptsBatched \/ DecodeOk \/ DecodeRetry
               \/ DecodeFails \/ AllFailed \/ ViewDone
               \/ \E s \in Slots : SkipNoPrompt(s) \/ SkipIncompatible(s)
        BY <1>2, <2>1 DEF AllIdle, PostNextResponse, PromptsBatched, DecodeOk, DecodeRetry,
                          DecodeFails, AllFailed, ViewDone, SkipNoPrompt, SkipIncompatible
    <2>. QED
        BY <1>5, <1>6, <1>7, <1>8, <1>9, <1>11, <2>1 DEF update_slots
<1>12. CASE TakeNext \/ TasksDrained \/ Wake \/ Quiescent
    BY <1>2, <1>12 DEF TakeNext, TasksDrained, Wake, Quiescent, vars, loopVars
<1>13. CASE \E r \in Requests : Handle(r) \/ Disconnect(r)
    BY <1>2, <1>13 DEF Handle, Register, Submit, Receive, TimeoutRetry, FoundClosed,
                       StopWaiting, CancelTasks, Leave, Disconnect, vars, loopVars
<1>. QED
    BY <1>10, <1>11, <1>12, <1>13 DEF Next, start_loop

\* A slot that is at work keeps its task until it is idle: no step, in whatever
\* order tasks are posted, deferred and cancelled, gives it to another task.
THEOREM SlotsAreKept == Spec => SlotKeepsTask
<1>1. IInv /\ [Next]_vars => [TaskOfSlotKept]_vars
    BY StepTakesNoSlot
<1>. QED
    BY <1>1, InvariantHolds, PTL DEF Spec, SlotKeepsTask

-----------------------------------------------------------------------------
(***************************************************************************)
(* update_slots, for every number of slots, size of a batch and number of  *)
(* views a batch is decoded in: no two slots sample from the same row      *)
(* (DistinctRows), and no completed prompt is forgotten                    *)
(* (NoPromptForgotten).  And the main loop does not sleep on deferred      *)
(* tasks (NoneStranded), as long as every task occupies the slot it gets.  *)
(*                                                                         *)
(* Both properties of the batch come from one invariant about the rows     *)
(* slots wait for: they are distinct, in the batch and not behind the      *)
(* current view while a batch is at work, and there are none outside.      *)
(* That the last prompt token of a slot is in the batch at all needs that  *)
(* a slot at its prompt has tokens left.                                   *)
(***************************************************************************)

\* A slot that waits for the logits of its row.
Rowed(s) == \/ slots[s].state = "DONE_PROMPT"
            \/ slots[s].state = "GENERATING" /\ slots[s].i_batch # -1

Outside == {"wait", "next", "process", "update", "shift"}
Within  == {"prompt", "decode", "results"}

\* The rows of the batch that are waited for.
RowsAhead == loop \in Within =>
    \A s \in Slots : Rowed(s) => batch.i <= slots[s].i_batch /\ slots[s].i_batch < batch.n_tokens
RowsDistinct == loop \in Within =>
    \A s, u \in Slots : Rowed(s) /\ Rowed(u) /\ slots[s].i_batch = slots[u].i_batch => s = u
FirstView == loop = "prompt" => batch.i = 0

\* Slots whose rows will not be decoded are failed one after the other.
RowsFailed == loop = "failing" => \A s \in Slots : Rowed(s) => batch.k <= s

NoRows == loop \in Outside => \A s \in Slots : ~Rowed(s)

\* A slot at its prompt has tokens left to evaluate.
PromptLeft(slot) ==
    /\ slot.state = "STARTED" => slot.n_left = NPrompt[slot.id_task]
    /\ slot.state = "PROCESSING_PROMPT" => slot.n_left # 0

Rows == /\ RowsAhead /\ RowsDistinct /\ FirstView /\ RowsFailed /\ NoRows
        /\ \A s \in Slots : PromptLeft(slots[s])
BInv == IInv /\ Rows

-----------------------------------------------------------------------------
(* Steps, by what they do to the slots.                                    *)

\* A slot that is untouched, released, or given a new task.
Settles(s) ==
    \/ slots'[s] = slots[s]
    \/ slots'[s].state = "IDLE"
    \/ slots'[s].state = "STARTED" /\ slots'[s].n_left = NPrompt[slots'[s].id_task]
    \/ slots'[s].state = "GENERATING" /\ slots'[s].i_batch = -1

LEMMA SettlesRows ==
    ASSUME NEW s \in Slots, Settles(s)
    PROVE  /\ Rowed(s)' => Rowed(s) /\ slots'[s] = slots[s]
           /\ PromptLeft(slots[s]) => PromptLeft(slots[s])'
    BY DEF Settles, Rowed, PromptLeft

\* release leaves its slot idle and the others alone.
LEMMA ReleaseSettles ==
    ASSUME IInv, NEW s \in Slots, NEW slot \in server_slot, release(s, slot)
    PROVE  /\ slots'[s].state = "IDLE" /\ \A u \in Slots : Settles(u)
           /\ \A u \in Slots : u # s => slots'[u] = slots[u]
<1>1. CASE is_processing(s)
    <2> DEFINE idle == [slot EXCEPT !.state = "IDLE"]
    <2>1. idle \in server_slot /\ idle.state = "IDLE"
        BY DEF server_slot, slot_state
    <2>2. slots' = [slots EXCEPT ![s] = idle]
        BY <1>1 DEF release
    <2> HIDE DEF idle
    <2>3. slots'[s] = idle /\ \A u \in Slots : u # s => slots'[u] = slots[u]
        BY <2>1, <2>2, SlotUpdate DEF IInv, TypeOK, LoopTypeOK
    <2>. QED
        BY <2>1, <2>3 DEF Settles
<1>2. CASE ~is_processing(s)
    BY <1>2 DEF release, is_processing, Settles
<1>. QED
    BY <1>1, <1>2

\* Outside of a batch no slot gets a row.
LEMMA OutsideKeeps ==
    ASSUME Rows, loop \in Outside, loop' \in Outside, \A s \in Slots : Settles(s)
    PROVE  Rows'
<1>1. \A s \in Slots : ~Rowed(s)' /\ PromptLeft(slots[s])'
    BY SettlesRows DEF Rows, NoRows
<1>2. loop' \notin Within /\ loop' # "failing" /\ loop' # "prompt"
    BY DEF Outside, Within
<1>. QED
    BY <1>1, <1>2 DEF Rows, RowsAhead, RowsDistinct, FirstView, RowsFailed, NoRows

\* Within one view rows are only given up.
LEMMA WithinKeeps ==
    ASSUME Rows, loop \in Within, loop' \in Within, loop' = "prompt" => loop = "prompt",
           batch'.i = batch.i, batch'.n_tokens = batch.n_tokens,
           \A s \in Slots : Settles(s)
    PROVE  Rows'
<1>1. \A s \in Slots : /\ Rowed(s)' => Rowed(s) /\ slots'[s] = slots[s]
                       /\ PromptLeft(slots[s])'
    BY SettlesRows DEF Rows
<1>2. loop' \notin Outside /\ loop' # "failing"
    BY DEF Outside, Within
<1>3. RowsAhead' /\ RowsDistinct'
    BY <1>1 DEF Rows, RowsAhead, RowsDistinct
<1>4. FirstView' /\ RowsFailed' /\ NoRows'
    BY <1>2 DEF Rows, FirstView, RowsFailed, NoRows
<1>. QED
    BY <1>1, <1>3, <1>4 DEF Rows

\* Leaving a batch whose slots all have been served.
LEMMA LeavingKeeps ==
    ASSUME Rows, loop' \in Outside, slots' = slots, \A s \in Slots : ~Rowed(s)
    PROVE  Rows'
<1>1. \A s \in Slots : ~Rowed(s)' /\ PromptLeft(slots[s])'
    BY DEF Rows, Rowed, PromptLeft
<1>2. loop' \notin Within /\ loop' # "failing" /\ loop' # "prompt"
    BY DEF Outside, Within
<1>. QED
    BY <1>1, <1>2 DEF Rows, RowsAhead, RowsDistinct, FirstView, RowsFailed, NoRows

-----------------------------------------------------------------------------
(* The steps of the main loop.                                             *)

LEMMA ProcessKeepsRows == ASSUME BInv, process_single_task PROVE Rows'
<1>1. loop = "process" /\ loop' = "next"
    BY DEF process_single_task, DeferTask, launch_slot_with_task, CancelRunning,
           ProcessNextResponse, ProcessQuery, ProcessSlotAction, Processed
<1>2. loop \in Outside /\ loop' \in Outside
    BY <1>1 DEF Outside
<1>3. slots \in [Slots -> server_slot]
    BY DEF BInv, IInv, TypeOK, LoopTypeOK
<1>4. CASE DeferTask \/ ProcessNextResponse \/ ProcessQuery \/ ProcessSlotAction
    BY <1>2, <1>4, OutsideKeeps DEF BInv, DeferTask, ProcessNextResponse, ProcessQuery,
                                    ProcessSlotAction, Settles
<1>5. ASSUME NEW s \in Slots, launch_slot_with_task(s) PROVE Rows'
    <2> DEFINE t == cur.id
               slot == [slots[s] EXCEPT !.id_task = t, !.n_left = NPrompt[t]]
    <2>1. slots[s].state = "IDLE"
        BY <1>5 DEF launch_slot_with_task, Idle, is_processing
    <2>2. \/ slots' = [slots EXCEPT ![s] = slot]
          \/ slots' = [slots EXCEPT ![s] = [slot EXCEPT !.state = "STARTED"]]
        BY <1>5 DEF launch_slot_with_task
    <2>3. \/ slots'[s].state = "IDLE"
          \/ slots'[s].state = "STARTED" /\ slots'[s].n_left = NPrompt[slots'[s].id_task]
        <3>1. /\ slots[s] \in server_slot /\ slot.state = "IDLE" /\ slot.id_task = t
              /\ slot.n_left = NPrompt[t]
            BY <1>3, <2>1 DEF server_slot
        <3>2. LET started == [slot EXCEPT !.state = "STARTED"]
              IN  /\ started.state = "STARTED" /\ started.id_task = t
                  /\ started.n_left = NPrompt[t]
            BY <1>3 DEF server_slot
        <3> HIDE DEF slot, t
        <3>3. slots'[s] = slot \/ slots'[s] = [slot EXCEPT !.state = "STARTED"]
            BY <1>3, <2>2
        <3>. QED
            BY <3>1, <3>2, <3>3
    <2>4. \A u \in Slots : u # s => slots'[u] = slots[u]
        BY <1>3, <2>2
    <2>. QED
        BY <1>2, <2>3, <2>4, OutsideKeeps DEF BInv, Settles
<1>6. CASE CancelRunning
    <2>1. slots' = slots \/ \E s \in Slots : release(s, slots[s])
        BY <1>6 DEF CancelRunning
    <2>2. \A s \in Slots : Settles(s)
        BY <1>3, <2>1, ReleaseSettles DEF BInv, Settles
    <2>. QED
        BY <1>2, <2>2, OutsideKeeps DEF BInv
<1>. QED
    BY <1>4, <1>5, <1>6 DEF process_single_task

LEMMA OutsideStepsKeepRows ==
    ASSUME BInv, \/ TakeNext \/ TasksDrained \/ Wake \/ AllIdle \/ PostNextResponse
                 \/ \E s \in Slots : ContextFull(s)
    PROVE  Rows'
<1>1. CASE TakeNext \/ TasksDrained \/ Wake \/ AllIdle \/ PostNextResponse
    <2>1. slots' = slots /\ loop \in Outside /\ loop' \in Outside
        BY <1>1 DEF TakeNext, TasksDrained, Wake, AllIdle, PostNextResponse, InUpdate, GoTo,
                    Outside
    <2>. QED
        BY <2>1, OutsideKeeps DEF BInv, Settles
<1>2. ASSUME NEW s \in Slots, ContextFull(s) PROVE Rows'
    <2>1. loop \in Outside /\ loop' \in Outside /\ release(s, slots[s])
        BY <1>2 DEF ContextFull, InUpdate, Outside
    <2>2. slots[s] \in server_slot
        BY DEF BInv, IInv, TypeOK, LoopTypeOK
    <2>. QED
        BY <2>1, <2>2, ReleaseSettles, OutsideKeeps DEF BInv
<1>. QED
    BY <1>1, <1>2

\* The row of a slot: how many slots of the batch come before it.
LEMMA RowsOfSlots ==
    ASSUME NEW S \in SUBSET Slots
    PROVE  LET row(s) == Cardinality({u \in S : u < s})
           IN  /\ Cardinality(S) \in Nat
               /\ \A s \in S : row(s) \in Nat /\ row(s) < Cardinality(S)
               /\ \A s, v \in S : row(s) = row(v) => s = v
<1> DEFINE Before(s) == {u \in S : u < s}
<1>1. \A s \in S : s \in Int
    BY Constants
<1>2. \A T \in SUBSET S : IsFiniteSet(T) /\ Cardinality(T) \in Nat
    BY BatchableSlots
<1>3. ASSUME NEW s \in S PROVE Cardinality(Before(s)) < Cardinality(S)
    <2>1. Before(s) \in SUBSET S /\ s \notin Before(s)
        BY <1>1
    <2>2. Cardinality(Before(s)) <= Cardinality(S) /\ Cardinality(S) # Cardinality(Before(s))
        BY <1>2, <2>1, FS_Subset
    <2>. QED
        BY <1>2, <2>1, <2>2
<1>4. ASSUME NEW s \in S, NEW v \in S, s < v
      PROVE  Cardinality(Before(s)) # Cardinality(Before(v))
    <2>1. Before(s) \in SUBSET Before(v) /\ s \in Before(v) /\ s \notin Before(s)
        BY <1>1, <1>4
    <2>2. Before(v) \in SUBSET S
        OBVIOUS
    <2> HIDE DEF Before
    <2>. QED
        BY <1>2, <2>1, <2>2, FS_Subset
<1>5. \A s, v \in S : Cardinality(Before(s)) = Cardinality(Before(v)) => s = v
    <2> SUFFICES ASSUME NEW s \in S, NEW v \in S, s # v
                 PROVE  Cardinality(Before(s)) # Cardinality(Before(v))
        OBVIOUS
    <2>1. s < v \/ v < s
        BY <1>1
    <2>. QED
        BY <1>4, <2>1
<1>. QED
    BY <1>2, <1>3, <1>5

\* The sampled tokens go into rows of their own.
LEMMA BatchSampledKeepsRows == ASSUME BInv, BatchSampled PROVE Rows'
<1> DEFINE row(s) == Cardinality({u \in Batchable : u < s})
           n == Cardinality(Batchable)
           first == IF Batchable = {} THEN -1
                    ELSE CHOOSE f \in Batchable : \A g \in Batchable : f <= g
           b == [EmptyBatch EXCEPT !.n_tokens = n, !.slot_batched = first]
<1>1. slots \in [Slots -> server_slot] /\ loop = "shift" /\ \A s \in Slots : ~Rowed(s)
    BY DEF BInv, IInv, TypeOK, LoopTypeOK, Rows, NoRows, Outside, BatchSampled, InUpdate
<1>2. /\ slots' = [s \in Slots |-> IF s \in Batchable
                                   THEN [slots[s] EXCEPT !.i_batch = row(s)] ELSE slots[s]]
      /\ loop' \in {"prompt", "decode"} /\ batch' = b
    BY DEF BatchSampled, GoTo
<1>3. /\ Batchable \in SUBSET Slots
      /\ \A s \in Batchable : row(s) \in Nat /\ row(s) < n
      /\ \A s, v \in Batchable : row(s) = row(v) => s = v
    <2>1. Batchable \in SUBSET Slots
        BY DEF Batchable, Generating
    <2>. QED
        BY <2>1, RowsOfSlots
<1>4. batch'.i = 0 /\ batch'.n_tokens = n
    BY <1>2 DEF EmptyBatch
<1> HIDE DEF row, n, b
<1>5. ASSUME NEW s \in Slots
      PROVE  /\ s \in Batchable => slots'[s].i_batch = row(s)
             /\ slots'[s].state = slots[s].state /\ slots'[s].n_left = slots[s].n_left
             /\ slots'[s].id_task = slots[s].id_task
             /\ s \notin Batchable => slots'[s] = slots[s]
    <2>1. slots'[s] = IF s \in Batchable
                      THEN [slots[s] EXCEPT !.i_batch = row(s)] ELSE slots[s]
        BY <1>2
    <2>2. slots[s] \in server_slot
        BY <1>1
    <2>. QED
        BY <2>1, <2>2 DEF server_slot
<1>6. \A s \in Slots : Rowed(s)' => s \in Batchable
    BY <1>1, <1>5 DEF Rowed
<1>7. RowsAhead'
    BY <1>3, <1>4, <1>5, <1>6 DEF RowsAhead
<1>8. RowsDistinct'
    BY <1>3, <1>5, <1>6 DEF RowsDistinct
<1>9. FirstView' /\ RowsFailed' /\ NoRows'
    BY <1>2, <1>4 DEF FirstView, RowsFailed, NoRows, Outside
<1>10. \A s \in Slots : PromptLeft(slots[s])'
    BY <1>5 DEF BInv, Rows, PromptLeft
<1>. QED
    BY <1>7, <1>8, <1>9, <1>10 DEF Rows

\* The last token of a prompt gets the last row of the batch so far.
LEMMA BatchPromptKeepsRows == ASSUME BInv, NEW s \in Slots, BatchPrompt(s) PROVE Rows'
<1> DEFINE room == N_BATCH - batch.n_tokens
           left == slots[s].n_left
           fits == ~is_non_causal(s) \/ left <= room
           n == IF ~fits \/ room <= 0 THEN 0 ELSE IF left <= room THEN left ELSE room
           b == [batch EXCEPT !.n_tokens = @ + n, !.slot_batched = BatchedWith(s)]
           done == [slots[s] EXCEPT !.state = "DONE_PROMPT", !.n_left = 0,
                                    !.n_decoded = 0, !.i_batch = b.n_tokens - 1]
           more == [slots[s] EXCEPT !.state = "PROCESSING_PROMPT", !.n_left = left - n]
<1>1. batch \in Locals /\ slots \in [Slots -> server_slot] /\ slots[s] \in server_slot
    BY DEF BInv, IInv, TypeOK, LoopTypeOK, Locals
<1>2. left \in Nat /\ batch.n_tokens \in Nat /\ room \in Int
    BY <1>1, Constants DEF server_slot, Locals
<1>3. n \in Nat /\ n <= left
    BY <1>2
<1>4. left # 0
    BY DEF BInv, Rows, PromptLeft, BatchPrompt, HasPrompt
<1>5. /\ loop = "prompt" /\ loop' = "prompt"
      /\ slots' = [slots EXCEPT ![s] = IF n = left THEN done ELSE more]
      /\ batch' = [b EXCEPT !.k = IF fits THEN NextPrompt(b) ELSE b.k + 1]
    BY DEF BatchPrompt, AtPrompt, InUpdate
<1> HIDE DEF n, fits
<1>6. batch'.i = batch.i /\ batch'.n_tokens = batch.n_tokens + n /\ b.n_tokens = batch.n_tokens + n
    BY <1>1, <1>5 DEF Locals
<1> HIDE DEF b
<1>7. /\ done.state = "DONE_PROMPT" /\ done.i_batch = b.n_tokens - 1
      /\ more.state = "PROCESSING_PROMPT" /\ more.n_left = left - n
    BY <1>1 DEF server_slot
<1>8. slots'[s] = (IF n = left THEN done ELSE more) /\ \A u \in Slots : u # s => slots'[u] = slots[u]
    BY <1>1, <1>5
<1> HIDE DEF done, more
<1>9. Rowed(s)' => n = left /\ slots'[s].i_batch = batch.n_tokens + n - 1
    <2>1. CASE n = left
        <3>1. slots'[s].i_batch = b.n_tokens - 1
            BY <1>7, <1>8, <2>1
        <3>. QED
            BY <1>2, <1>3, <1>6, <2>1, <3>1
    <2>2. CASE n # left
        <3>1. slots'[s].state = "PROCESSING_PROMPT"
            BY <1>7, <1>8, <2>2
        <3>. QED
            BY <3>1 DEF Rowed
    <2>. QED
        BY <2>1, <2>2
<1>10. PromptLeft(slots[s])'
    BY <1>2, <1>3, <1>7, <1>8 DEF PromptLeft
<1>11. \A u \in Slots : u # s => (Rowed(u)' <=> Rowed(u)) /\ PromptLeft(slots[u])'
    BY <1>8 DEF Rowed, PromptLeft, BInv, Rows
<1>12. \A u \in Slots : u # s /\ Rowed(u)' =>
          batch.i <= slots'[u].i_batch /\ slots'[u].i_batch < batch.n_tokens
    BY <1>5, <1>8, <1>11 DEF BInv, Rows, RowsAhead, Within
<1>13. Rowed(s)' => batch.n_tokens <= slots'[s].i_batch /\ slots'[s].i_batch < batch'.n_tokens
    BY <1>2, <1>3, <1>4, <1>6, <1>9
<1>14. batch.i = 0 /\ \A u \in Slots : slots'[u].i_batch \in Int
    <2>1. slots' \in [Slots -> server_slot]
        BY BatchPromptKeeps DEF BInv, LoopKeeps, TypeOK, LoopTypeOK
    <2>2. \A x \in server_slot : x.i_batch \in Int
        BY DEF server_slot
    <2>. QED
        BY <1>5, <2>1, <2>2 DEF BInv, Rows, FirstView
<1>15. RowsAhead'
    BY <1>2, <1>3, <1>6, <1>12, <1>13, <1>14 DEF RowsAhead
<1>16. RowsDistinct'
    <2> SUFFICES ASSUME NEW u \in Slots, NEW v \in Slots, Rowed(u)', Rowed(v)',
                        slots'[u].i_batch = slots'[v].i_batch
                 PROVE  u = v
        BY DEF RowsDistinct
    <2>1. CASE u # s /\ v # s
        BY <1>5, <1>8, <1>11, <2>1 DEF BInv, Rows, RowsDistinct, Within
    <2>2. CASE u = s \/ v = s
        BY <1>2, <1>12, <1>13, <1>14, <2>2
    <2>. QED
        BY <2>1, <2>2
<1>17. FirstView' /\ RowsFailed' /\ NoRows'
    BY <1>5, <1>6, <1>14 DEF FirstView, RowsFailed, NoRows, Outside
<1>. QED
    BY <1>10, <1>11, <1>15, <1>16, <1>17 DEF Rows

\* Steps that leave the rows of the others alone within a view.
LEMMA ViewStepsKeepRows ==
    ASSUME BInv, \/ DecodeOk \/ DecodeRetry
                 \/ \E s \in Slots : SkipNoPrompt(s) \/ SkipIncompatible(s) \/ RejectPrompt(s)
                 \/ \E s \in Slots : SendEmbedding(s) \/ SampleToken(s)
    PROVE  Rows'
<1>1. batch \in Locals /\ slots \in [Slots -> server_slot]
    BY DEF BInv, IInv, TypeOK, LoopTypeOK, Locals
<1>2. ASSUME NEW b \in {batch, [batch EXCEPT !.n_batch = @ \div 2]}
      PROVE  b.i = batch.i /\ b.n_tokens = batch.n_tokens
    BY <1>1 DEF Locals
<1>3. ASSUME NEW k, NEW f
      PROVE  /\ [batch EXCEPT !.k = k].i = batch.i
             /\ [batch EXCEPT !.k = k].n_tokens = batch.n_tokens
             /\ [batch EXCEPT !.k = k, !.slot_batched = f].i = batch.i
             /\ [batch EXCEPT !.k = k, !.slot_batched = f].n_tokens = batch.n_tokens
    BY <1>1 DEF Locals
<1>4. CASE DecodeOk \/ DecodeRetry
    <2>1. slots' = slots /\ loop = "decode" /\ loop' \in {"decode", "results"}
        BY <1>4 DEF DecodeOk, DecodeRetry, InUpdate, GoTo
    <2>2. batch' \in {batch, [batch EXCEPT !.n_batch = @ \div 2]}
        BY <1>4 DEF DecodeOk, DecodeRetry, GoTo
    <2>3. batch'.i = batch.i /\ batch'.n_tokens = batch.n_tokens
        BY <1>2, <2>2
    <2>. QED
        BY <2>1, <2>3, WithinKeeps DEF BInv, Settles, Within
<1>5. ASSUME NEW s \in Slots, SkipNoPrompt(s) \/ SkipIncompatible(s) PROVE Rows'
    <2>1. slots' = slots /\ loop = "prompt" /\ loop' = "prompt"
        BY <1>5 DEF SkipNoPrompt, SkipIncompatible, AtPrompt, InUpdate
    <2>2. batch' = [batch EXCEPT !.k = NextPrompt(batch)] \/ batch' = [batch EXCEPT !.k = batch.k + 1]
        BY <1>1, <1>5 DEF SkipNoPrompt, SkipIncompatible, Locals
    <2>3. batch'.i = batch.i /\ batch'.n_tokens = batch.n_tokens
        BY <1>3, <2>2
    <2>. QED
        BY <2>1, <2>3, WithinKeeps DEF BInv, Settles, Within
<1>6. ASSUME NEW s \in Slots, RejectPrompt(s) PROVE Rows'
    <2>1. loop = "prompt" /\ loop' = "prompt" /\ release(s, slots[s])
        BY <1>6 DEF RejectPrompt, AtPrompt, InUpdate
    <2>2. batch' = [batch EXCEPT !.k = batch.k + 1, !.slot_batched = BatchedWith(s)]
        BY <1>1, <1>6 DEF RejectPrompt, Locals
    <2>3. batch'.i = batch.i /\ batch'.n_tokens = batch.n_tokens
        BY <1>3, <2>2
    <2>4. \A u \in Slots : Settles(u)
        BY <1>1, <2>1, ReleaseSettles DEF BInv
    <2>. QED
        BY <2>1, <2>3, <2>4, WithinKeeps DEF BInv, Within
<1>7. ASSUME NEW s \in Slots, SendEmbedding(s) PROVE Rows'
    <2> DEFINE slot == [slots[s] EXCEPT !.i_batch = -1]
    <2>1. loop = "results" /\ loop' = "results" /\ batch' = batch /\ release(s, slot)
        BY <1>7 DEF SendEmbedding, InUpdate
    <2>2. slot \in server_slot
        BY <1>1 DEF server_slot
    <2> HIDE DEF slot
    <2>3. \A u \in Slots : Settles(u)
        BY <2>1, <2>2, ReleaseSettles DEF BInv
    <2>. QED
        BY <2>1, <2>3, WithinKeeps DEF BInv, Within
<1>8. ASSUME NEW s \in Slots, SampleToken(s) PROVE Rows'
    <2> DEFINE slot == [slots[s] EXCEPT !.state = "GENERATING", !.i_batch = -1,
                                        !.n_decoded = @ + 1]
    <2>1. /\ loop = "results" /\ loop' = "results" /\ batch' = batch
          /\ slots' = [slots EXCEPT ![s] = slot] \/ release(s, slot)
        BY <1>8 DEF SampleToken, InUpdate
    <2>2. slot \in server_slot /\ slot.state = "GENERATING" /\ slot.i_batch = -1
        <3>1. slots[s] \in server_slot
            BY <1>1
        <3>2. slots[s].n_decoded + 1 \in Nat
            BY <3>1 DEF server_slot
        <3>. QED
            BY <3>1, <3>2 DEF server_slot, slot_state
    <2> HIDE DEF slot
    <2>3. CASE slots' = [slots EXCEPT ![s] = slot]
        <3>1. slots'[s] = slot /\ \A u \in Slots : u # s => slots'[u] = slots[u]
            BY <1>1, <2>3
        <3>2. \A u \in Slots : Settles(u)
            BY <2>2, <3>1 DEF Settles
        <3>. QED
            BY <2>1, <3>2, WithinKeeps DEF BInv, Within
    <2>4. CASE release(s, slot)
        <3>1. \A u \in Slots : Settles(u)
            BY <2>2, <2>4, ReleaseSettles DEF BInv
        <3>. QED
            BY <2>1, <3>1, WithinKeeps DEF BInv, Within
    <2>. QED
        BY <2>1, <2>3, <2>4
<1>. QED
    BY <1>4, <1>5, <1>6, <1>7, <1>8

\* The prompts are visited: with an empty batch no slot can have a row.
LEMMA PromptsBatchedKeepsRows == ASSUME BInv, PromptsBatched PROVE Rows'
<1>1. batch \in Locals /\ slots \in [Slots -> server_slot]
    BY DEF BInv, IInv, TypeOK, LoopTypeOK, Locals
<1>2. slots' = slots /\ loop = "prompt" /\ batch.i = 0
    BY DEF PromptsBatched, InUpdate, BInv, Rows, FirstView
<1>3. CASE batch.n_tokens = 0
    <2>1. loop' = "wait"
        BY <1>3 DEF PromptsBatched, GoTo
    <2>2. \A s \in Slots : slots[s].i_batch \in Int
        BY <1>1 DEF server_slot
    <2>3. \A s \in Slots : ~Rowed(s)
        BY <1>2, <1>3, <2>2 DEF BInv, Rows, RowsAhead, Within
    <2>. QED
        BY <1>2, <2>1, <2>3, LeavingKeeps DEF BInv, Outside
<1>4. CASE batch.n_tokens # 0
    <2>1. loop' = "decode" /\ batch' = batch
        BY <1>4 DEF PromptsBatched, GoTo
    <2>. QED
        BY <1>2, <2>1, WithinKeeps DEF BInv, Settles, Within
<1>. QED
    BY <1>3, <1>4

\* A view is done: the rows still waited for are in the next ones.
LEMMA ViewDoneKeepsRows == ASSUME BInv, ViewDone PROVE Rows'
<1> DEFINE next == batch.i + batch.n_batch
           b == [batch EXCEPT !.i = next]
<1>1. batch \in Locals /\ slots \in [Slots -> server_slot]
    BY DEF BInv, IInv, TypeOK, LoopTypeOK, Locals
<1>2. /\ slots' = slots /\ loop = "results" /\ Sampling = {}
      /\ loop' = IF next < batch.n_tokens THEN "decode" ELSE "wait"
      /\ loop' # "wait" => batch' = b
    BY DEF ViewDone, InUpdate, GoTo
<1>3. /\ batch.i \in Int /\ batch.n_batch \in Int /\ batch.n_tokens \in Int
      /\ \A s \in Slots : slots[s].i_batch \in Int
    BY <1>1 DEF Locals, server_slot
<1>4. ASSUME NEW s \in Slots, Rowed(s)
      PROVE  /\ batch.i <= slots[s].i_batch /\ slots[s].i_batch < batch.n_tokens
             /\ next <= slots[s].i_batch
    <2>1. batch.i <= slots[s].i_batch /\ slots[s].i_batch < batch.n_tokens
        BY <1>2, <1>4 DEF BInv, Rows, RowsAhead, Within
    <2>2. ~InView(s)
        BY <1>2, <1>4 DEF Sampling, Rowed
    <2>. QED
        BY <1>3, <2>1, <2>2 DEF InView, ViewEnd
<1>5. CASE next < batch.n_tokens
    <2>1. loop' = "decode" /\ batch' = b
        BY <1>2, <1>5
    <2>2. batch'.i = next /\ batch'.n_tokens = batch.n_tokens
        BY <1>1, <2>1 DEF Locals
    <2>3. \A s \in Slots : (Rowed(s)' <=> Rowed(s)) /\ PromptLeft(slots[s])'
        BY <1>2 DEF Rowed, PromptLeft, BInv, Rows
    <2> HIDE DEF next
    <2>4. RowsAhead'
        BY <1>2, <1>4, <2>2, <2>3 DEF RowsAhead
    <2>5. RowsDistinct'
        BY <1>2, <2>3 DEF BInv, Rows, RowsDistinct, Within
    <2>6. FirstView' /\ RowsFailed' /\ NoRows'
        BY <2>1 DEF FirstView, RowsFailed, NoRows, Outside
    <2>. QED
        BY <2>3, <2>4, <2>5, <2>6 DEF Rows
<1>6. CASE ~(next < batch.n_tokens)
    <2>1. loop' = "wait"
        BY <1>2, <1>6
    <2>2. \A s \in Slots : ~Rowed(s)
        BY <1>3, <1>4, <1>6
    <2>. QED
        BY <1>2, <2>1, <2>2, LeavingKeeps DEF BInv, Outside
<1>. QED
    BY <1>5, <1>6

\* A decode that fails: the slots are failed one after the other, and with the
\* last of them the last row is given up.
LEMMA FailingKeepsRows ==
    ASSUME BInv, DecodeFails \/ AllFailed \/ \E s \in Slots : FailSlot(s)
    PROVE  Rows'
<1>1. batch \in Locals /\ slots \in [Slots -> server_slot] /\ \A s \in Slots : s \in 0..(N_SLOTS - 1)
    BY DEF BInv, IInv, TypeOK, LoopTypeOK, Locals, Slots
<1>2. CASE DecodeFails
    <2>1. slots' = slots /\ loop' = "failing" /\ batch' = [batch EXCEPT !.k = 0]
        BY <1>2 DEF DecodeFails, GoTo
    <2>2. batch'.k = 0
        BY <1>1, <2>1 DEF Locals
    <2>3. \A s \in Slots : PromptLeft(slots[s])'
        BY <2>1 DEF PromptLeft, BInv, Rows
    <2>4. RowsFailed'
        BY <1>1, <2>2 DEF RowsFailed
    <2>5. RowsAhead' /\ RowsDistinct' /\ FirstView' /\ NoRows'
        BY <2>1 DEF RowsAhead, RowsDistinct, FirstView, NoRows, Within, Outside
    <2>. QED
        BY <2>3, <2>4, <2>5 DEF Rows
<1>3. ASSUME NEW s \in Slots, FailSlot(s) PROVE Rows'
    <2>1. /\ loop = "failing" /\ loop' = "failing" /\ batch.k = s /\ release(s, slots[s])
          /\ batch' = [batch EXCEPT !.k = s + 1]
        BY <1>3 DEF FailSlot, InUpdate
    <2>2. batch'.k = s + 1
        BY <1>1, <2>1 DEF Locals
    <2>3. slots'[s].state = "IDLE" /\ \A u \in Slots : Settles(u)
        BY <1>1, <2>1, ReleaseSettles DEF BInv
    <2>4. \A u \in Slots : (Rowed(u)' => Rowed(u)) /\ PromptLeft(slots[u])'
        BY <2>3, SettlesRows DEF BInv, Rows
    <2>5. ~Rowed(s)'
        BY <2>3 DEF Rowed
    <2>6. RowsFailed'
        BY <1>1, <2>1, <2>2, <2>4, <2>5 DEF RowsFailed, BInv, Rows
    <2>7. RowsAhead' /\ RowsDistinct' /\ FirstView' /\ NoRows'
        BY <2>1 DEF RowsAhead, RowsDistinct, FirstView, NoRows, Within, Outside
    <2>. QED
        BY <2>4, <2>6, <2>7 DEF Rows
<1>4. CASE AllFailed
    <2>1. loop = "failing" /\ batch.k = N_SLOTS /\ loop' = "wait" /\ slots' = slots
        BY <1>4 DEF AllFailed, InUpdate, GoTo
    <2>2. \A s \in Slots : ~Rowed(s)
        BY <1>1, <2>1, Constants DEF BInv, Rows, RowsFailed
    <2>. QED
        BY <2>1, <2>2, LeavingKeeps DEF BInv, Outside
<1>. QED
    BY <1>2, <1>3, <1>4

-----------------------------------------------------------------------------
(* The invariant of the batch and what follows from it.                    *)

LEMMA StartLoopKeepsRows == ASSUME BInv, start_loop PROVE Rows'
    BY ProcessKeepsRows, OutsideStepsKeepRows, BatchSampledKeepsRows, BatchPromptKeepsRows,
       ViewStepsKeepRows, PromptsBatchedKeepsRows, ViewDoneKeepsRows, FailingKeepsRows
       DEF start_loop, update_slots

LEMMA OthersKeepRows == ASSUME Rows, UNCHANGED loopVars PROVE Rows'
<1>1. slots' = slots /\ loop' = loop /\ batch' = batch
    BY DEF loopVars
<1>. QED
    BY <1>1 DEF Rows, RowsAhead, RowsDistinct, FirstView, RowsFailed, NoRows, Rowed, PromptLeft

\* The threads of the requests and an idle server leave the main loop alone.
LEMMA OnlyLoopTouchesLoop == ASSUME [Next]_vars, ~start_loop PROVE UNCHANGED loopVars
    BY DEF Next, Quiescent, Handle, Register, Submit, Receive, TimeoutRetry, FoundClosed,
           StopWaiting, CancelTasks, Leave, Disconnect, vars

LEMMA InitHasNoRows == Init => Rows
<1> SUFFICES ASSUME Init PROVE Rows
    OBVIOUS
<1>1. loop = "next" /\ \A s \in Slots : slots[s] = FreshSlot
    BY DEF Init
<1>2. \A s \in Slots : ~Rowed(s) /\ PromptLeft(slots[s])
    BY <1>1 DEF FreshSlot, Rowed, PromptLeft
<1>. QED
    BY <1>1, <1>2 DEF Rows, RowsAhead, RowsDistinct, FirstView, RowsFailed, NoRows, Within

LEMMA NextKeepsBInv == BInv /\ [Next]_vars => BInv'
<1> SUFFICES ASSUME BInv, [Next]_vars PROVE BInv'
    OBVIOUS
<1>1. IInv'
    BY NextHolds DEF BInv
<1>2. CASE start_loop
    BY <1>1, <1>2, StartLoopKeepsRows DEF BInv
<1>3. CASE ~start_loop
    BY <1>1, <1>3, OnlyLoopTouchesLoop, OthersKeepRows DEF BInv
<1>. QED
    BY <1>2, <1>3

\* In every reachable state the rows slots wait for are distinct rows of the
\* batch that are still to be decoded, and outside of update_slots there are none.
THEOREM BatchInvariant == Spec => []BInv
<1>1. Init => BInv
    BY InitHolds, InitHasNoRows DEF BInv
<1>. QED
    BY <1>1, NextKeepsBInv, PTL DEF Spec

\* No two slots ever sample from the same row of a decoded batch, for every
\* number of slots, size of a batch and mix of prompts and generating slots, and
\* however often a failed decode halved the view.
THEOREM RowsAreDistinct == Spec => []DistinctRows
<1>1. BInv => DistinctRows
    <2> SUFFICES ASSUME BInv, loop \in {"decode", "results"}, NEW s \in Slots, NEW u \in Slots,
                        s # u, slots[s].i_batch # -1, slots[s].i_batch = slots[u].i_batch,
                        \A v \in {s, u} : slots[v].state \in {"DONE_PROMPT", "GENERATING"}
                 PROVE  FALSE
        BY DEF DistinctRows
    <2>1. Rowed(s) /\ Rowed(u)
        BY DEF Rowed
    <2>. QED
        BY <2>1 DEF BInv, Rows, RowsDistinct, Within
<1>. QED
    BY <1>1, BatchInvariant, PTL

\* When update_slots returns, no slot is left with a completed prompt that was
\* not sampled: the views that are decoded, halved or not, cover the batch.
THEOREM PromptsAreSampled == Spec => []NoPromptForgotten
<1>1. BInv => NoPromptForgotten
    BY DEF BInv, Rows, NoRows, NoPromptForgotten, Rowed, Outside
<1>. QED
    BY <1>1, BatchInvariant, PTL

-----------------------------------------------------------------------------
(* The main loop does not sleep on deferred tasks.  A deferred task comes  *)
(* back only when a slot is released, one at a time, so that every task    *)
(* that comes back has to make a slot busy.  A task that is invalid, that  *)
(* names a slot which does not exist, or that works on a slot without      *)
(* occupying it breaks the chain.                                          *)

OccupiesSlot(t) ==
    t \notin Invalid /\ SlotOf[t] \in Slots \cup {-1} /\ TypeOf[t] \notin SlotActions

\* Only tasks that need a slot are deferred, and while there are any some slot
\* is busy or will be.
DeferredNeedSlot == \A x \in Range(queue_tasks_deferred) : x.type \in SlotTasks
SomeBusy == \E s \in Slots : is_processing(s)
Attended == \/ queue_tasks_deferred = <<>>
            \/ SomeBusy
            \/ \E x \in Range(queue_tasks) \cup {cur} : x.type \in SlotTasks
SInv == IInv /\ DeferredNeedSlot /\ Attended

\* No step outside of a release loses a busy slot or a task that needs one.
LEMMA NoneTakenAway ==
    ASSUME SInv, Range(queue_tasks_deferred)' \subseteq Range(queue_tasks_deferred),
           QueueTypeOK', SomeBusy => SomeBusy',
           \A x \in Range(queue_tasks) \cup {cur} :
               x.type \in SlotTasks => SomeBusy' \/ x \in Range(queue_tasks)' \cup {cur'}
    PROVE  (DeferredNeedSlot /\ Attended)'
<1>1. DeferredNeedSlot'
    BY DEF SInv, DeferredNeedSlot
<1>2. queue_tasks_deferred = <<>> => queue_tasks_deferred' = <<>>
    <2> SUFFICES ASSUME queue_tasks_deferred = <<>>, queue_tasks_deferred' # <<>>
                 PROVE  FALSE
        OBVIOUS
    <2>1. Head(queue_tasks_deferred') \in Range(queue_tasks_deferred)'
        BY RangeOfTail DEF QueueTypeOK
    <2>. QED
        BY <2>1 DEF Range
<1>3. Attended'
    BY <1>2 DEF SInv, Attended
<1>. QED
    BY <1>1, <1>3

\* A release brings a deferred task back to the queue, if there is one.
LEMMA ReleaseBringsBack ==
    ASSUME SInv, NEW s \in Slots, NEW slot, release(s, slot),
           cur' = cur \/ cur.type \notin SlotTasks
    PROVE  (DeferredNeedSlot /\ Attended)'
<1>1. QueueTypeOK
    BY DEF SInv, IInv, TypeOK
<1>2. CASE ~is_processing(s)
    <2>1. UNCHANGED <<slots, queue_tasks, queue_tasks_deferred>>
        BY <1>2 DEF release, queueVars
    <2>. QED
        BY <1>1, <2>1 DEF SInv, DeferredNeedSlot, Attended, SomeBusy, is_processing, SlotTasks
<1>3. CASE is_processing(s)
    <2>1. PopDeferred
        BY <1>3 DEF release
    <2>2. /\ Range(queue_tasks_deferred)' \subseteq Range(queue_tasks_deferred)
          /\ queue_tasks_deferred # <<>> =>
                \E x \in Range(queue_tasks_deferred) : x \in Range(queue_tasks)'
        BY <1>1, <2>1, PopDeferredKeeps
    <2>3. DeferredNeedSlot'
        BY <2>2 DEF SInv, DeferredNeedSlot
    <2>4. CASE queue_tasks_deferred = <<>>
        BY <2>1, <2>3, <2>4 DEF PopDeferred, queueVars, Attended
    <2>5. CASE queue_tasks_deferred # <<>>
        BY <2>2, <2>3, <2>5 DEF SInv, DeferredNeedSlot, Attended
    <2>. QED
        BY <2>4, <2>5
<1>. QED
    BY <1>2, <1>3

LEMMA ProcessAttends ==
    ASSUME SInv, process_single_task, \A t \in Tasks : OccupiesSlot(t)
    PROVE  (DeferredNeedSlot /\ Attended)'
<1>1. /\ QueueTypeOK /\ cur \in server_task /\ slots \in [Slots -> server_slot]
    BY DEF SInv, IInv, TypeOK, LoopTypeOK
<1>2. cur.type \in SlotTasks \cup SlotActions =>
          cur.id \in Tasks /\ cur.type = TypeOf[cur.id] /\ OccupiesSlot(cur.id)
    BY <1>1, TaskShape DEF SlotTasks, SlotActions, ClientTask
<1>3. CASE DeferTask
    <2>1. /\ cur.type \in SlotTasks /\ Candidates(cur.id) \cap Idle = {} /\ slots' = slots
          /\ queue_tasks_deferred' = Append(queue_tasks_deferred, cur)
        BY <1>3 DEF DeferTask, Defer
    <2>2. Range(queue_tasks_deferred)' = Range(queue_tasks_deferred) \cup {cur}
        BY <1>1, <2>1, RangeOfAppend DEF QueueTypeOK
    <2>3. DeferredNeedSlot'
        BY <2>1, <2>2 DEF SInv, DeferredNeedSlot
    <2>4. SomeBusy
        <3>1. 0 \in Slots
            BY Constants
        <3>2. CASE SlotOf[cur.id] = -1
            BY <2>1, <3>1, <3>2 DEF Candidates, Idle, SomeBusy
        <3>3. CASE SlotOf[cur.id] # -1
            BY <1>2, <2>1, <3>3 DEF Candidates, Idle, SomeBusy, OccupiesSlot
        <3>. QED
            BY <3>2, <3>3
    <2>. QED
        BY <2>1, <2>3, <2>4 DEF Attended, SomeBusy, is_processing
<1>4. ASSUME NEW s \in Slots, launch_slot_with_task(s)
      PROVE  (DeferredNeedSlot /\ Attended)'
    <2> DEFINE t == cur.id
               slot == [slots[s] EXCEPT !.id_task = t, !.n_left = NPrompt[t]]
    <2>1. t \notin Invalid
        BY <1>2, <1>4 DEF launch_slot_with_task, OccupiesSlot
    <2>2. /\ slots' = [slots EXCEPT ![s] = [slot EXCEPT !.state = "STARTED"]]
          /\ UNCHANGED queueVars
        BY <1>4, <2>1 DEF launch_slot_with_task
    <2>3. [slot EXCEPT !.state = "STARTED"].state = "STARTED"
        BY <1>1 DEF server_slot
    <2> HIDE DEF slot
    <2>4. slots'[s].state = "STARTED"
        BY <1>1, <2>2, <2>3
    <2>5. SomeBusy'
        BY <2>4 DEF SomeBusy, is_processing
    <2>. QED
        BY <2>2, <2>5 DEF SInv, DeferredNeedSlot, Attended, queueVars
<1>5. CASE CancelRunning
    <2>1. /\ cur.type \notin SlotTasks
          /\ UNCHANGED <<slots, queueVars>> \/ \E s \in Slots : release(s, slots[s])
        BY <1>5 DEF CancelRunning, SlotTasks
    <2>2. CASE UNCHANGED <<slots, queueVars>>
        BY <2>1, <2>2 DEF SInv, DeferredNeedSlot, Attended, SomeBusy, is_processing, queueVars
    <2>. QED
        BY <2>1, <2>2, ReleaseBringsBack
<1>6. CASE ProcessNextResponse \/ ProcessQuery
    <2>1. cur.type \notin SlotTasks /\ UNCHANGED <<slots, queueVars>>
        BY <1>6 DEF ProcessNextResponse, ProcessQuery, SlotTasks
    <2>. QED
        BY <2>1 DEF SInv, DeferredNeedSlot, Attended, SomeBusy, is_processing, queueVars
<1>7. ~ProcessSlotAction
    BY <1>2 DEF ProcessSlotAction, OccupiesSlot
<1>. QED
    BY <1>3, <1>4, <1>5, <1>6, <1>7 DEF process_single_task

\* Taking a task, posting NEXT_RESPONSE and building a batch take nothing away.
LEMMA UpdateAttends ==
    ASSUME SInv, start_loop, ~process_single_task
    PROVE  (DeferredNeedSlot /\ Attended)'
<1>1. QueueTypeOK /\ slots \in [Slots -> server_slot] /\ cur \in server_task
    BY DEF SInv, IInv, TypeOK, LoopTypeOK
<1>2. CASE TakeNext
    <2>1. /\ Range(queue_tasks) = Range(queue_tasks)' \cup {cur'}
          /\ UNCHANGED <<queue_tasks_deferred, slots>>
        BY <1>1, <1>2, RangeOfTail DEF TakeNext, TakeTask, QueueTypeOK
    <2>2. cur.type \notin SlotTasks
        BY <1>2, TaskShape DEF TakeNext, SInv, IInv, CurClear, SlotTasks
    <2>. QED
        BY <2>1, <2>2 DEF SInv, DeferredNeedSlot, Attended, SomeBusy, is_processing
<1>3. CASE PostNextResponse
    <2>1. Post(<<NextResponse>>, FALSE)
        BY <1>3 DEF PostNextResponse
    <2>2. <<NextResponse>> \in Seq(server_task)
        BY TaskShape
    <2>3. Range(queue_tasks) \subseteq Range(queue_tasks)'
        BY <1>1, <2>1, <2>2, PostAdds
    <2>. QED
        BY <1>3, <2>3 DEF PostNextResponse, Post, InUpdate, SInv, DeferredNeedSlot, Attended,
                          SomeBusy, is_processing
<1>4. ASSUME UNCHANGED <<queueVars, cur>>, SomeBusy => SomeBusy'
      PROVE  (DeferredNeedSlot /\ Attended)'
    BY <1>4 DEF SInv, DeferredNeedSlot, Attended, queueVars
<1>5. CASE UNCHANGED <<queueVars, cur, slots>>
    <2>1. SomeBusy => SomeBusy'
        BY <1>5 DEF SomeBusy, is_processing
    <2>. QED
        BY <1>4, <1>5, <2>1
<1>6. CASE BatchSampled
    <2>1. \A s \in Slots : slots'[s].state = slots[s].state
        <3> SUFFICES ASSUME NEW s \in Slots PROVE slots'[s].state = slots[s].state
            OBVIOUS
        <3> DEFINE n == Cardinality({u \in Batchable : u < s})
                   upd == [slots[s] EXCEPT !.i_batch = n]
        <3>1. slots'[s] = slots[s] \/ slots'[s] = upd
            BY <1>6 DEF BatchSampled
        <3> HIDE DEF n
        <3>2. upd.state = slots[s].state
            BY <1>1 DEF server_slot
        <3>. QED
            BY <3>1, <3>2
    <2>2. UNCHANGED <<queueVars, cur>>
        BY <1>6 DEF BatchSampled, InUpdate
    <2>. QED
        BY <1>4, <2>1, <2>2 DEF SomeBusy, is_processing
<1>7. ASSUME NEW s \in Slots, BatchPrompt(s) PROVE (DeferredNeedSlot /\ Attended)'
    <2>1. slots'[s].state \in {"DONE_PROMPT", "PROCESSING_PROMPT"}
        <3> DEFINE room == N_BATCH - batch.n_tokens
                   left == slots[s].n_left
                   fits == ~is_non_causal(s) \/ left <= room
                   n == IF ~fits \/ room <= 0 THEN 0 ELSE IF left <= room THEN left ELSE room
                   b == [batch EXCEPT !.n_tokens = @ + n, !.slot_batched = BatchedWith(s)]
                   done == [slots[s] EXCEPT !.state = "DONE_PROMPT", !.n_left = 0,
                                            !.n_decoded = 0, !.i_batch = b.n_tokens - 1]
                   more == [slots[s] EXCEPT !.state = "PROCESSING_PROMPT", !.n_left = left - n]
        <3>1. slots'[s] = done \/ slots'[s] = more
            BY <1>1, <1>7 DEF BatchPrompt
        <3> HIDE DEF n, b
        <3>2. done.state = "DONE_PROMPT" /\ more.state = "PROCESSING_PROMPT"
            BY <1>1 DEF server_slot
        <3>. QED
            BY <3>1, <3>2
    <2>2. UNCHANGED <<queueVars, cur>>
        BY <1>7 DEF BatchPrompt, AtPrompt, InUpdate
    <2>. QED
        BY <1>4, <2>1, <2>2 DEF SomeBusy, is_processing
<1>8. ASSUME NEW s \in Slots, \/ ContextFull(s) \/ RejectPrompt(s) \/ FailSlot(s)
                              \/ SendEmbedding(s)
      PROVE  (DeferredNeedSlot /\ Attended)'
    <2>1. cur' = cur /\ \E slot : release(s, slot)
        BY <1>8 DEF ContextFull, RejectPrompt, FailSlot, SendEmbedding, AtPrompt, InUpdate
    <2>. QED
        BY <2>1, ReleaseBringsBack
<1>9. ASSUME NEW s \in Slots, SampleToken(s) PROVE (DeferredNeedSlot /\ Attended)'
    <2> DEFINE slot == [slots[s] EXCEPT !.state = "GENERATING", !.i_batch = -1,
                                        !.n_decoded = @ + 1]
    <2>1. slot.state = "GENERATING"
        BY <1>1 DEF server_slot
    <2>2. /\ cur' = cur
          /\ release(s, slot) \/ (slots' = [slots EXCEPT ![s] = slot] /\ UNCHANGED queueVars)
        BY <1>9 DEF SampleToken, InUpdate
    <2> HIDE DEF slot
    <2>3. CASE slots' = [slots EXCEPT ![s] = slot] /\ UNCHANGED queueVars
        <3>1. slots'[s].state = "GENERATING"
            BY <1>1, <2>1, <2>3
        <3>2. SomeBusy'
            BY <3>1 DEF SomeBusy, is_processing
        <3>. QED
            BY <1>4, <2>2, <2>3, <3>2
    <2>. QED
        BY <2>2, <2>3, ReleaseBringsBack
<1>10. ASSUME \/ TasksDrained \/ Wake \/ AllIdle \/ PromptsBatched \/ DecodeOk \/ DecodeRetry
              \/ DecodeFails \/ AllFailed \/ ViewDone
              \/ \E s \in Slots : SkipNoPrompt(s) \/ SkipIncompatible(s)
       PROVE  UNCHANGED <<queueVars, cur, slots>>
    BY <1>10 DEF TasksDrained, Wake, AllIdle, PromptsBatched, DecodeOk, DecodeRetry, DecodeFails,
                 AllFailed, ViewDone, SkipNoPrompt, SkipIncompatible, AtPrompt, InUpdate
<1>. QED
    BY <1>2, <1>3, <1>5, <1>6, <1>7, <1>8, <1>9, <1>10 DEF start_loop, update_slots

\* Of the threads of the requests only those that post or cancel touch the queues.
LEMMA HandlersAttend ==
    ASSUME SInv, [Next]_vars, ~start_loop
    PROVE  (DeferredNeedSlot /\ Attended)'
<1>1. UNCHANGED loopVars
    BY OnlyLoopTouchesLoop
<1>2. (SomeBusy <=> SomeBusy') /\ cur' = cur
    BY <1>1 DEF loopVars, SomeBusy, is_processing
<1>3. QueueTypeOK /\ cur \in server_task
    BY DEF SInv, IInv, TypeOK, LoopTypeOK
<1>4. QueueTypeOK'
    BY NextHolds DEF SInv, IInv, TypeOK
<1>5. ASSUME NEW r \in Requests, Submit(r) PROVE (DeferredNeedSlot /\ Attended)'
    <2> DEFINE new == [i \in DOMAIN ReqTasks[r] |-> ClientTask(ReqTasks[r][i])]
    <2>1. new \in Seq(server_task)
        BY Constants, PostedTasks
    <2>2. PICK front \in BOOLEAN : Post(new, front)
        BY <1>5 DEF Submit
    <2>3. queue_tasks_deferred' = queue_tasks_deferred
        BY <1>5 DEF Submit, Post
    <2> HIDE DEF new
    <2>4. Range(queue_tasks) \subseteq Range(queue_tasks)'
        BY <1>3, <2>1, <2>2, PostAdds
    <2>. QED
        BY <1>2, <2>3, <2>4 DEF SInv, DeferredNeedSlot, Attended
<1>6. ASSUME NEW r \in Requests, CancelTasks(r) PROVE (DeferredNeedSlot /\ Attended)'
    <2>1. ReqTasks[r] \in Seq(Tasks) /\ Range(ReqTasks[r]) \subseteq Tasks
        BY Constants
    <2>2. /\ Range(queue_tasks_deferred)' \subseteq Range(queue_tasks_deferred)
          /\ \A x \in Range(queue_tasks) :
                x.id_target \notin Range(ReqTasks[r]) => x \in Range(queue_tasks)'
        BY <1>3, <1>6, <2>1, PostCancelsKeeps DEF CancelTasks
    <2>3. \A x \in Range(queue_tasks) : x \in server_task
        BY <1>3, InRange DEF QueueTypeOK
    <2>4. \A x \in Range(queue_tasks) : x.type \in SlotTasks => x.id_target = -1
        BY <2>3, TaskShape DEF SlotTasks
    <2>5. \A x \in Range(queue_tasks) : x.type \in SlotTasks => x \in Range(queue_tasks)'
        BY <2>1, <2>2, <2>4, TaskShape
    <2>. QED
        BY <1>2, <1>4, <2>2, <2>5, NoneTakenAway
<1>7. CASE UNCHANGED queueVars
    BY <1>2, <1>7 DEF SInv, DeferredNeedSlot, Attended, queueVars
<1>8. \/ UNCHANGED queueVars
      \/ \E r \in Requests : Submit(r) \/ CancelTasks(r)
    BY DEF Next, Quiescent, Handle, Register, Receive, TimeoutRetry, FoundClosed,
           StopWaiting, Leave, Disconnect, vars
<1>. QED
    BY <1>5, <1>6, <1>7, <1>8

\* The server never sleeps on deferred tasks while no slot is at work, provided
\* every task that gets a slot occupies it: none is rejected by
\* launch_slot_with_task, none names a slot that does not exist, and none is a
\* save, restore or erase of a slot.  release brings back one deferred task only,
\* and such a task would not release a slot in its turn.
THEOREM NoneAreStranded ==
    ASSUME \A t \in Tasks : OccupiesSlot(t)
    PROVE  Spec => []NoneStranded
<1>1. Init => SInv
    BY InitHolds DEF SInv, Init, QueueInit, DeferredNeedSlot, Attended, Range
<1>2. SInv /\ [Next]_vars => SInv'
    <2> SUFFICES ASSUME SInv, [Next]_vars PROVE SInv'
        OBVIOUS
    <2>1. IInv'
        BY NextHolds DEF SInv
    <2>2. (DeferredNeedSlot /\ Attended)'
        BY ProcessAttends, UpdateAttends, HandlersAttend
    <2>. QED
        BY <2>1, <2>2 DEF SInv
<1>3. SInv => NoneStranded
    <2> SUFFICES ASSUME SInv, loop = "wait", queue_tasks = <<>>, Idle = Slots
                 PROVE  queue_tasks_deferred = <<>>
        BY DEF NoneStranded
    <2>1. cur.type \notin SlotTasks
        BY TaskShape DEF SInv, IInv, CurClear, SlotTasks
    <2>. QED
        BY <2>1 DEF SInv, Attended, SomeBusy, Idle, Range
<1>. QED
    BY <1>1, <1>2, <1>3, PTL DEF Spec
=============================================================================

--------------------------- MODULE ServerResponse ---------------------------
(***************************************************************************)
(* server_response: the results on their way from the main loop to the     *)
(* HTTP threads, and the ids somebody waits for.  Every operation holds    *)
(* mutex_results, so each is one atomic state change.  A result is the id  *)
(* of its task and whether it is a partial one, the final one or an error: *)
(* "final" stands for every result that ends its task without an error     *)
(* (completion, embedding, rerank, metrics, slot and lora results).        *)
(***************************************************************************)
EXTENDS Deque

VARIABLES waiting_task_ids, queue_results

responseVars == <<waiting_task_ids, queue_results>>

ResultKinds == {"partial", "final", "error"}
Result(id, kind) == [id |-> id, kind |-> kind]

ResponseInit ==
    /\ waiting_task_ids = {}
    /\ queue_results = <<>>

\* add_waiting_task_id, add_waiting_tasks
AddWaiting(ids) ==
    /\ waiting_task_ids' = waiting_task_ids \cup ids
    /\ UNCHANGED queue_results

\* Plausible bug: pending results stay.
RemoveWithoutPurge(ids) ==
    /\ waiting_task_ids' = waiting_task_ids \ ids
    /\ UNCHANGED queue_results

\* remove_waiting_task_id for every id of ids: pending results go as well.
RemoveAndPurge(ids) ==
    /\ waiting_task_ids' = waiting_task_ids \ ids
    /\ queue_results' = KeepAt(queue_results,
                               {i \in DOMAIN queue_results :
                                    queue_results[i].id \notin ids})

\* remove_waiting_task_ids: pending results stay.
RemoveWaiting(ids) ==
    /\ waiting_task_ids' = waiting_task_ids \ ids
    /\ UNCHANGED queue_results

\* send, for each result in turn: one that nobody waits for is dropped.
Send(results) ==
    /\ queue_results' =
          queue_results \o
             KeepAt(results, {i \in DOMAIN results :
                                  results[i].id \in waiting_task_ids})
    /\ UNCHANGED waiting_task_ids

\* The position recv and recv_with_timeout take: the first result for ids.
Matches(ids)  == {i \in DOMAIN queue_results : queue_results[i].id \in ids}
IsFirstFor(i, ids) == i \in Matches(ids) /\ \A j \in Matches(ids) : i <= j

\* recv, recv_with_timeout when a result is there: it leaves the queue.
TakeResult(i) ==
    /\ queue_results' = EraseAt(queue_results, i)
    /\ UNCHANGED waiting_task_ids
=============================================================================

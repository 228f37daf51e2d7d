---------------------------- MODULE TaskService ----------------------------
(***************************************************************************)
(* What the server promises to the threads that post tasks, whatever goes  *)
(* on in its queues and slots: a task in its hands is answered once, with  *)
(* a final result or an error and with partial results before that only,   *)
(* or it is dropped, which happens only to tasks nobody waits for.         *)
(* Results travel through server_response.  LlamaServer implements this    *)
(* specification; RagServer is built on it.                                *)
(***************************************************************************)
EXTENDS ServerResponse

CONSTANT Tasks      \* ids of the tasks that HTTP handlers create

VARIABLES
    fresh,          \* tasks that were not posted yet
    posted          \* tasks in the hands of the server

serviceVars == <<fresh, posted, responseVars>>

ServiceInit ==
    /\ fresh = Tasks
    /\ posted = {}
    /\ ResponseInit

-----------------------------------------------------------------------------
(* What the threads do.                                                    *)

\* The ids are announced before the tasks are posted.
Announce(ids) ==
    /\ ids \subseteq fresh
    /\ AddWaiting(ids)
    /\ UNCHANGED <<fresh, posted>>

PostTasks(ids) ==
    /\ ids \subseteq fresh \cap waiting_task_ids
    /\ fresh' = fresh \ ids
    /\ posted' = posted \cup ids
    /\ UNCHANGED responseVars

TakeOne ==
    /\ \E i \in DOMAIN queue_results : TakeResult(i)
    /\ UNCHANGED <<fresh, posted>>

Forget(ids) ==
    /\ RemoveWaiting(ids) \/ RemoveAndPurge(ids)
    /\ UNCHANGED <<fresh, posted>>

-----------------------------------------------------------------------------
(* What the server does.                                                   *)

Partial(t) ==
    /\ t \in posted
    /\ Send(<<Result(t, "partial")>>)
    /\ UNCHANGED <<fresh, posted>>

AnswerWith(t, text, kind) ==
    /\ t \in posted
    /\ posted' = posted \ {t}
    /\ Send(text \o <<Result(t, kind)>>)
    /\ UNCHANGED fresh

\* The last text of a stream and the final result are sent together.
Answer(t) ==
    \E text \in {<<>>, <<Result(t, "partial")>>}, kind \in {"final", "error"} :
        AnswerWith(t, text, kind)

Drop(t) ==
    /\ t \in posted \ waiting_task_ids
    /\ posted' = posted \ {t}
    /\ UNCHANGED <<fresh, responseVars>>

Serve == \E t \in Tasks : Partial(t) \/ Answer(t) \/ Drop(t)

ServiceNext ==
    \/ \E ids \in SUBSET Tasks : Announce(ids) \/ PostTasks(ids) \/ Forget(ids)
    \/ TakeOne
    \/ Serve

ServiceSpec == ServiceInit /\ [][ServiceNext]_serviceVars

-----------------------------------------------------------------------------
\* A task is answered once: while its answer is in the result queue the task is
\* neither new nor at work, and nothing for it comes behind its answer.
AnsweredOnce ==
    \A i \in DOMAIN queue_results : queue_results[i].kind # "partial" =>
        /\ queue_results[i].id \notin fresh \cup posted
        /\ \A j \in DOMAIN queue_results :
              queue_results[j].id = queue_results[i].id => j <= i
=============================================================================

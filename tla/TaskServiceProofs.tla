-------------------------- MODULE TaskServiceProofs --------------------------
(***************************************************************************)
(* TaskService keeps its promise for any number of tasks and results: a    *)
(* task is answered once, and its answer is the last result for it.        *)
(***************************************************************************)
EXTENDS TaskService, DequeTheorems

TaskResult == [id : Tasks, kind : ResultKinds]

\* Results q of which none answers a task of F, and none comes behind the answer to
\* its task: AnsweredOnce of any sequence.
Once(q, F) ==
    \A i \in DOMAIN q : q[i].kind # "partial" =>
        /\ q[i].id \notin F
        /\ \A j \in DOMAIN q : q[j].id = q[i].id => j <= i

ServiceTypeOK ==
    /\ fresh \subseteq Tasks
    /\ posted \subseteq Tasks
    /\ queue_results \in Seq(TaskResult)

\* The inductive invariant: a task that is answered must not be posted again, which
\* AnsweredOnce needs and does not say.
ServiceInv ==
    /\ ServiceTypeOK
    /\ fresh \cap posted = {}
    /\ Once(queue_results, fresh \cup posted)

Ending == {x \in TaskResult : x.kind # "partial"}
LEMMA OnceIsLast ==
    ASSUME NEW q \in Seq(TaskResult), NEW F
    PROVE  Once(q, F) <=> LastOfId(q, Ending, TaskResult, F)
<1>1. \A i \in DOMAIN q : q[i] \in TaskResult /\ (q[i] \in Ending <=> q[i].kind # "partial")
    BY DEF Ending
<1>. QED
    BY <1>1 DEF Once, LastOfId

LEMMA OnceKept ==
    ASSUME NEW q \in Seq(TaskResult), NEW K \in SUBSET DOMAIN q, NEW F, Once(q, F)
    PROVE  KeepAt(q, K) \in Seq(TaskResult) /\ Once(KeepAt(q, K), F)
    BY OnceIsLast, LastKept

\* Results r for tasks at work, of which r answers all that leave F, may be appended.
LEMMA OnceAppended ==
    ASSUME NEW q \in Seq(TaskResult), NEW r \in Seq(TaskResult), NEW F, NEW G,
           Once(q, F), Once(r, G), G \subseteq F, \A j \in DOMAIN r : r[j].id \in F
    PROVE  q \o r \in Seq(TaskResult) /\ Once(q \o r, G)
<1>1. q \o r \in Seq(TaskResult) /\ LastOfId(q \o r, Ending, TaskResult, G)
    BY OnceIsLast, LastAppended
<1>. QED
    BY <1>1, OnceIsLast

\* send for results of one task t at work, to whoever still waits.
LEMMA SendKeepsOnce ==
    ASSUME NEW t, NEW results \in Seq(TaskResult), NEW F, NEW G,
           queue_results \in Seq(TaskResult), Once(queue_results, F),
           \A i \in DOMAIN results : results[i].id = t,
           t \in F, G \subseteq F, Once(results, G), Send(results)
    PROVE  queue_results' \in Seq(TaskResult) /\ Once(queue_results', G)
<1> DEFINE K == {i \in DOMAIN results : results[i].id \in waiting_task_ids}
           k == KeepAt(results, K)
<1>1. k \in Seq(TaskResult) /\ Once(k, G)
    BY OnceKept
<1>2. \A j \in DOMAIN k : k[j].id \in F
    <2>0. K \in SUBSET DOMAIN results
        OBVIOUS
    <2> HIDE DEF K
    <2>1. PICK e \in [DOMAIN k -> K] : \A j \in DOMAIN k : k[j] = results[e[j]]
        BY <2>0, KeepAtOrdered
    <2>2. \A i \in K : i \in DOMAIN results
        BY <2>0
    <2>. QED
        BY <2>1, <2>2
<1>3. queue_results' = queue_results \o k
    BY DEF Send
<1> HIDE DEF k
<1>. QED
    BY <1>1, <1>2, <1>3, OnceAppended

LEMMA ServiceInitHolds == ServiceInit => ServiceInv
<1> SUFFICES ASSUME ServiceInit PROVE ServiceInv
    OBVIOUS
<1>1. queue_results = <<>> /\ fresh = Tasks /\ posted = {}
    BY DEF ServiceInit, ResponseInit
<1>2. queue_results \in Seq(TaskResult) /\ DOMAIN queue_results = {}
    BY <1>1
<1>. QED
    BY <1>1, <1>2 DEF ServiceInv, ServiceTypeOK, Once

\* No step of a thread or of the server breaks the invariant.
LEMMA ServiceStepKeeps == ServiceInv /\ [ServiceNext]_serviceVars => ServiceInv'
<1> SUFFICES ASSUME ServiceInv, [ServiceNext]_serviceVars PROVE ServiceInv'
    OBVIOUS
<1> DEFINE F == fresh \cup posted
<1>0. /\ fresh \subseteq Tasks /\ posted \subseteq Tasks /\ fresh \cap posted = {}
      /\ queue_results \in Seq(TaskResult) /\ Once(queue_results, F)
    BY DEF ServiceInv, ServiceTypeOK
<1>1. ASSUME NEW ids \in SUBSET Tasks, Announce(ids) PROVE ServiceInv'
    BY <1>0, <1>1 DEF Announce, AddWaiting, ServiceInv, ServiceTypeOK
<1>2. ASSUME NEW ids \in SUBSET Tasks, PostTasks(ids) PROVE ServiceInv'
    <2>1. /\ fresh' \subseteq Tasks /\ posted' \subseteq Tasks /\ fresh' \cap posted' = {}
          /\ fresh' \cup posted' = F /\ queue_results' = queue_results
        BY <1>0, <1>2 DEF PostTasks, responseVars
    <2>. QED
        BY <1>0, <2>1 DEF ServiceInv, ServiceTypeOK
<1>3. ASSUME NEW ids \in SUBSET Tasks, Forget(ids) PROVE ServiceInv'
    <2> DEFINE K == {i \in DOMAIN queue_results : queue_results[i].id \notin ids}
    <2>1. fresh' = fresh /\ posted' = posted
        BY <1>3 DEF Forget
    <2>2. queue_results' = queue_results \/ queue_results' = KeepAt(queue_results, K)
        BY <1>3 DEF Forget, RemoveWaiting, RemoveAndPurge
    <2>3. KeepAt(queue_results, K) \in Seq(TaskResult) /\ Once(KeepAt(queue_results, K), F)
        BY <1>0, OnceKept
    <2>. QED
        BY <1>0, <2>1, <2>2, <2>3 DEF ServiceInv, ServiceTypeOK
<1>4. ASSUME TakeOne PROVE ServiceInv'
    <2>1. PICK i \in DOMAIN queue_results : TakeResult(i)
        BY <1>4 DEF TakeOne
    <2>2. queue_results' = KeepAt(queue_results, DOMAIN queue_results \ {i})
        BY <2>1 DEF TakeResult, EraseAt
    <2>3. queue_results' \in Seq(TaskResult) /\ Once(queue_results', F)
        BY <1>0, <2>2, OnceKept
    <2>4. fresh' = fresh /\ posted' = posted
        BY <1>4 DEF TakeOne
    <2>. QED
        BY <1>0, <2>3, <2>4 DEF ServiceInv, ServiceTypeOK
<1>5. ASSUME NEW t \in Tasks, Partial(t) PROVE ServiceInv'
    <2> DEFINE r == <<Result(t, "partial")>>
    <2>1. r \in Seq(TaskResult) /\ DOMAIN r = {1} /\ r[1] = Result(t, "partial")
        BY DEF Result, TaskResult, ResultKinds
    <2>2. \A i \in DOMAIN r : r[i].id = t /\ r[i].kind = "partial"
        BY <2>1 DEF Result
    <2>3. t \in F /\ Send(r) /\ fresh' = fresh /\ posted' = posted
        BY <1>5 DEF Partial
    <2> HIDE DEF r
    <2>4. Once(r, F)
        BY <2>2 DEF Once
    <2>5. queue_results' \in Seq(TaskResult) /\ Once(queue_results', F)
        BY <1>0, <2>1, <2>2, <2>3, <2>4, SendKeepsOnce
    <2>. QED
        BY <1>0, <2>3, <2>5 DEF ServiceInv, ServiceTypeOK
<1>6. ASSUME NEW t \in Tasks, Answer(t) PROVE ServiceInv'
    <2> DEFINE G == fresh \cup (posted \ {t})
    <2>1. PICK text \in {<<>>, <<Result(t, "partial")>>}, kind \in {"final", "error"} :
              AnswerWith(t, text, kind)
        BY <1>6 DEF Answer
    <2> DEFINE r == text \o <<Result(t, kind)>>
    <2>2. /\ t \in posted /\ t \notin G /\ G \subseteq F
          /\ fresh' = fresh /\ posted' = posted \ {t} /\ Send(r)
        BY <1>0, <2>1 DEF AnswerWith
    <2>3. r \in Seq(TaskResult) /\ Once(r, G) /\ \A i \in DOMAIN r : r[i].id = t
        <3>1. Result(t, "partial") \in TaskResult /\ Result(t, kind) \in TaskResult
            BY DEF Result, TaskResult, ResultKinds
        <3>2. CASE text = <<>>
            <4>1. r \in Seq(TaskResult) /\ DOMAIN r = {1} /\ r[1] = Result(t, kind)
                BY <3>1, <3>2, ShortSequences
            <4> HIDE DEF r
            <4>2. \A i \in DOMAIN r : i = 1 /\ r[i].id = t
                BY <4>1 DEF Result
            <4>. QED
                BY <2>2, <4>1, <4>2 DEF Once
        <3>3. CASE text = <<Result(t, "partial")>>
            <4>1. /\ r \in Seq(TaskResult) /\ DOMAIN r = {1, 2}
                  /\ r[1] = Result(t, "partial") /\ r[2] = Result(t, kind)
                BY <3>1, <3>3, ShortSequences
            <4> HIDE DEF r
            <4>2. /\ \A i \in DOMAIN r : (i = 1 \/ i = 2) /\ r[i].id = t
                  /\ r[1].kind = "partial"
                BY <4>1 DEF Result
            <4>. QED
                BY <2>2, <4>1, <4>2 DEF Once
        <3>. QED
            BY <3>2, <3>3
    <2> HIDE DEF r
    <2>4. queue_results' \in Seq(TaskResult) /\ Once(queue_results', G)
        BY <1>0, <2>2, <2>3, SendKeepsOnce
    <2>. QED
        BY <1>0, <2>2, <2>4 DEF ServiceInv, ServiceTypeOK
<1>7. ASSUME NEW t \in Tasks, Drop(t) PROVE ServiceInv'
    <2>1. fresh' = fresh /\ posted' = posted \ {t} /\ queue_results' = queue_results
        BY <1>7 DEF Drop, responseVars
    <2>2. Once(queue_results, fresh' \cup posted')
        BY <1>0, <2>1 DEF Once
    <2>. QED
        BY <1>0, <2>1, <2>2 DEF ServiceInv, ServiceTypeOK
<1>8. CASE UNCHANGED serviceVars
    BY <1>0, <1>8 DEF serviceVars, responseVars, ServiceInv, ServiceTypeOK
<1>. QED
    BY <1>1, <1>2, <1>3, <1>4, <1>5, <1>6, <1>7, <1>8 DEF ServiceNext, Serve

\* TaskService: every task of a thread is answered once, and nothing for it comes
\* behind its answer, however many results are on their way (AnsweredOnce).
THEOREM ServiceAnswersOnce == ServiceSpec => []AnsweredOnce
<1>1. ServiceInv => AnsweredOnce
    BY DEF ServiceInv, AnsweredOnce, Once
<1>. QED
    BY <1>1, ServiceInitHolds, ServiceStepKeeps, PTL DEF ServiceSpec
=============================================================================

--------------------------- MODULE ServiceProofs ---------------------------
(***************************************************************************)
(* For every number of requests, tasks and slots: a task is in one place   *)
(* of the server at a time (OnePlace), and LlamaServer implements          *)
(* TaskService.                                                            *)
(*                                                                         *)
(* OnePlace is not inductive.  That a task is posted once needs that no    *)
(* task is in the server's hands before its request submits it; that a     *)
(* CANCEL only drops work nobody waits for needs that the ids it targets   *)
(* are no longer announced.                                                *)
(***************************************************************************)
EXTENDS LlamaServerProofs

\* The tasks of a queue, none of them twice.
Ids(q) == {x.id : x \in Range(q)} \cap Tasks
OnceIn(q) == \A i, j \in DOMAIN q : q[i].id = q[j].id /\ q[i].id \in Tasks => i = j

\* The tasks the slots are at work on.
Busy(s) == slots[s].state # "IDLE"
Work == {slots[s].id_task : s \in {u \in Slots : Busy(u)}}

\* The tasks in the hands of the server.
Hand == Ids(queue_tasks) \cup Ids(queue_tasks_deferred) \cup ({cur.id} \cap Tasks) \cup Work

\* OnePlace, said place by place.
Separate ==
    /\ OnceIn(queue_tasks) /\ OnceIn(queue_tasks_deferred)
    /\ Ids(queue_tasks) \cap Ids(queue_tasks_deferred) = {}
    /\ cur.id \notin Ids(queue_tasks) \cup Ids(queue_tasks_deferred) \cup Work
    /\ Work \cap (Ids(queue_tasks) \cup Ids(queue_tasks_deferred)) = {}
    /\ Work \subseteq Tasks
    /\ \A s, u \in Slots : Busy(s) /\ Busy(u) /\ slots[s].id_task = slots[u].id_task => s = u

\* A task is posted once: what is in hand was submitted, and what was submitted is
\* not new.
Submitted == \A t \in Hand : \E r \in Requests :
                t \in TasksOf(r) /\ http[r] \notin {"new", "registered"}

\* Nobody waits for the target of a CANCEL, or for the tasks of a request that is
\* about to post its CANCELs.
Unheard ==
    /\ \A x \in Pending \cup {cur} : x.type = "CANCEL" => x.id_target \notin waiting_task_ids
    /\ \A r \in Requests : http[r] \in {"unregistered", "cancelled"} =>
           TasksOf(r) \cap waiting_task_ids = {}

\* update_slots fails the slots only after a decode that may fail.
FailsOnly == loop = "failing" => DecodeMayFail

PInv == IInv /\ Separate /\ Submitted /\ Unheard /\ FailsOnly

-----------------------------------------------------------------------------
(* The tasks of a queue after each of its operations.                      *)

\* Ids by position.
LEMMA IdsAt ==
    ASSUME NEW q \in Seq(server_task)
    PROVE  /\ \A t \in Tasks : t \in Ids(q) <=> \E i \in DOMAIN q : q[i].id = t
           /\ Ids(q) \subseteq Tasks
    BY DEF Ids, Range

LEMMA IdsOfAppend ==
    ASSUME NEW q \in Seq(server_task), NEW x \in server_task
    PROVE  /\ Append(q, x) \in Seq(server_task)
           /\ Ids(Append(q, x)) = Ids(q) \cup ({x.id} \cap Tasks)
           /\ OnceIn(q) /\ x.id \notin Ids(q) => OnceIn(Append(q, x))
<1>1. Append(q, x) \in Seq(server_task) /\ Range(Append(q, x)) = Range(q) \cup {x}
    BY RangeOfAppend
<1>2. Ids(Append(q, x)) = Ids(q) \cup ({x.id} \cap Tasks)
    BY <1>1 DEF Ids
<1>3. ASSUME OnceIn(q), x.id \notin Ids(q) PROVE OnceIn(Append(q, x))
    <2> DEFINE a == Append(q, x)
    <2>1. /\ Len(q) \in Nat /\ DOMAIN q = 1..Len(q) /\ DOMAIN a = 1..(Len(q) + 1)
          /\ \A i \in 1..Len(q) : a[i] = q[i]
          /\ a[Len(q) + 1] = x
        OBVIOUS
    <2> HIDE DEF a
    <2>2. \A i \in DOMAIN a : (i \in DOMAIN q /\ a[i] = q[i]) \/ (i = Len(q) + 1 /\ a[i] = x)
        BY <2>1
    <2>3. \A i \in DOMAIN q : q[i].id \in Tasks => q[i].id # x.id
        BY <1>3, IdsAt
    <2>4. OnceIn(a)
        BY <1>3, <2>2, <2>3 DEF OnceIn
    <2>. QED
        BY <2>4 DEF a
<1>. QED
    BY <1>1, <1>2, <1>3

LEMMA IdsOfTail ==
    ASSUME NEW q \in Seq(server_task), q # <<>>, OnceIn(q)
    PROVE  /\ Tail(q) \in Seq(server_task) /\ Head(q) \in server_task
           /\ Ids(Tail(q)) = Ids(q) \ {Head(q).id} /\ OnceIn(Tail(q))
           /\ {Head(q).id} \cap Tasks \subseteq Ids(q)
<1> DEFINE n == Len(q)
           t == Tail(q)
<1>1. /\ t \in Seq(server_task) /\ Head(q) = q[1] /\ n \in Nat \ {0}
      /\ DOMAIN q = 1..n /\ DOMAIN t = 1..(n - 1)
      /\ \A i \in 1..(n - 1) : t[i] = q[i + 1]
    OBVIOUS
<1>2. Range(q) = Range(t) \cup {Head(q)} /\ Head(q) \in server_task
    BY <1>1, RangeOfTail, InRange
<1> HIDE DEF n, t
<1>3. OnceIn(t)
    <2> SUFFICES ASSUME NEW i \in DOMAIN t, NEW j \in DOMAIN t, t[i].id = t[j].id,
                        t[i].id \in Tasks
                 PROVE  i = j
        BY DEF OnceIn
    <2>1. i + 1 \in DOMAIN q /\ j + 1 \in DOMAIN q /\ t[i] = q[i + 1] /\ t[j] = q[j + 1]
        BY <1>1
    <2>2. i + 1 = j + 1
        BY <2>1 DEF OnceIn
    <2>. QED
        BY <1>1, <2>2
<1>4. \A i \in DOMAIN t : t[i].id \in Tasks => t[i].id # Head(q).id
    <2> SUFFICES ASSUME NEW i \in DOMAIN t, t[i].id \in Tasks, t[i].id = q[1].id
                 PROVE  FALSE
        BY <1>1
    <2>1. i + 1 \in DOMAIN q /\ 1 \in DOMAIN q /\ t[i] = q[i + 1] /\ i + 1 # 1
        BY <1>1
    <2>. QED
        BY <2>1 DEF OnceIn
<1>5. Head(q).id \notin Ids(t)
    BY <1>1, <1>4, IdsAt
<1>. QED
    BY <1>1, <1>2, <1>3, <1>5 DEF Ids, t

LEMMA IdsOfConcat ==
    ASSUME NEW p \in Seq(server_task), NEW q \in Seq(server_task)
    PROVE  /\ p \o q \in Seq(server_task) /\ Ids(p \o q) = Ids(p) \cup Ids(q)
           /\ OnceIn(p) /\ OnceIn(q) /\ Ids(p) \cap Ids(q) = {} => OnceIn(p \o q)
<1> DEFINE s == p \o q
           n == Len(p)
<1>1. s \in Seq(server_task) /\ Range(s) = Range(p) \cup Range(q)
    BY RangeOfConcat
<1>2. /\ n \in Nat /\ Len(q) \in Nat
      /\ DOMAIN s = 1..(n + Len(q)) /\ DOMAIN p = 1..n /\ DOMAIN q = 1..Len(q)
      /\ \A i \in 1..n : s[i] = p[i]
      /\ \A i \in 1..Len(q) : s[n + i] = q[i]
    BY ConcatProperties, LenProperties
<1> HIDE DEF s, n
<1>3. Ids(s) = Ids(p) \cup Ids(q)
    BY <1>1 DEF Ids
<1>4. \A i \in DOMAIN s : \/ i \in DOMAIN p /\ s[i] = p[i]
                          \/ i - n \in DOMAIN q /\ s[i] = q[i - n]
    <2> TAKE i \in DOMAIN s
    <2>1. i \in 1..n \/ (i - n \in 1..Len(q) /\ n + (i - n) = i)
        BY <1>2
    <2>. QED
        BY <1>2, <2>1
<1>5. ASSUME OnceIn(p), OnceIn(q), Ids(p) \cap Ids(q) = {} PROVE OnceIn(s)
    <2> SUFFICES ASSUME NEW i \in DOMAIN s, NEW j \in DOMAIN s, s[i].id = s[j].id,
                        s[i].id \in Tasks
                 PROVE  i = j
        BY DEF OnceIn
    <2>1. CASE i \in DOMAIN p /\ s[i] = p[i] /\ j \in DOMAIN p /\ s[j] = p[j]
        BY <1>5, <2>1 DEF OnceIn
    <2>2. CASE i - n \in DOMAIN q /\ s[i] = q[i - n] /\ j - n \in DOMAIN q /\ s[j] = q[j - n]
        <3>1. i - n = j - n
            BY <1>5, <2>2 DEF OnceIn
        <3>. QED
            BY <1>2, <3>1
    <2>3. CASE \/ i \in DOMAIN p /\ s[i] = p[i] /\ j - n \in DOMAIN q /\ s[j] = q[j - n]
               \/ j \in DOMAIN p /\ s[j] = p[j] /\ i - n \in DOMAIN q /\ s[i] = q[i - n]
        <3>1. s[i].id \in Ids(p) /\ s[i].id \in Ids(q)
            BY <2>3, IdsAt
        <3>. QED
            BY <1>5, <3>1
    <2>. QED
        BY <1>4, <2>1, <2>2, <2>3
<1>. QED
    BY <1>1, <1>3, <1>5 DEF s

\* cleanup_pending_task drops no task of a client.
LEMMA IdsOfCleanup ==
    ASSUME NEW q \in Seq(server_task), NEW ids \in SUBSET Tasks
    PROVE  /\ cleanup_pending_task(q, ids) \in Seq(server_task)
           /\ Ids(cleanup_pending_task(q, ids)) = Ids(q)
           /\ OnceIn(q) => OnceIn(cleanup_pending_task(q, ids))
<1> DEFINE K == {i \in DOMAIN q : q[i].id_target \notin ids}
           k == cleanup_pending_task(q, ids)
<1>1. k \in Seq(server_task) /\ Range(k) = {x \in Range(q) : x.id_target \notin ids}
    BY CleanupKeeps
<1>2. \A x \in Range(q) : x.id \in Tasks => x.id_target = -1 /\ -1 \notin ids
    BY InRange, TaskShape
<1>3. Ids(k) = Ids(q)
    BY <1>1, <1>2 DEF Ids
<1>4. ASSUME OnceIn(q) PROVE OnceIn(k)
    <2>1. k = KeepAt(q, K)
        BY DEF cleanup_pending_task
    <2>2. K \in SUBSET DOMAIN q
        OBVIOUS
    <2> HIDE DEF K, k
    <2>3. PICK e \in [DOMAIN k -> K] : /\ \A n \in DOMAIN k : k[n] = q[e[n]]
                                       /\ \A n, m \in DOMAIN k : e[n] = e[m] => n = m
        BY <2>1, <2>2, KeepAtOrigin
    <2>4. \A n \in DOMAIN k : e[n] \in DOMAIN q
        BY <2>2, <2>3
    <2>. QED
        BY <1>4, <2>3, <2>4 DEF OnceIn
<1>. QED
    BY <1>1, <1>3, <1>4 DEF k

\* pop_deferred_task moves a task from one queue to the other.
LEMMA IdsOfPopDeferred ==
    ASSUME QueueTypeOK, PopDeferred, OnceIn(queue_tasks), OnceIn(queue_tasks_deferred),
           Ids(queue_tasks) \cap Ids(queue_tasks_deferred) = {}
    PROVE  /\ OnceIn(queue_tasks)' /\ OnceIn(queue_tasks_deferred)'
           /\ Ids(queue_tasks)' \cap Ids(queue_tasks_deferred)' = {}
           /\ Ids(queue_tasks)' \cup Ids(queue_tasks_deferred)'
                 = Ids(queue_tasks) \cup Ids(queue_tasks_deferred)
<1>1. CASE queue_tasks_deferred = <<>>
    BY <1>1 DEF PopDeferred, queueVars
<1>2. CASE queue_tasks_deferred # <<>>
    <2> DEFINE h == Head(queue_tasks_deferred)
    <2>1. /\ queue_tasks' = Append(queue_tasks, h)
          /\ queue_tasks_deferred' = Tail(queue_tasks_deferred)
        BY <1>2 DEF PopDeferred
    <2>2. /\ h \in server_task /\ {h.id} \cap Tasks \subseteq Ids(queue_tasks_deferred)
          /\ Ids(queue_tasks_deferred') = Ids(queue_tasks_deferred) \ {h.id}
          /\ OnceIn(queue_tasks_deferred')
        BY <1>2, <2>1, IdsOfTail DEF QueueTypeOK
    <2>3. h.id \notin Ids(queue_tasks)
        BY <2>2, IdsAt DEF QueueTypeOK
    <2>4. /\ Ids(queue_tasks') = Ids(queue_tasks) \cup ({h.id} \cap Tasks)
          /\ OnceIn(queue_tasks')
        BY <2>1, <2>2, <2>3, IdsOfAppend DEF QueueTypeOK
    <2> HIDE DEF h
    <2>5. Ids(queue_tasks) \subseteq Tasks /\ Ids(queue_tasks_deferred) \subseteq Tasks
        BY IdsAt DEF QueueTypeOK
    <2>. QED
        BY <2>2, <2>3, <2>4, <2>5
<1>. QED
    BY <1>1, <1>2

\* Hand is InHand, before and after a step.
LEMMA HandIsInHand ==
    /\ TypeOK /\ Work \subseteq Tasks => InHand = Hand
    /\ TypeOK' /\ Work' \subseteq Tasks => InHand' = Hand'
<1>1. ASSUME TypeOK, Work \subseteq Tasks PROVE InHand = Hand
    <2>1. /\ \A t \in Tasks : Queued(t) <=> t \in Ids(queue_tasks)
          /\ \A t \in Tasks : Deferred(t) <=> t \in Ids(queue_tasks_deferred)
          /\ Ids(queue_tasks) \subseteq Tasks /\ Ids(queue_tasks_deferred) \subseteq Tasks
        BY <1>1, IdsAt DEF TypeOK, QueueTypeOK, Queued, Deferred
    <2>2. \A t : Running(t) <=> t \in Work
        BY DEF Running, is_processing, Work, Busy
    <2>. QED
        BY <1>1, <2>1, <2>2 DEF InHand, Hand
<1>2. ASSUME TypeOK', Work' \subseteq Tasks PROVE InHand' = Hand'
    <2>1. /\ \A t \in Tasks : Queued(t)' <=> t \in Ids(queue_tasks)'
          /\ \A t \in Tasks : Deferred(t)' <=> t \in Ids(queue_tasks_deferred)'
          /\ Ids(queue_tasks)' \subseteq Tasks /\ Ids(queue_tasks_deferred)' \subseteq Tasks
        BY <1>2, IdsAt DEF TypeOK, QueueTypeOK, Queued, Deferred
    <2>2. \A t : Running(t)' <=> t \in Work'
        BY DEF Running, is_processing, Work, Busy
    <2>. QED
        BY <1>2, <2>1, <2>2 DEF InHand, Hand
<1>. QED
    BY <1>1, <1>2

\* A released slot no longer works on its task, which is then nowhere.
LEMMA ReleaseFrees ==
    ASSUME IInv, Separate, NEW s \in Slots, Busy(s), NEW slot \in server_slot,
           slot.id_task = slots[s].id_task, release(s, slot), cur'.id = cur.id
    PROVE  /\ Separate' /\ Hand' = Hand \ {slots[s].id_task}
           /\ slots[s].id_task \in Hand /\ slots[s].id_task \in Tasks
<1> DEFINE t == slots[s].id_task
           idle == [slot EXCEPT !.state = "IDLE"]
           P == Ids(queue_tasks) \cup Ids(queue_tasks_deferred)
<1>1. slots' = [slots EXCEPT ![s] = idle] /\ PopDeferred
    BY DEF release, Busy, is_processing
<1>2. /\ OnceIn(queue_tasks)' /\ OnceIn(queue_tasks_deferred)'
      /\ Ids(queue_tasks)' \cap Ids(queue_tasks_deferred)' = {}
      /\ P' = P
    BY <1>1, IdsOfPopDeferred DEF Separate, IInv, TypeOK
<1>3. idle.state = "IDLE" /\ idle \in server_slot
    BY DEF server_slot, slot_state
<1>4. slots'[s] = idle /\ \A u \in Slots : u # s => slots'[u] = slots[u]
    BY <1>1, <1>3, SlotUpdate DEF IInv, TypeOK, LoopTypeOK
<1>5. /\ ~Busy(s)' /\ \A u \in Slots : u # s => (Busy(u)' <=> Busy(u))
    BY <1>3, <1>4 DEF Busy
<1>6. t \in Work /\ t \in Tasks
    BY DEF Work, Separate
<1>7. Work' = Work \ {t}
    <2>1. \A x : x \in Work <=> \E u \in Slots : Busy(u) /\ slots[u].id_task = x
        BY DEF Work
    <2>2. \A x : x \in Work' <=> \E u \in Slots : Busy(u)' /\ slots'[u].id_task = x
        BY DEF Work
    <2>3. \A u \in Slots : Busy(u) /\ slots[u].id_task = t => u = s
        BY DEF Separate
    <2>. QED
        BY <1>4, <1>5, <2>1, <2>2, <2>3
<1>8. \A v, u \in Slots : Busy(v)' /\ Busy(u)' /\ slots'[v].id_task = slots'[u].id_task => v = u
    BY <1>4, <1>5 DEF Separate
<1>9. t \notin P /\ t # cur.id
    BY <1>6 DEF Separate
<1> HIDE DEF t
<1>10. Separate'
    BY <1>2, <1>7, <1>8 DEF Separate
<1>11. Hand' = Hand \ {t}
    BY <1>2, <1>7, <1>9 DEF Hand
<1>. QED
    BY <1>6, <1>10, <1>11 DEF Hand, t

-----------------------------------------------------------------------------
(* What the main loop does, seen from the threads.                         *)

Streamed(t) == \E r \in Requests : Mode[r] = "stream" /\ t \in TasksOf(r)
Texts(t) == {<<>>} \cup {x \in {<<Result(t, "partial")>>} : Streamed(t)}

\* One step of the main loop: nothing the threads could see, some text of a
\* streamed task, the end of a task or, once no one waits for it, its removal.
\* After a failed decode also a second error for a task that has ended.
Served ==
    \/ Hand' = Hand /\ UNCHANGED responseVars
    \/ \E t \in Hand : \E text \in Texts(t) : Hand' = Hand /\ Send(text)
    \/ \E t \in Hand : \E text \in Texts(t), k \in {"final", "error"} :
          Hand' = Hand \ {t} /\ Send(text \o <<Result(t, k)>>)
    \/ \E t \in Hand \ waiting_task_ids : Hand' = Hand \ {t} /\ UNCHANGED responseVars
    \/ /\ DecodeMayFail /\ Hand' = Hand
       /\ \E t \in Tasks \cup {-1} : Send(<<Result(t, "error")>>)

LoopServes == Separate' /\ Served

\* Slots that go on with their tasks.
GoesOn == \A s \in Slots : /\ Busy(s)' <=> Busy(s)
                           /\ Busy(s) => slots'[s].id_task = slots[s].id_task

LEMMA GoesOnKeeps ==
    ASSUME GoesOn
    PROVE  /\ Work' = Work
           /\ Separate => \A s, u \in Slots :
                 Busy(s)' /\ Busy(u)' /\ slots'[s].id_task = slots'[u].id_task => s = u
<1>1. /\ \A x : x \in Work <=> \E u \in Slots : Busy(u) /\ slots[u].id_task = x
      /\ \A x : x \in Work' <=> \E u \in Slots : Busy(u)' /\ slots'[u].id_task = x
    BY DEF Work
<1>. QED
    BY <1>1 DEF GoesOn, Separate

\* Steps in which no task moves.
LEMMA NothingMoves ==
    ASSUME Separate, UNCHANGED queueVars, cur'.id = cur.id, GoesOn
    PROVE  Separate' /\ Hand' = Hand
    BY GoesOnKeeps DEF Separate, Hand, queueVars

\* Steps in which the task in hand leaves the main loop and is not kept.
LEMMA CurLeaves ==
    ASSUME IInv, Separate, UNCHANGED queueVars, cur' = NextResponse, GoesOn,
           NEW t \in Tasks, t = cur.id
    PROVE  Separate' /\ Hand' = Hand \ {t} /\ t \in Hand
<1>1. cur'.id \notin Tasks
    BY TaskShape
<1>2. Ids(queue_tasks) \subseteq Tasks /\ Ids(queue_tasks_deferred) \subseteq Tasks
    BY IdsAt DEF IInv, TypeOK, QueueTypeOK
<1>3. Work' = Work
    BY GoesOnKeeps
<1>4. Separate'
    BY <1>1, <1>2, <1>3, GoesOnKeeps DEF Separate, queueVars
<1>5. t \notin Ids(queue_tasks) \cup Ids(queue_tasks_deferred) \cup Work
    BY DEF Separate
<1>. QED
    BY <1>1, <1>3, <1>4, <1>5 DEF Hand, queueVars

LEMMA SendAlone == \A x : <<>> \o <<x>> = <<x>>
    OBVIOUS

LEMMA TakeNextServes == ASSUME PInv, TakeNext PROVE LoopServes
<1>1. /\ queue_tasks # <<>> /\ queue_tasks' = Tail(queue_tasks)
      /\ queue_tasks_deferred' = queue_tasks_deferred /\ cur' = Head(queue_tasks)
      /\ UNCHANGED <<slots, responseVars>>
    BY DEF TakeNext, TakeTask
<1>2. /\ cur'.id \in Tasks => cur'.id \in Ids(queue_tasks)
      /\ Ids(queue_tasks') = Ids(queue_tasks) \ {cur'.id} /\ OnceIn(queue_tasks')
      /\ cur' \in server_task
    BY <1>1, IdsOfTail DEF PInv, IInv, TypeOK, QueueTypeOK, Separate
<1>3. cur.id = -1 /\ -1 \notin Tasks
    BY TaskShape DEF PInv, IInv, CurClear, TakeNext
<1>4. Work' = Work /\ \A s \in Slots : Busy(s)' <=> Busy(s)
    BY <1>1 DEF Work, Busy
<1>5. Ids(queue_tasks) \subseteq Tasks /\ Ids(queue_tasks_deferred) \subseteq Tasks
    BY IdsAt DEF PInv, IInv, TypeOK, QueueTypeOK
<1>6. Separate'
    BY <1>1, <1>2, <1>4, <1>5 DEF PInv, Separate
<1>7. Hand' = Hand
    BY <1>1, <1>2, <1>3, <1>4, <1>5 DEF Hand
<1>. QED
    BY <1>1, <1>6, <1>7 DEF LoopServes, Served

LEMMA DeferServes ==
    ASSUME PInv, Defer(cur), cur' = NextResponse, UNCHANGED <<slots, responseVars>>
    PROVE  LoopServes
<1>1. cur \in server_task /\ cur'.id = -1 /\ -1 \notin Tasks
    BY TaskShape DEF PInv, IInv, TypeOK, LoopTypeOK
<1>2. /\ queue_tasks' = queue_tasks
      /\ Ids(queue_tasks_deferred') = Ids(queue_tasks_deferred) \cup ({cur.id} \cap Tasks)
      /\ OnceIn(queue_tasks_deferred')
    BY <1>1, IdsOfAppend DEF Defer, PInv, IInv, TypeOK, QueueTypeOK, Separate
<1>3. Work' = Work /\ \A s \in Slots : Busy(s)' <=> Busy(s)
    BY DEF Work, Busy
<1>4. Ids(queue_tasks) \subseteq Tasks /\ Ids(queue_tasks_deferred) \subseteq Tasks
    BY IdsAt DEF PInv, IInv, TypeOK, QueueTypeOK
<1>5. Separate'
    BY <1>1, <1>2, <1>3, <1>4 DEF PInv, Separate
<1>6. Hand' = Hand
    BY <1>1, <1>2, <1>3, <1>4 DEF Hand
<1>. QED
    BY <1>5, <1>6 DEF LoopServes, Served

LEMMA LaunchServes ==
    ASSUME PInv, NEW s \in Slots, launch_slot_with_task(s) PROVE LoopServes
<1>0. PICK t : t = cur.id
    OBVIOUS
<1> DEFINE slot == [slots[s] EXCEPT !.id_task = t, !.n_left = NPrompt[t]]
           started == [slot EXCEPT !.state = "STARTED"]
<1>1. /\ cur' = NextResponse /\ UNCHANGED queueVars /\ ~Busy(s) /\ cur.type \in SlotTasks
    BY DEF launch_slot_with_task, Idle, Processed, Busy, is_processing
<1>2. t \in Tasks /\ cur'.id \notin Tasks
    BY <1>0, <1>1, TaskShape DEF PInv, IInv, TypeOK, LoopTypeOK, SlotTasks
<1>3. slots[s] \in server_slot /\ slots \in [Slots -> server_slot]
    BY DEF PInv, IInv, TypeOK, LoopTypeOK
<1>4. /\ slot \in server_slot /\ started \in server_slot /\ slot.state = slots[s].state
      /\ started.state # "IDLE" /\ started.id_task = t
    BY <1>2, <1>3, Constants DEF server_slot, slot_state
<1>5. CASE t \in Invalid
    <2>1. slots' = [slots EXCEPT ![s] = slot] /\ Send(<<Result(t, "error")>>)
        BY <1>0, <1>5 DEF launch_slot_with_task, send_error
    <2>2. GoesOn
        BY <1>1, <1>3, <1>4, <2>1, SlotUpdate DEF GoesOn, Busy
    <2>3. Separate' /\ Hand' = Hand \ {t} /\ t \in Hand
        BY <1>0, <1>1, <1>2, <2>2, CurLeaves DEF PInv
    <2>4. Send(<<>> \o <<Result(t, "error")>>)
        BY <2>1, SendAlone
    <2>. QED
        BY <2>3, <2>4 DEF LoopServes, Served, Texts
<1>6. CASE t \notin Invalid
    <2>1. slots' = [slots EXCEPT ![s] = started] /\ UNCHANGED responseVars
        BY <1>0, <1>6 DEF launch_slot_with_task
    <2>2. /\ slots'[s] = started /\ \A u \in Slots : u # s => slots'[u] = slots[u]
        BY <1>3, <1>4, <2>1, SlotUpdate
    <2>3. /\ Busy(s)' /\ \A u \in Slots : u # s => (Busy(u)' <=> Busy(u))
        BY <1>4, <2>2 DEF Busy
    <2>4. /\ \A x : x \in Work <=> \E u \in Slots : Busy(u) /\ slots[u].id_task = x
          /\ \A x : x \in Work' <=> \E u \in Slots : Busy(u)' /\ slots'[u].id_task = x
        BY DEF Work
    <2> HIDE DEF slot, started
    <2>5. Work' = Work \cup {t}
        BY <1>1, <1>4, <2>2, <2>3, <2>4
    <2>6. t \notin Work /\ t \notin Ids(queue_tasks) \cup Ids(queue_tasks_deferred)
        BY <1>0 DEF PInv, Separate
    <2>7. \A v, u \in Slots :
              Busy(v)' /\ Busy(u)' /\ slots'[v].id_task = slots'[u].id_task => v = u
        <3>1. \A u \in Slots : u # s /\ Busy(u)' => slots'[u].id_task # t
            BY <2>2, <2>3, <2>4, <2>6
        <3>. QED
            BY <1>4, <2>2, <2>3, <3>1 DEF PInv, Separate
    <2>8. Ids(queue_tasks) \subseteq Tasks /\ Ids(queue_tasks_deferred) \subseteq Tasks
        BY IdsAt DEF PInv, IInv, TypeOK, QueueTypeOK
    <2>9. Separate'
        BY <1>1, <1>2, <2>5, <2>6, <2>7, <2>8 DEF PInv, Separate, queueVars
    <2>10. Hand' = Hand
        BY <1>0, <1>1, <1>2, <2>5 DEF Hand, queueVars
    <2>. QED
        BY <2>1, <2>9, <2>10 DEF LoopServes, Served
<1>. QED
    BY <1>5, <1>6

\* A CANCEL frees the slot of a task nobody waits for.
LEMMA CancelRunningServes == ASSUME PInv, CancelRunning PROVE LoopServes
<1>0. PICK c : c = cur.id_target
    OBVIOUS
<1>1. cur.type = "CANCEL" /\ cur' = NextResponse /\ UNCHANGED responseVars
    BY DEF CancelRunning, Processed
<1>2. cur.id = -1 /\ cur'.id = -1
    BY <1>1, TaskShape DEF PInv, IInv, TypeOK, LoopTypeOK, ClientTask
<1>3. c \notin waiting_task_ids
    BY <1>0, <1>1 DEF PInv, Unheard
<1>4. CASE UNCHANGED <<slots, queueVars>>
    <2>1. GoesOn
        BY <1>4 DEF GoesOn, Busy
    <2>. QED
        BY <1>1, <1>2, <1>4, <2>1, NothingMoves DEF LoopServes, Served, PInv
<1>5. ASSUME NEW s \in Slots, HasTask(s, c), release(s, slots[s]), Busy(s) PROVE LoopServes
    <2>1. slots[s] \in server_slot /\ slots[s].id_task = c
        BY <1>5 DEF PInv, IInv, TypeOK, LoopTypeOK, HasTask
    <2>2. Separate' /\ Hand' = Hand \ {c} /\ c \in Hand
        BY <1>2, <1>5, <2>1, ReleaseFrees DEF PInv
    <2>. QED
        BY <1>1, <1>3, <2>2 DEF LoopServes, Served
<1>. QED
    BY <1>0, <1>4, <1>5 DEF CancelRunning, release, is_processing, Busy

LEMMA ProcessNextResponseServes == ASSUME PInv, ProcessNextResponse PROVE LoopServes
<1>1. /\ cur.type = "NEXT_RESPONSE" /\ cur' = NextResponse
      /\ UNCHANGED <<responseVars, queueVars, slots>>
    BY DEF ProcessNextResponse, Processed
<1>2. cur.id = -1 /\ cur'.id = -1
    BY <1>1, TaskShape DEF PInv, IInv, TypeOK, LoopTypeOK, ClientTask
<1>3. GoesOn
    BY <1>1 DEF GoesOn, Busy
<1>. QED
    BY <1>1, <1>2, <1>3, NothingMoves DEF LoopServes, Served, PInv

\* A task that is answered at once.
LEMMA AnswerAtOnce ==
    ASSUME PInv, cur.id \in Tasks, NEW k \in {"final", "error"},
           Send(<<Result(cur.id, k)>>), UNCHANGED <<queueVars, slots>>, cur' = NextResponse
    PROVE  LoopServes
<1>0. PICK t \in Tasks : t = cur.id
    OBVIOUS
<1>1. GoesOn
    BY DEF GoesOn, Busy
<1>2. Separate' /\ Hand' = Hand \ {t} /\ t \in Hand
    BY <1>0, <1>1, CurLeaves DEF PInv
<1>3. Send(<<>> \o <<Result(t, k)>>)
    BY <1>0, SendAlone
<1>. QED
    BY <1>2, <1>3 DEF LoopServes, Served, Texts

LEMMA ProcessQueryServes == ASSUME PInv, ProcessQuery PROVE LoopServes
<1>1. cur.id \in Tasks
    BY TaskShape DEF PInv, IInv, TypeOK, LoopTypeOK, ProcessQuery
<1>. QED
    BY <1>1, AnswerAtOnce DEF ProcessQuery, Processed

LEMMA ProcessSlotActionServes == ASSUME PInv, ProcessSlotAction PROVE LoopServes
<1>1. cur.id \in Tasks
    BY TaskShape DEF PInv, IInv, TypeOK, LoopTypeOK, ProcessSlotAction, SlotActions
<1>2. UNCHANGED slots /\ cur' = NextResponse
    BY DEF ProcessSlotAction, Processed
<1>3. CASE Defer(cur) /\ UNCHANGED responseVars
    BY <1>2, <1>3, DeferServes
<1>4. CASE UNCHANGED queueVars /\ \E k \in {"final", "error"} : Send(<<Result(cur.id, k)>>)
    BY <1>1, <1>2, <1>4, AnswerAtOnce
<1>. QED
    BY <1>3, <1>4 DEF ProcessSlotAction, send_error

\* Steps of update_slots that leave each task where it is.
LEMMA UpdateServes ==
    ASSUME PInv, UNCHANGED <<queueVars, responseVars, cur>>, GoesOn PROVE LoopServes
    BY NothingMoves DEF LoopServes, Served, PInv

LEMMA MoveOnServes ==
    ASSUME PInv,
           \/ TasksDrained \/ Wake \/ AllIdle \/ PromptsBatched \/ DecodeOk
           \/ DecodeRetry \/ DecodeFails \/ AllFailed \/ ViewDone
           \/ \E s \in Slots : SkipNoPrompt(s) \/ SkipIncompatible(s)
    PROVE  LoopServes
<1>1. UNCHANGED <<queueVars, responseVars, cur, slots>>
    BY DEF TasksDrained, Wake, AllIdle, PromptsBatched, DecodeOk, DecodeRetry,
           DecodeFails, AllFailed, ViewDone, SkipNoPrompt, SkipIncompatible, AtPrompt,
           InUpdate
<1>2. GoesOn
    BY <1>1 DEF GoesOn, Busy
<1>. QED
    BY <1>1, <1>2, UpdateServes

LEMMA PostNextResponseServes == ASSUME PInv, PostNextResponse PROVE LoopServes
<1> DEFINE new == <<NextResponse>>
<1>1. /\ queue_tasks' = queue_tasks \o new /\ UNCHANGED queue_tasks_deferred
      /\ UNCHANGED <<responseVars, slots, cur>>
    BY DEF PostNextResponse, InUpdate, Post
<1>2. new \in Seq(server_task) /\ DOMAIN new = {1} /\ new[1] = NextResponse
    BY TaskShape
<1>3. Ids(new) = {} /\ OnceIn(new)
    BY <1>2, TaskShape DEF Ids, OnceIn, Range
<1> HIDE DEF new
<1>4. Ids(queue_tasks') = Ids(queue_tasks) /\ OnceIn(queue_tasks')
    <2>1. queue_tasks \in Seq(server_task) /\ OnceIn(queue_tasks)
        BY DEF PInv, IInv, TypeOK, QueueTypeOK, Separate
    <2>2. Ids(queue_tasks) \cap Ids(new) = {}
        BY <1>3
    <2>3. /\ Ids(queue_tasks \o new) = Ids(queue_tasks) \cup Ids(new)
          /\ OnceIn(queue_tasks \o new)
        BY <1>2, <1>3, <2>1, <2>2, IdsOfConcat
    <2>. QED
        BY <1>1, <1>3, <2>3
<1>5. Work' = Work /\ \A s \in Slots : Busy(s)' <=> Busy(s)
    BY <1>1 DEF Work, Busy
<1>6. Separate' /\ Hand' = Hand
    BY <1>1, <1>4, <1>5 DEF PInv, Separate, Hand
<1>. QED
    BY <1>1, <1>6 DEF LoopServes, Served

LEMMA BatchSampledServes == ASSUME PInv, BatchSampled PROVE LoopServes
<1>1. slots \in [Slots -> server_slot]
    BY DEF PInv, IInv, TypeOK, LoopTypeOK
<1>2. \A s \in Slots : \/ slots'[s] = slots[s]
                       \/ \E n : slots'[s] = [slots[s] EXCEPT !.i_batch = n]
    BY DEF BatchSampled
<1>3. GoesOn
    BY <1>1, <1>2 DEF server_slot, GoesOn, Busy
<1>. QED
    BY <1>3, UpdateServes DEF BatchSampled, InUpdate

\* A slot at work that stays so.
LEMMA SlotGoesOn ==
    ASSUME IInv, NEW s \in Slots, Busy(s), NEW slot, slot.state # "IDLE",
           slot.id_task = slots[s].id_task, slots' = [slots EXCEPT ![s] = slot]
    PROVE  GoesOn
    BY DEF IInv, TypeOK, LoopTypeOK, GoesOn, Busy

LEMMA BatchPromptServes == ASSUME PInv, NEW s \in Slots, BatchPrompt(s) PROVE LoopServes
<1>1. slots[s] \in server_slot /\ Busy(s)
    BY DEF PInv, IInv, TypeOK, LoopTypeOK, BatchPrompt, HasPrompt, Busy
<1>2. PICK row, left :
          \/ slots' = [slots EXCEPT ![s] =
                 [slots[s] EXCEPT !.state = "DONE_PROMPT", !.n_left = 0,
                                  !.n_decoded = 0, !.i_batch = row]]
          \/ slots' = [slots EXCEPT ![s] =
                 [slots[s] EXCEPT !.state = "PROCESSING_PROMPT", !.n_left = left]]
    BY DEF BatchPrompt
<1> DEFINE done == [slots[s] EXCEPT !.state = "DONE_PROMPT", !.n_left = 0,
                                    !.n_decoded = 0, !.i_batch = row]
           more == [slots[s] EXCEPT !.state = "PROCESSING_PROMPT", !.n_left = left]
<1>3. /\ done.id_task = slots[s].id_task /\ done.state # "IDLE"
      /\ more.id_task = slots[s].id_task /\ more.state # "IDLE"
    BY <1>1 DEF server_slot
<1>4. slots' = [slots EXCEPT ![s] = done] \/ slots' = [slots EXCEPT ![s] = more]
    BY <1>2
<1> HIDE DEF done, more
<1>5. GoesOn
    BY <1>1, <1>3, <1>4, SlotGoesOn DEF PInv
<1>. QED
    BY <1>5, UpdateServes DEF BatchPrompt, AtPrompt, InUpdate

\* Steps of update_slots that end the task of a slot.
LEMMA EndServes ==
    ASSUME PInv, NEW s \in Slots, Busy(s), NEW slot \in server_slot,
           slot.id_task = slots[s].id_task, release(s, slot), UNCHANGED cur,
           NEW k \in {"final", "error"}, NEW text \in Texts(slots[s].id_task),
           Send(text \o <<Result(slots[s].id_task, k)>>)
    PROVE  LoopServes
<1>1. PICK t : t = slots[s].id_task
    OBVIOUS
<1>2. Separate' /\ Hand' = Hand \ {t} /\ t \in Hand
    BY <1>1, ReleaseFrees DEF PInv
<1>. QED
    BY <1>1, <1>2 DEF LoopServes, Served

LEMMA ContextFullServes == ASSUME PInv, NEW s \in Slots, ContextFull(s) PROVE LoopServes
<1>1. /\ slots[s] \in server_slot /\ Busy(s) /\ release(s, slots[s]) /\ UNCHANGED cur
      /\ Send(<<>> \o <<Result(slots[s].id_task, "error")>>)
      /\ <<>> \in Texts(slots[s].id_task)
    BY SendAlone DEF PInv, IInv, TypeOK, LoopTypeOK, ContextFull, InUpdate, send_error, Busy,
                     Texts
<1>. QED
    BY <1>1, EndServes

LEMMA RejectPromptServes == ASSUME PInv, NEW s \in Slots, RejectPrompt(s) PROVE LoopServes
<1>1. PICK k \in {"final", "error"} : Send(<<Result(slots[s].id_task, k)>>)
    BY DEF RejectPrompt, send_error, send_final_response
<1>2. slots[s] \in server_slot /\ <<>> \in Texts(slots[s].id_task)
    BY DEF PInv, IInv, TypeOK, LoopTypeOK, Texts
<1>3. slots[s].state = "STARTED" /\ release(s, slots[s]) /\ UNCHANGED cur
    BY DEF RejectPrompt, AtPrompt, InUpdate
<1>4. Busy(s) /\ Send(<<>> \o <<Result(slots[s].id_task, k)>>)
    BY <1>1, <1>3, SendAlone DEF Busy
<1>. QED
    BY <1>2, <1>3, <1>4, EndServes

LEMMA SendEmbeddingServes == ASSUME PInv, NEW s \in Slots, SendEmbedding(s) PROVE LoopServes
<1> DEFINE slot == [slots[s] EXCEPT !.i_batch = -1]
<1>1. /\ slots[s] \in server_slot /\ Busy(s) /\ release(s, slot) /\ UNCHANGED cur
      /\ Send(<<>> \o <<Result(slots[s].id_task, "final")>>)
      /\ <<>> \in Texts(slots[s].id_task)
    BY SendAlone DEF PInv, IInv, TypeOK, LoopTypeOK, SendEmbedding, InUpdate, send_embedding,
                     Busy, Texts
<1>2. slot \in server_slot /\ slot.id_task = slots[s].id_task
    BY <1>1 DEF server_slot
<1> HIDE DEF slot
<1>. QED
    BY <1>1, <1>2, EndServes

\* A slot that is not at work is failed as well: its last task gets an error.
LEMMA FailSlotServes == ASSUME PInv, NEW s \in Slots, FailSlot(s) PROVE LoopServes
<1>1. /\ slots[s] \in server_slot /\ release(s, slots[s]) /\ UNCHANGED cur
      /\ Send(<<Result(slots[s].id_task, "error")>>) /\ DecodeMayFail
    BY DEF PInv, IInv, TypeOK, LoopTypeOK, FailSlot, InUpdate, send_error, FailsOnly
<1>2. CASE Busy(s)
    <2>1. /\ Send(<<>> \o <<Result(slots[s].id_task, "error")>>)
          /\ <<>> \in Texts(slots[s].id_task)
        BY <1>1, SendAlone DEF Texts
    <2>. QED
        BY <1>1, <1>2, <2>1, EndServes
<1>3. CASE ~Busy(s)
    <2>1. UNCHANGED <<slots, queueVars>>
        BY <1>1, <1>3 DEF release, Busy, is_processing
    <2>2. GoesOn
        BY <2>1 DEF GoesOn, Busy
    <2>3. Separate' /\ Hand' = Hand
        BY <1>1, <2>1, <2>2, NothingMoves DEF PInv
    <2>4. slots[s].id_task \in Tasks \cup {-1}
        BY <1>1 DEF server_slot
    <2>. QED
        BY <1>1, <2>3, <2>4 DEF LoopServes, Served
<1>. QED
    BY <1>2, <1>3

LEMMA SampleTokenServes == ASSUME PInv, NEW s \in Slots, SampleToken(s) PROVE LoopServes
<1>1. PICK t : t = slots[s].id_task
    OBVIOUS
<1> DEFINE slot == [slots[s] EXCEPT !.state = "GENERATING", !.i_batch = -1,
                                    !.n_decoded = @ + 1]
<1>2. slots[s] \in server_slot /\ Busy(s)
    BY DEF PInv, IInv, TypeOK, LoopTypeOK, SampleToken, NextToSample, Sampling, Busy
<1>3. slot \in server_slot /\ slot.id_task = t /\ slot.state # "IDLE"
    <2>1. slots[s].n_decoded + 1 \in Nat
        BY <1>2 DEF server_slot
    <2>. QED
        BY <1>1, <1>2, <2>1 DEF server_slot, slot_state
<1>4. Streams(s) <=> Streamed(t)
    BY <1>1 DEF Streams, Streamed
<1>5. /\ UNCHANGED cur
      /\ \E text \in Texts(t) :
            \/ /\ slots' = [slots EXCEPT ![s] = slot]
               /\ Send(text)
               /\ UNCHANGED queueVars
            \/ release(s, slot) /\ Send(text \o <<Result(t, "final")>>)
    BY <1>1, <1>3, <1>4 DEF SampleToken, process_token, InUpdate, Texts
<1> HIDE DEF slot
<1>6. PICK text \in Texts(t) :
            \/ /\ slots' = [slots EXCEPT ![s] = slot]
               /\ Send(text)
               /\ UNCHANGED queueVars
            \/ release(s, slot) /\ Send(text \o <<Result(t, "final")>>)
    BY <1>5
<1>7. CASE slots' = [slots EXCEPT ![s] = slot] /\ Send(text) /\ UNCHANGED queueVars
    <2>1. GoesOn
        BY <1>1, <1>2, <1>3, <1>7, SlotGoesOn DEF PInv
    <2>2. Separate' /\ Hand' = Hand
        BY <1>5, <1>7, <2>1, NothingMoves DEF PInv
    <2>3. t \in Hand
        BY <1>1, <1>2 DEF Hand, Work
    <2>. QED
        BY <1>7, <2>2, <2>3 DEF LoopServes, Served
<1>8. CASE release(s, slot) /\ Send(text \o <<Result(t, "final")>>)
    BY <1>1, <1>2, <1>3, <1>5, <1>8, EndServes
<1>. QED
    BY <1>6, <1>7, <1>8

\* All steps of the main loop.
LEMMA StartLoopServes == ASSUME PInv, start_loop PROVE LoopServes
<1>1. CASE process_single_task
    <2>1. CASE DeferTask
        BY <2>1, DeferServes DEF DeferTask, Processed
    <2>. QED
        BY <1>1, <2>1, LaunchServes, CancelRunningServes, ProcessNextResponseServes,
           ProcessQueryServes, ProcessSlotActionServes DEF process_single_task
<1>2. CASE update_slots
    BY <1>2, MoveOnServes, PostNextResponseServes, BatchSampledServes, ContextFullServes,
       RejectPromptServes, BatchPromptServes, FailSlotServes, SendEmbeddingServes,
       SampleTokenServes DEF update_slots
<1>. QED
    BY <1>1, <1>2, TakeNextServes, MoveOnServes DEF start_loop

-----------------------------------------------------------------------------
(* What the threads do to the tasks in hand.                               *)

\* A queue of different tasks.
LEMMA IdsOfList ==
    ASSUME NEW n \in Nat, NEW f \in [1..n -> Tasks], NEW q \in [1..n -> server_task],
           \A i \in 1..n : q[i].id = f[i],
           \A i, j \in 1..n : f[i] = f[j] => i = j
    PROVE  q \in Seq(server_task) /\ OnceIn(q) /\ Ids(q) = {f[i] : i \in 1..n}
<1>1. q \in Seq(server_task) /\ DOMAIN q = 1..n
    OBVIOUS
<1>2. OnceIn(q)
    BY <1>1 DEF OnceIn
<1>3. Ids(q) \subseteq Tasks /\ \A t \in Tasks : t \in Ids(q) <=> \E i \in 1..n : f[i] = t
    BY <1>1, IdsAt
<1>. QED
    BY <1>1, <1>2, <1>3

\* The tasks of a request in the order of a post, ...
LEMMA IdsOfPosted ==
    ASSUME NEW r \in Requests
    PROVE  LET new == [i \in DOMAIN ReqTasks[r] |-> ClientTask(ReqTasks[r][i])]
           IN  new \in Seq(server_task) /\ OnceIn(new) /\ Ids(new) = TasksOf(r)
<1> DEFINE n == Len(ReqTasks[r])
           f == ReqTasks[r]
           new == [i \in DOMAIN ReqTasks[r] |-> ClientTask(ReqTasks[r][i])]
<1>1. n \in Nat /\ DOMAIN f = 1..n /\ f \in [1..n -> Tasks]
    BY Constants
<1>2. \A i, j \in 1..n : f[i] = f[j] => i = j
    BY <1>1, ServerAssumption
<1>3. \A t \in Tasks : ClientTask(t) \in server_task /\ ClientTask(t).id = t
    BY TaskShape DEF server_task
<1>4. new \in [1..n -> server_task] /\ \A i \in 1..n : new[i].id = f[i]
    BY <1>1, <1>3
<1>5. TasksOf(r) = {f[i] : i \in 1..n}
    BY <1>1 DEF TasksOf
<1> HIDE DEF n, f, new
<1>6. new \in Seq(server_task) /\ OnceIn(new) /\ Ids(new) = TasksOf(r)
    BY <1>1, <1>2, <1>4, <1>5, IdsOfList
<1>. QED
    BY <1>6 DEF new

\* ... and in the reverse order.
LEMMA IdsOfReversed ==
    ASSUME NEW q \in Seq(server_task), OnceIn(q), \A i \in DOMAIN q : q[i].id \in Tasks
    PROVE  LET back == [i \in DOMAIN q |-> q[Len(q) + 1 - i]]
           IN  back \in Seq(server_task) /\ OnceIn(back) /\ Ids(back) = Ids(q)
<1> DEFINE n == Len(q)
           back == [i \in DOMAIN q |-> q[n + 1 - i]]
           f == [i \in 1..n |-> q[n + 1 - i].id]
<1>1. n \in Nat /\ DOMAIN q = 1..n /\ \A i \in 1..n : q[i] \in server_task
    OBVIOUS
<1> HIDE DEF n
<1>2. \A i \in 1..n : n + 1 - i \in 1..n /\ n + 1 - (n + 1 - i) = i
    BY <1>1
<1>3. back \in [1..n -> server_task] /\ \A i \in 1..n : back[i] = q[n + 1 - i]
    BY <1>1, <1>2
<1>4. f \in [1..n -> Tasks] /\ \A i \in 1..n : f[i] = q[n + 1 - i].id
    BY <1>1, <1>2
<1>5. \A i \in 1..n : back[i].id = f[i]
    BY <1>3, <1>4
<1> HIDE DEF f
<1>6. \A i, j \in 1..n : f[i] = f[j] => i = j
    <2> SUFFICES ASSUME NEW i \in 1..n, NEW j \in 1..n, f[i] = f[j] PROVE i = j
        OBVIOUS
    <2>1. n + 1 - i = n + 1 - j
        BY <1>1, <1>2, <1>4 DEF OnceIn
    <2>. QED
        BY <1>1, <2>1
<1>7. Ids(q) = {f[i] : i \in 1..n}
    <2>1. Ids(q) \subseteq Tasks /\ \A t \in Tasks : t \in Ids(q) <=> \E i \in 1..n : q[i].id = t
        BY <1>1, IdsAt
    <2>2. \A i \in 1..n : \E j \in 1..n : f[j] = q[i].id
        BY <1>2, <1>4
    <2>3. \A i \in 1..n : \E j \in 1..n : q[j].id = f[i]
        BY <1>2, <1>4
    <2>4. \A t \in Tasks : t \in Ids(q) <=> \E i \in 1..n : f[i] = t
        BY <2>1, <2>2, <2>3
    <2>5. \A i \in 1..n : f[i] \in Tasks
        BY <1>4
    <2>. QED
        BY <2>1, <2>4, <2>5
<1> HIDE DEF back
<1>8. back \in Seq(server_task) /\ OnceIn(back) /\ Ids(back) = Ids(q)
    BY <1>1, <1>3, <1>4, <1>5, <1>6, <1>7, IdsOfList
<1>. QED
    BY <1>8 DEF back, n

\* None of the tasks a request is about to post is in hand.
LEMMA NewInHand ==
    ASSUME PInv, NEW r \in Requests, http[r] \in {"new", "registered"}
    PROVE  TasksOf(r) \cap Hand = {}
<1> SUFFICES ASSUME NEW t \in TasksOf(r), t \in Hand PROVE FALSE
    OBVIOUS
<1>1. PICK q \in Requests : t \in TasksOf(q) /\ http[q] \notin {"new", "registered"}
    BY DEF PInv, Submitted
<1>. QED
    BY <1>1, Constants

LEMMA SubmitAdds ==
    ASSUME PInv, NEW r \in Requests, Submit(r)
    PROVE  Separate' /\ Hand' = Hand \cup TasksOf(r)
<1> DEFINE new == [i \in DOMAIN ReqTasks[r] |-> ClientTask(ReqTasks[r][i])]
           back == [i \in DOMAIN new |-> new[Len(new) + 1 - i]]
<1>1. /\ new \in Seq(server_task) /\ Ids(new) = TasksOf(r) /\ OnceIn(new)
      /\ \A i \in DOMAIN new : new[i].id \in Tasks
    <2>1. new \in Seq(server_task) /\ Ids(new) = TasksOf(r) /\ OnceIn(new)
        BY IdsOfPosted
    <2>2. \A i \in DOMAIN new : /\ ReqTasks[r][i] \in Tasks
                                /\ new[i] = ClientTask(ReqTasks[r][i])
        BY Constants
    <2>. QED
        BY <2>1, <2>2, TaskShape
<1>2. /\ http[r] = "registered" /\ UNCHANGED <<queue_tasks_deferred, loopVars>>
      /\ queue_tasks' = back \o queue_tasks \/ queue_tasks' = queue_tasks \o new
    BY DEF Submit, Thread, Post
<1> HIDE DEF new
<1>3. back \in Seq(server_task) /\ OnceIn(back) /\ Ids(back) = TasksOf(r)
    BY <1>1, IdsOfReversed
<1> HIDE DEF back
<1>4. TasksOf(r) \cap Hand = {}
    BY <1>2, NewInHand
<1>5. queue_tasks \in Seq(server_task) /\ OnceIn(queue_tasks)
    BY DEF PInv, IInv, TypeOK, QueueTypeOK, Separate
<1>6. Ids(queue_tasks) \cap TasksOf(r) = {}
    BY <1>4 DEF Hand
<1>7. /\ Ids(back \o queue_tasks) = Ids(queue_tasks) \cup TasksOf(r)
      /\ OnceIn(back \o queue_tasks)
    BY <1>1, <1>3, <1>5, <1>6, IdsOfConcat
<1>8. /\ Ids(queue_tasks \o new) = Ids(queue_tasks) \cup TasksOf(r)
      /\ OnceIn(queue_tasks \o new)
    BY <1>1, <1>5, <1>6, IdsOfConcat
<1>9. Ids(queue_tasks') = Ids(queue_tasks) \cup TasksOf(r) /\ OnceIn(queue_tasks')
    BY <1>2, <1>7, <1>8
<1>10. /\ Work' = Work /\ cur' = cur /\ slots' = slots
       /\ \A s \in Slots : Busy(s)' <=> Busy(s)
    BY <1>2 DEF loopVars, Work, Busy
<1>11. TasksOf(r) \subseteq Tasks
    BY Constants
<1>12. Separate'
    BY <1>2, <1>4, <1>9, <1>10, <1>11 DEF PInv, Separate, Hand
<1>13. Hand' = Hand \cup TasksOf(r)
    BY <1>2, <1>9, <1>10 DEF Hand
<1>. QED
    BY <1>12, <1>13

\* A CANCEL is no task of a client, and cleanup_pending_task drops none.
LEMMA CancelTasksAdds ==
    ASSUME PInv, NEW r \in Requests, CancelTasks(r)
    PROVE  Separate' /\ Hand' = Hand
<1> DEFINE targets == ReqTasks[r]
           n == Len(targets)
           ids == {targets[i] : i \in DOMAIN targets}
           cancels == [i \in DOMAIN targets |-> CancelTask(targets[n + 1 - i])]
           kept == cleanup_pending_task(queue_tasks, ids)
           left == cleanup_pending_task(queue_tasks_deferred, ids)
<1>1. /\ queue_tasks' = cancels \o kept /\ queue_tasks_deferred' = left
      /\ UNCHANGED loopVars
    BY DEF CancelTasks, PostCancels
<1>2. targets \in Seq(Tasks) /\ n \in Nat /\ DOMAIN targets = 1..n
    BY Constants
<1>3. \A i \in 1..n : n + 1 - i \in 1..n /\ targets[n + 1 - i] \in Tasks
    BY <1>2
<1>4. ids \in SUBSET Tasks
    BY <1>2
<1>5. \A t \in Tasks : CancelTask(t) \in server_task /\ CancelTask(t).id = -1
    BY DEF server_task, CancelTask
<1>6. /\ cancels \in Seq(server_task) /\ DOMAIN cancels = 1..n
      /\ \A i \in 1..n : cancels[i].id = -1
    BY <1>2, <1>3, <1>5
<1>7. queue_tasks \in Seq(server_task) /\ queue_tasks_deferred \in Seq(server_task)
    BY DEF PInv, IInv, TypeOK, QueueTypeOK
<1> HIDE DEF n, ids, targets, cancels
<1>8. Ids(cancels) = {} /\ OnceIn(cancels)
    <2>1. \A i \in DOMAIN cancels : cancels[i].id \notin Tasks
        BY <1>6, TaskShape
    <2>. QED
        BY <1>6, <2>1 DEF OnceIn, Ids, Range
<1>9. /\ kept \in Seq(server_task) /\ Ids(kept) = Ids(queue_tasks) /\ OnceIn(kept)
      /\ Ids(left) = Ids(queue_tasks_deferred) /\ OnceIn(left)
    BY <1>4, <1>7, IdsOfCleanup DEF PInv, Separate
<1> HIDE DEF kept, left
<1>10. Ids(cancels \o kept) = Ids(queue_tasks) /\ OnceIn(cancels \o kept)
    <2>1. Ids(cancels) \cap Ids(kept) = {} /\ Ids(cancels) \cup Ids(kept) = Ids(queue_tasks)
        BY <1>8, <1>9
    <2>. QED
        BY <1>6, <1>8, <1>9, <2>1, IdsOfConcat
<1>11. /\ Ids(queue_tasks') = Ids(queue_tasks) /\ OnceIn(queue_tasks')
       /\ Ids(queue_tasks_deferred') = Ids(queue_tasks_deferred)
       /\ OnceIn(queue_tasks_deferred')
    BY <1>1, <1>9, <1>10
<1>12. /\ Work' = Work /\ cur' = cur /\ slots' = slots
       /\ \A s \in Slots : Busy(s)' <=> Busy(s)
    BY <1>1 DEF loopVars, Work, Busy
<1>. QED
    BY <1>11, <1>12 DEF PInv, Separate, Hand

\* The other steps of a thread move no task.
LEMMA HttpMovesNothing ==
    ASSUME Separate, UNCHANGED <<queueVars, loopVars>>
    PROVE  Separate' /\ Hand' = Hand
<1>1. /\ cur'.id = cur.id /\ GoesOn /\ UNCHANGED queueVars
    BY DEF loopVars, GoesOn, Busy
<1>. QED
    BY <1>1, NothingMoves

-----------------------------------------------------------------------------
(* The invariant.                                                          *)

\* Only a decode that failed leads to the loop that fails the slots.
LEMMA FailsOnlyKept == ASSUME FailsOnly, start_loop PROVE FailsOnly'
<1>1. CASE loop' = loop
    BY <1>1 DEF FailsOnly
<1>2. CASE TakeNext \/ TasksDrained \/ Wake \/ DecodeFails
    BY <1>2 DEF TakeNext, TasksDrained, Wake, DecodeFails, FailsOnly
<1>3. CASE process_single_task
    BY <1>3 DEF process_single_task, DeferTask, launch_slot_with_task, CancelRunning,
                ProcessNextResponse, ProcessQuery, ProcessSlotAction, Processed, FailsOnly
<1>4. CASE \/ AllIdle \/ PostNextResponse \/ BatchSampled \/ PromptsBatched \/ DecodeOk
           \/ AllFailed \/ ViewDone
    BY <1>4 DEF AllIdle, PostNextResponse, BatchSampled, PromptsBatched, DecodeOk, AllFailed,
                ViewDone, GoTo, FailsOnly
<1>5. CASE \/ DecodeRetry
           \/ \E s \in Slots : \/ ContextFull(s) \/ SkipNoPrompt(s) \/ SkipIncompatible(s)
                               \/ RejectPrompt(s) \/ BatchPrompt(s) \/ FailSlot(s)
                               \/ SendEmbedding(s) \/ SampleToken(s)
    BY <1>1, <1>5 DEF DecodeRetry, ContextFull, SkipNoPrompt, SkipIncompatible, RejectPrompt,
                      BatchPrompt, FailSlot, SendEmbedding, SampleToken
<1>. QED
    BY <1>2, <1>3, <1>4, <1>5 DEF start_loop, update_slots

LEMMA LoopKeepsPInv == ASSUME PInv, start_loop PROVE PInv'
<1>1. LoopKeeps /\ IInv'
    BY StartLoopKeeps, LoopKeepsInvariant DEF PInv
<1>2. Separate' /\ Hand' \subseteq Hand
    BY StartLoopServes DEF LoopServes, Served
<1>3. Submitted'
    BY <1>1, <1>2 DEF PInv, Submitted, LoopKeeps
<1>4. Unheard'
    <2>1. \A x \in Pending' \cup {cur'} : x.type = "CANCEL" => x \in Pending \cup {cur}
        BY <1>1, TaskShape DEF LoopKeeps
    <2>. QED
        BY <1>1, <2>1 DEF PInv, Unheard, LoopKeeps
<1>5. FailsOnly'
    BY FailsOnlyKept DEF PInv
<1>. QED
    BY <1>1, <1>2, <1>3, <1>4, <1>5 DEF PInv

\* What a thread may do: post its own tasks or its own CANCELs, and be heard of by
\* nobody but itself.
ThreadSteps(r) ==
    /\ Separate' /\ Hand' \subseteq Hand \cup {t \in TasksOf(r) : http'[r] = "receiving"}
    /\ \A q \in Requests \ {r} : http'[q] = http[q]
    /\ http'[r] \in {"new", "registered"} => http[r] \in {"new", "registered"}
    /\ UNCHANGED loop
    /\ \A x \in Pending' \cup {cur'} : x.type = "CANCEL" =>
          \/ x \in Pending \cup {cur}
          \/ x.id_target \in TasksOf(r) /\ http[r] = "unregistered"
    /\ \/ waiting_task_ids' \subseteq waiting_task_ids
       \/ http[r] = "new" /\ waiting_task_ids' \subseteq waiting_task_ids \cup TasksOf(r)
    /\ http'[r] \in {"unregistered", "cancelled"} => TasksOf(r) \cap waiting_task_ids' = {}

LEMMA ThreadKeepsPInv ==
    ASSUME PInv, IInv', NEW r \in Requests, ThreadSteps(r)
    PROVE  PInv'
<1>1. Separate' /\ FailsOnly'
    BY DEF PInv, ThreadSteps, FailsOnly
<1>2. Submitted'
    <2> SUFFICES ASSUME NEW t \in Hand'
                 PROVE  \E q \in Requests :
                           t \in TasksOf(q) /\ http'[q] \notin {"new", "registered"}
        BY DEF Submitted
    <2>1. CASE t \in TasksOf(r) /\ http'[r] = "receiving"
        BY <2>1
    <2>2. CASE t \in Hand
        <3>1. PICK q \in Requests : t \in TasksOf(q) /\ http[q] \notin {"new", "registered"}
            BY <2>2 DEF PInv, Submitted
        <3>2. http'[q] \notin {"new", "registered"}
            BY <3>1 DEF ThreadSteps
        <3>. QED
            BY <3>1, <3>2
    <2>. QED
        BY <2>1, <2>2 DEF ThreadSteps
<1>3. ASSUME NEW x \in Pending' \cup {cur'}, x.type = "CANCEL"
      PROVE  x.id_target \notin waiting_task_ids'
    <2>1. CASE http[r] = "new"
        <3>1. x \in Pending \cup {cur}
            BY <1>3, <2>1 DEF ThreadSteps
        <3>2. x.id_target \notin waiting_task_ids /\ GaveUp(x.id_target)
            BY <1>3, <3>1 DEF PInv, IInv, Unheard, CancelsOwned
        <3>3. x.id_target \notin TasksOf(r)
            BY <2>1, <3>2, Constants DEF GaveUp
        <3>. QED
            BY <3>2, <3>3 DEF ThreadSteps
    <2>2. CASE http[r] # "new"
        <3>1. waiting_task_ids' \subseteq waiting_task_ids
            BY <2>2 DEF ThreadSteps
        <3>2. CASE x \in Pending \cup {cur}
            BY <1>3, <3>1, <3>2 DEF PInv, Unheard
        <3>3. CASE x.id_target \in TasksOf(r) /\ http[r] = "unregistered"
            BY <3>1, <3>3 DEF PInv, Unheard
        <3>. QED
            BY <1>3, <3>2, <3>3 DEF ThreadSteps
    <2>. QED
        BY <2>1, <2>2
<1>4. ASSUME NEW q \in Requests, http'[q] \in {"unregistered", "cancelled"}
      PROVE  TasksOf(q) \cap waiting_task_ids' = {}
    <2>1. CASE q = r
        BY <1>4, <2>1 DEF ThreadSteps
    <2>2. CASE q # r
        <3>1. TasksOf(q) \cap waiting_task_ids = {} /\ TasksOf(q) \cap TasksOf(r) = {}
            BY <1>4, <2>2, Constants DEF PInv, Unheard, ThreadSteps
        <3>. QED
            BY <3>1 DEF ThreadSteps
    <2>. QED
        BY <2>1, <2>2
<1>5. Unheard'
    BY <1>3, <1>4 DEF Unheard
<1>. QED
    BY <1>1, <1>2, <1>5 DEF PInv

LEMMA HandleSteps == ASSUME PInv, NEW r \in Requests, Handle(r), ~TimeoutRetry(r) PROVE ThreadSteps(r)
<1> USE DEF HttpStates
<1>0. IInv
    BY DEF PInv
<1>1. CASE Register(r)
    <2>1. /\ http'[r] = "registered" /\ http[r] = "new"
          /\ \A q \in Requests \ {r} : http'[q] = http[q]
        BY <1>0, <1>1, ThreadMoves DEF Register, Thread
    <2>2. UNCHANGED <<queueVars, loopVars>> /\ waiting_task_ids' = waiting_task_ids \cup TasksOf(r)
        BY <1>1 DEF Register, AddWaiting
    <2>3. Separate' /\ Hand' = Hand
        BY <2>2, HttpMovesNothing DEF PInv
    <2>. QED
        BY <2>1, <2>2, <2>3 DEF ThreadSteps, queueVars, loopVars, Pending
<1>2. CASE Submit(r)
    <2>1. /\ http'[r] = "receiving" /\ http[r] = "registered"
          /\ \A q \in Requests \ {r} : http'[q] = http[q]
        BY <1>0, <1>2, ThreadMoves DEF Submit, Thread
    <2>2. Separate' /\ Hand' = Hand \cup TasksOf(r)
        BY <1>2, SubmitAdds
    <2>3. UNCHANGED <<responseVars, loopVars>>
        BY <1>2 DEF Submit
    <2>4. \A x \in Pending' : x.type = "CANCEL" => x \in Pending
        <3> DEFINE new == [i \in DOMAIN ReqTasks[r] |-> ClientTask(ReqTasks[r][i])]
        <3>1. new \in Seq(server_task)
            BY IdsOfPosted
        <3>2. PICK front \in BOOLEAN : Post(new, front)
            BY <1>2 DEF Submit
        <3>3. \A i \in DOMAIN new : new[i].type # "CANCEL"
            BY Constants, TaskShape
        <3> HIDE DEF new
        <3>4. Pending' = Pending \cup Range(new)
            BY <3>1, <3>2, PostAdds DEF PInv, IInv, TypeOK
        <3>. QED
            BY <3>1, <3>3, <3>4, InRange
    <2>. QED
        BY <2>1, <2>2, <2>3, <2>4 DEF ThreadSteps, responseVars, loopVars
<1>3. CASE CancelTasks(r)
    <2>1. /\ http'[r] = "cancelled" /\ http[r] = "unregistered"
          /\ \A q \in Requests \ {r} : http'[q] = http[q]
        BY <1>0, <1>3, ThreadMoves DEF CancelTasks, Thread
    <2>2. Separate' /\ Hand' = Hand
        BY <1>3, CancelTasksAdds
    <2>3. UNCHANGED <<responseVars, loopVars>>
        BY <1>3 DEF CancelTasks
    <2>4. \A x \in Pending' : x \in Pending \/ x.id_target \in TasksOf(r)
        BY <1>3, PostCancelsKeeps, Constants DEF CancelTasks, PInv, IInv, TypeOK, CancelTask
    <2>5. TasksOf(r) \cap waiting_task_ids' = {}
        BY <2>1, <2>3 DEF PInv, Unheard, responseVars
    <2>. QED
        BY <2>1, <2>2, <2>3, <2>4, <2>5 DEF ThreadSteps, responseVars, loopVars
<1>4. CASE Receive(r) \/ FoundClosed(r) \/ StopWaiting(r) \/ Leave(r)
    <2>1. UNCHANGED <<queueVars, loopVars>>
        BY <1>4 DEF Receive, FoundClosed, StopWaiting, Leave
    <2>2. \E to \in {http[r], "cancelling", "answered", "unregistered", "done"} :
             /\ http' = [http EXCEPT ![r] = to]
             /\ to = "unregistered" => StopWaiting(r)
             /\ http[r] \notin {"new", "registered", "unregistered"}
             /\ to = http[r] => http[r] = "receiving"
        <3>1. CASE Receive(r)
            <4>1. \/ http' = http \/ http' = [http EXCEPT ![r] = "cancelling"]
                  \/ http' = [http EXCEPT ![r] = "answered"]
                BY <3>1 DEF Receive
            <4>2. http[r] = "receiving" /\ http = [http EXCEPT ![r] = http[r]]
                BY <3>1 DEF Receive, PInv, IInv, TypeOK, HttpTypeOK
            <4>. QED
                BY <4>1, <4>2
        <3>2. CASE FoundClosed(r)
            BY <3>2 DEF FoundClosed, Thread
        <3>3. CASE StopWaiting(r)
            BY <3>3 DEF StopWaiting, Thread
        <3>4. CASE Leave(r)
            BY <3>4 DEF Leave
        <3>. QED
            BY <1>4, <3>1, <3>2, <3>3, <3>4
    <2>3. /\ http[r] \notin {"new", "registered", "unregistered"}
          /\ http'[r] \in {"receiving", "cancelling", "answered", "unregistered", "done"}
          /\ http'[r] = "unregistered" => StopWaiting(r)
          /\ \A q \in Requests \ {r} : http'[q] = http[q]
        BY <1>0, <2>2, ThreadMoves DEF IInv, TypeOK, HttpTypeOK
    <2>4. Separate' /\ Hand' = Hand
        BY <2>1, HttpMovesNothing DEF PInv
    <2>5. waiting_task_ids' \subseteq waiting_task_ids
        BY <1>4 DEF Receive, FoundClosed, StopWaiting, Leave, TakeResult, RemoveAndPurge,
                    RemoveWaiting, responseVars
    <2>6. StopWaiting(r) => TasksOf(r) \cap waiting_task_ids' = {}
        BY DEF StopWaiting, RemoveAndPurge
    <2>. QED
        BY <2>1, <2>3, <2>4, <2>5, <2>6 DEF ThreadSteps, queueVars, loopVars, Pending
<1>. QED
    BY <1>1, <1>2, <1>3, <1>4 DEF Handle

LEMMA StutterKeepsPInv == ASSUME PInv, UNCHANGED <<queueVars, responseVars, loopVars, http>>, IInv' PROVE PInv'
<1>1. Separate' /\ Hand' = Hand
    BY HttpMovesNothing DEF PInv
<1>2. Pending' = Pending /\ cur' = cur /\ loop' = loop /\ waiting_task_ids' = waiting_task_ids
    BY DEF Pending, queueVars, responseVars, loopVars
<1>. QED
    BY <1>1, <1>2 DEF PInv, Submitted, Unheard, FailsOnly

LEMMA NextKeepsPInv == PInv /\ [Next]_vars => PInv'
<1> SUFFICES ASSUME PInv, [Next]_vars PROVE PInv'
    OBVIOUS
<1>1. IInv'
    BY NextHolds DEF PInv
<1>2. CASE start_loop
    BY <1>2, LoopKeepsPInv
<1>3. CASE UNCHANGED vars
    BY <1>1, <1>3, StutterKeepsPInv DEF vars, httpVars
<1>4. ASSUME NEW r \in Requests, Handle(r) PROVE PInv'
    <2>1. CASE TimeoutRetry(r)
        BY <1>3, <2>1 DEF TimeoutRetry
    <2>2. CASE ~TimeoutRetry(r)
        BY <1>1, <1>4, <2>2, HandleSteps, ThreadKeepsPInv
    <2>. QED
        BY <2>1, <2>2
<1>5. ASSUME NEW r \in Requests, Disconnect(r) PROVE PInv'
    BY <1>1, <1>5, StutterKeepsPInv DEF Disconnect
<1>. QED
    BY <1>2, <1>3, <1>4, <1>5 DEF Next, Quiescent

LEMMA InitPInv == Init => PInv
<1> SUFFICES ASSUME Init PROVE PInv
    OBVIOUS
<1>1. IInv
    BY InitHolds
<1>2. /\ queue_tasks = <<>> /\ queue_tasks_deferred = <<>> /\ cur = NextResponse
      /\ \A s \in Slots : ~Busy(s)
    BY DEF Init, QueueInit, FreshSlot, Busy
<1>3. Ids(<<>>) = {} /\ OnceIn(<<>>) /\ Work = {} /\ Pending = {}
    BY <1>2 DEF Ids, OnceIn, Work, Pending, Range
<1>4. cur.id = -1 /\ -1 \notin Tasks /\ cur.type # "CANCEL"
    BY <1>2, TaskShape
<1>5. Separate /\ Hand = {}
    BY <1>2, <1>3, <1>4 DEF Separate, Hand
<1>6. Submitted /\ Unheard /\ FailsOnly
    BY <1>3, <1>4, <1>5 DEF Submitted, Unheard, FailsOnly, Init
<1>. QED
    BY <1>1, <1>5, <1>6 DEF PInv

\* The strengthened invariant holds in every reachable state.
THEOREM PlacesInvariant == Spec => []PInv
    BY InitPInv, NextKeepsPInv, PTL DEF Spec

\* A set whose elements are all the same has at most one.
LEMMA AtMostOne ==
    ASSUME NEW S, \A x, y \in S : x = y
    PROVE  Cardinality(S) <= 1
<1>1. CASE S = {}
    BY <1>1, FS_EmptySet
<1>2. CASE S # {}
    <2>1. PICK x : S = {x}
        BY <1>2
    <2>. QED
        BY <2>1, FS_Singleton
<1>. QED
    BY <1>1, <1>2

LEMMA SeparateIsOnePlace == ASSUME PInv PROVE OnePlace
<1> SUFFICES ASSUME NEW t \in Tasks
             PROVE  Cardinality(
                 {<<"queue", i>> : i \in {j \in DOMAIN queue_tasks : queue_tasks[j].id = t}}
                 \cup {<<"deferred", i>> : i \in {j \in DOMAIN queue_tasks_deferred :
                                                   queue_tasks_deferred[j].id = t}}
                 \cup {<<"slot", s>> : s \in {u \in Slots : is_processing(u) /\ slots[u].id_task = t}}
                 \cup {<<"cur", 0>> : x \in {y \in {0} : cur.id = t}}) <= 1
    BY DEF OnePlace
<1> DEFINE Q == {j \in DOMAIN queue_tasks : queue_tasks[j].id = t}
           D == {j \in DOMAIN queue_tasks_deferred : queue_tasks_deferred[j].id = t}
           S == {u \in Slots : is_processing(u) /\ slots[u].id_task = t}
           C == {y \in {0} : cur.id = t}
<1>1. queue_tasks \in Seq(server_task) /\ queue_tasks_deferred \in Seq(server_task)
    BY DEF PInv, IInv, TypeOK, QueueTypeOK
<1>2. /\ Q # {} => t \in Ids(queue_tasks)
      /\ D # {} => t \in Ids(queue_tasks_deferred)
    BY <1>1, IdsAt
<1>3. /\ S # {} => t \in Work
      /\ C # {} => t = cur.id
    BY DEF Work, Busy, is_processing
<1>4. /\ \A i, j \in Q : i = j
      /\ \A i, j \in D : i = j
      /\ \A i, j \in S : i = j
      /\ \A i, j \in C : i = j
    BY DEF PInv, Separate, OnceIn, Busy, is_processing
<1>5. /\ Q # {} => D = {} /\ S = {} /\ C = {}
      /\ D # {} => Q = {} /\ S = {} /\ C = {}
      /\ S # {} => Q = {} /\ D = {} /\ C = {}
      /\ C # {} => Q = {} /\ D = {} /\ S = {}
    BY <1>2, <1>3 DEF PInv, Separate
<1> HIDE DEF Q, D, S, C
<1> DEFINE U == {<<"queue", i>> : i \in Q} \cup {<<"deferred", i>> : i \in D}
                   \cup {<<"slot", s>> : s \in S} \cup {<<"cur", 0>> : x \in C}
<1>6. \A x, y \in U : x = y
    BY <1>4, <1>5
<1>7. Cardinality(U) <= 1
    BY <1>6, AtMostOne
<1>. QED
    BY <1>7 DEF Q, D, S, C, U

\* A task of a client is in at most one place of the server at a time, whatever is
\* deferred, popped, cancelled or failed in between: it cannot run twice.
THEOREM TasksInOnePlace == Spec => []OnePlace
    BY PlacesInvariant, SeparateIsOnePlace, PTL

-----------------------------------------------------------------------------
(* LlamaServer implements TaskService.                                     *)

LEMMA InitIsServiceInit == Init => Service!ServiceInit
<1> SUFFICES ASSUME Init PROVE Service!ServiceInit
    OBVIOUS
<1>1. Unposted = Tasks
    BY DEF Init, Unposted
<1>2. InHand = {}
    <2>1. PInv /\ TypeOK /\ Work \subseteq Tasks
        BY InitPInv DEF PInv, IInv, Separate
    <2>2. InHand = Hand
        BY <2>1, HandIsInHand
    <2>3. Hand = {}
        BY <2>1 DEF Init, PInv, Submitted
    <2>. QED
        BY <2>2, <2>3
<1>. QED
    BY <1>1, <1>2 DEF Service!ServiceInit, Init, ResponseInit, Service!ResponseInit

\* Both modules have the same result queue, with the same operations.
LEMMA SameQueue ==
    /\ \A q, K : Service!KeepAt(q, K) = KeepAt(q, K)
    /\ \A q, i : Service!EraseAt(q, i) = EraseAt(q, i)
    /\ \A id, k : Service!Result(id, k) = Result(id, k)
<1>1. ASSUME NEW q, NEW K PROVE Service!KeepAt(q, K) = KeepAt(q, K)
    <2> DEFINE c(n) == CHOOSE i \in K : Service!Rank(K, i) = n
               d(n) == CHOOSE i \in K : Rank(K, i) = n
    <2>1. \A S : Service!Cardinality(S) = Cardinality(S)
        BY DEF Cardinality, Service!Cardinality
    <2>2. \A i : Service!Rank(K, i) = Rank(K, i)
        BY <2>1 DEF Rank, Service!Rank
    <2>3. ASSUME NEW n PROVE c(n) = d(n)
        BY <2>2
    <2>4. /\ KeepAt(q, K) = [n \in 1..Cardinality(K) |-> q[d(n)]]
          /\ Service!KeepAt(q, K) = [n \in 1..Service!Cardinality(K) |-> q[c(n)]]
        BY DEF KeepAt, Service!KeepAt
    <2> HIDE DEF c, d
    <2>. QED
        BY <2>1, <2>3, <2>4
<1>. QED
    BY <1>1 DEF EraseAt, Service!EraseAt, Result, Service!Result

\* The steps of TaskService, said of the variables of LlamaServer: a step nobody
\* notices, ...
LEMMA ServiceStutters ==
    ASSUME UNCHANGED <<responseVars, Unposted, InHand>>
    PROVE  UNCHANGED Service!serviceVars
    BY DEF Service!serviceVars, responseVars, Service!responseVars

\* ... ids that are announced or forgotten, ...
LEMMA ServiceIds ==
    ASSUME NEW ids \in SUBSET Tasks, UNCHANGED <<Unposted, InHand>>,
           \/ ids \subseteq Unposted /\ AddWaiting(ids)
           \/ RemoveWaiting(ids) \/ RemoveAndPurge(ids)
    PROVE  Service!ServiceNext
<1>1. CASE ids \subseteq Unposted /\ AddWaiting(ids)
    <2>1. Service!Announce(ids)
        BY <1>1 DEF Service!Announce, AddWaiting, Service!AddWaiting
    <2>. QED
        BY <2>1 DEF Service!ServiceNext
<1>2. CASE RemoveWaiting(ids) \/ RemoveAndPurge(ids)
    <2>1. Service!Forget(ids)
        BY <1>2, SameQueue DEF Service!Forget, RemoveWaiting, Service!RemoveWaiting,
                    RemoveAndPurge, Service!RemoveAndPurge
    <2>. QED
        BY <2>1 DEF Service!ServiceNext
<1>. QED
    BY <1>1, <1>2

\* ... tasks that are posted, ...
LEMMA ServicePosts ==
    ASSUME NEW ids \in SUBSET Tasks, ids \subseteq Unposted \cap waiting_task_ids,
           Unposted' = Unposted \ ids, InHand' = InHand \cup ids, UNCHANGED responseVars
    PROVE  Service!ServiceNext
<1>1. Service!PostTasks(ids)
    BY DEF Service!PostTasks, responseVars, Service!responseVars
<1>. QED
    BY <1>1 DEF Service!ServiceNext

\* ... a result that is received, ...
LEMMA ServiceTakes ==
    ASSUME NEW i \in DOMAIN queue_results, TakeResult(i), UNCHANGED <<Unposted, InHand>>
    PROVE  Service!ServiceNext
<1>1. Service!TakeOne
    BY SameQueue DEF Service!TakeOne, TakeResult, Service!TakeResult
<1>. QED
    BY <1>1 DEF Service!ServiceNext

\* Nothing happens when there is nothing to send.
LEMMA SendNothing ==
    ASSUME NEW S, queue_results \in Seq(S), Send(<<>>)
    PROVE  UNCHANGED responseVars
<1> DEFINE K == {i \in DOMAIN <<>> : <<>>[i].id \in waiting_task_ids}
<1>1. K = {}
    OBVIOUS
<1>2. KeepAt(<<>>, {}) = <<>>
    BY FS_EmptySet DEF KeepAt
<1>3. queue_results' = queue_results \o KeepAt(<<>>, K) /\ UNCHANGED waiting_task_ids
    BY DEF Send
<1>. QED
    BY <1>1, <1>2, <1>3 DEF responseVars

\* ... and what the main loop does when no decode fails.
LEMMA ServiceServes ==
    ASSUME IInv, Served, ~DecodeMayFail, InHand = Hand, InHand' = Hand', UNCHANGED Unposted
    PROVE  Service!ServiceNext \/ UNCHANGED Service!serviceVars
<1>0. ASSUME NEW t \in InHand, Service!Partial(t) \/ Service!Answer(t) \/ Service!Drop(t)
      PROVE  Service!ServiceNext
    <2>1. t \in Tasks
        BY DEF InHand
    <2>. QED
        BY <1>0, <2>1 DEF Service!Serve, Service!ServiceNext
<1>1. CASE Hand' = Hand /\ UNCHANGED responseVars
    BY <1>1, ServiceStutters
<1>2. ASSUME NEW t \in Hand, NEW text \in Texts(t), Hand' = Hand, Send(text)
      PROVE  Service!ServiceNext \/ UNCHANGED Service!serviceVars
    <2>1. CASE text = <<>>
        <3>1. UNCHANGED responseVars
            BY <1>2, <2>1, SendNothing DEF IInv, TypeOK, ResponseTypeOK
        <3>. QED
            BY <1>2, <3>1, ServiceStutters
    <2>2. CASE text = <<Result(t, "partial")>>
        <3>1. Service!Partial(t)
            BY <1>2, <2>2, SameQueue DEF Service!Partial, Send, Service!Send
        <3>. QED
            BY <1>0, <3>1
    <2>. QED
        BY <2>1, <2>2 DEF Texts
<1>3. ASSUME NEW t \in Hand, NEW text \in Texts(t), NEW k \in {"final", "error"},
             Hand' = Hand \ {t}, Send(text \o <<Result(t, k)>>)
      PROVE  Service!ServiceNext
    <2>1. Service!AnswerWith(t, text, k)
        BY <1>3, SameQueue DEF Service!AnswerWith, Send, Service!Send
    <2>2. text \in {<<>>, <<Service!Result(t, "partial")>>}
        BY SameQueue DEF Texts
    <2>3. Service!Answer(t)
        BY <2>1, <2>2 DEF Service!Answer
    <2>. QED
        BY <1>0, <2>3
<1>4. ASSUME NEW t \in Hand \ waiting_task_ids, Hand' = Hand \ {t}, UNCHANGED responseVars
      PROVE  Service!ServiceNext
    <2>1. Service!Drop(t)
        BY <1>4 DEF Service!Drop, responseVars, Service!responseVars
    <2>. QED
        BY <1>0, <2>1
<1>. QED
    BY <1>1, <1>2, <1>3, <1>4 DEF Served

\* Which tasks were posted depends on the threads, and only Submit changes it.
LEMMA SameUnposted ==
    ASSUME \A r \in Requests : http'[r] \in {"new", "registered"}
                                  <=> http[r] \in {"new", "registered"}
    PROVE  UNCHANGED Unposted
    BY DEF Unposted

LEMMA ServerStepIsServiceStep ==
    ASSUME PInv, PInv', [Next]_vars, ~DecodeMayFail
    PROVE  [Service!ServiceNext]_(Service!serviceVars)
<1>0. InHand = Hand /\ InHand' = Hand'
    BY HandIsInHand DEF PInv, IInv, Separate
<1>1. CASE start_loop
    <2>1. http' = http /\ UNCHANGED Unposted
        BY <1>1, StartLoopKeeps, SameUnposted DEF PInv, LoopKeeps
    <2>. QED
        BY <1>0, <1>1, <2>1, StartLoopServes, ServiceServes DEF LoopServes, PInv
<1>2. CASE UNCHANGED <<queueVars, responseVars, loopVars, http>>
    <2>1. Hand' = Hand /\ UNCHANGED Unposted
        BY <1>2, HttpMovesNothing, SameUnposted DEF PInv
    <2>. QED
        BY <1>0, <1>2, <2>1, ServiceStutters
<1>3. ASSUME NEW r \in Requests, Handle(r), ~TimeoutRetry(r)
      PROVE  Service!ServiceNext \/ UNCHANGED Service!serviceVars
    <2> USE DEF HttpStates
    <2>0. /\ \A q \in Requests \ {r} : http'[q] = http[q] /\ TasksOf(q) \cap TasksOf(r) = {}
          /\ TasksOf(r) \in SUBSET Tasks /\ http \in [Requests -> HttpStates]
        BY <1>3, HandleSteps, Constants DEF ThreadSteps, PInv, IInv, TypeOK, HttpTypeOK
    <2>1. CASE Register(r)
        <3>1. http[r] = "new" /\ http'[r] = "registered" /\ AddWaiting(TasksOf(r))
              /\ UNCHANGED <<queueVars, loopVars>>
            BY <2>0, <2>1 DEF Register, Thread
        <3>2. Hand' = Hand /\ UNCHANGED Unposted
            BY <2>0, <3>1, HttpMovesNothing, SameUnposted DEF PInv
        <3>3. TasksOf(r) \subseteq Unposted
            BY <2>0, <3>1 DEF Unposted
        <3>. QED
            BY <1>0, <2>0, <3>1, <3>2, <3>3, ServiceIds
    <2>2. CASE Submit(r)
        <3>1. http[r] = "registered" /\ http'[r] = "receiving" /\ UNCHANGED responseVars
            BY <2>0, <2>2 DEF Submit, Thread
        <3>2. Hand' = Hand \cup TasksOf(r)
            BY <2>2, SubmitAdds
        <3>3. TasksOf(r) \subseteq Unposted /\ Unposted' = Unposted \ TasksOf(r)
            BY <2>0, <3>1 DEF Unposted
        <3>4. TasksOf(r) \subseteq waiting_task_ids
            BY <3>1 DEF PInv, IInv, AnnouncedFor
        <3>. QED
            BY <1>0, <2>0, <3>1, <3>2, <3>3, <3>4, ServicePosts
    <2>3. CASE CancelTasks(r)
        <3>1. /\ http[r] = "unregistered" /\ http'[r] = "cancelled"
              /\ UNCHANGED responseVars
            BY <2>0, <2>3 DEF CancelTasks, Thread
        <3>2. Hand' = Hand /\ UNCHANGED Unposted
            BY <2>0, <2>3, <3>1, CancelTasksAdds, SameUnposted
        <3>. QED
            BY <1>0, <3>1, <3>2, ServiceStutters
    <2>4. CASE Receive(r) \/ FoundClosed(r) \/ StopWaiting(r) \/ Leave(r)
        <3>1. UNCHANGED <<queueVars, loopVars>>
            BY <2>4 DEF Receive, FoundClosed, StopWaiting, Leave
        <3>2. http[r] \notin {"new", "registered"} /\ http'[r] \notin {"new", "registered"}
            BY <2>0, <2>4 DEF Receive, FoundClosed, StopWaiting, Leave, Thread
        <3>3. Hand' = Hand /\ UNCHANGED Unposted
            BY <2>0, <3>1, <3>2, HttpMovesNothing, SameUnposted DEF PInv
        <3>4. \/ \E i \in DOMAIN queue_results : TakeResult(i)
              \/ RemoveWaiting(TasksOf(r)) \/ RemoveAndPurge(TasksOf(r))
              \/ UNCHANGED responseVars
            BY <2>4 DEF Receive, FoundClosed, StopWaiting, Leave
        <3>. QED
            BY <1>0, <2>0, <3>3, <3>4, ServiceTakes, ServiceIds, ServiceStutters
    <2>. QED
        BY <1>3, <2>1, <2>2, <2>3, <2>4 DEF Handle
<1>4. ASSUME NEW r \in Requests, TimeoutRetry(r) PROVE UNCHANGED vars
    BY <1>4 DEF TimeoutRetry
<1>5. ASSUME NEW r \in Requests, Disconnect(r)
      PROVE  UNCHANGED <<queueVars, responseVars, loopVars, http>>
    BY <1>5 DEF Disconnect
<1>6. UNCHANGED vars => UNCHANGED <<queueVars, responseVars, loopVars, http>>
    BY DEF vars, httpVars
<1>. QED
    BY <1>1, <1>2, <1>3, <1>4, <1>5, <1>6 DEF Next, Quiescent

\* As long as no decode fails, the server keeps its promise to the threads: through
\* all moves of a task between queues, main loop and slots they see it posted once
\* and answered once, or dropped when nobody waits for it.  A failed decode breaks
\* the promise: update_slots then sends an error for the last task of every slot.
THEOREM ServerImplementsService ==
    ASSUME ~DecodeMayFail
    PROVE  Spec => ImplementsService
<1>1. PInv /\ PInv' /\ [Next]_vars => [Service!ServiceNext]_(Service!serviceVars)
    BY ServerStepIsServiceStep
<1>. QED
    BY <1>1, InitIsServiceInit, PlacesInvariant, PTL DEF Spec, ImplementsService,
                                                         Service!ServiceSpec

-----------------------------------------------------------------------------
(***************************************************************************)
(* For every number of requests, tasks and slots: what the HTTP threads    *)
(* receive is right.  A request is answered with one result for each of    *)
(* its tasks, and a request that is over leaves nothing behind.            *)
(*                                                                         *)
(* A thread counts results and never looks at their ids, so the count is   *)
(* right only because no second final result of a task can be on its way:  *)
(* an answered task is not in the hands of the server, will not be posted  *)
(* again, and nothing stands behind its answer in the result queue.  After *)
(* a failed decode update_slots sends an error for the last task of every  *)
(* slot, also one that has ended; such an error is left out of account     *)
(* where decodes may fail, and the threads that count give up on it.       *)
(***************************************************************************)

\* Results that are sent for a task in hand only, and those that end it.
Sound == {x \in Sendable(Tasks) : x.kind = "error" => ~DecodeMayFail}
Ends  == {x \in Sound : x.kind # "partial"}

\* The tasks for which there may still be something to send.
Open == Hand \cup Unposted

\* What ends a task is the last thing sent for it.
Closed == LastOfId(queue_results, Ends, Sound, Open)

\* Only streamed tasks have partial results.
PartialsStreamed == \A x \in Results : x.kind = "partial" => Streamed(x.id)

\* Nothing comes for a task whose result was received.
Settled(t) == t \notin Open /\ \A x \in Results : x \in Sound => x.id # t
Heard(r) ==
    /\ received[r] \subseteq TasksOf(r)
    /\ Mode[r] # "single" \/ ~DecodeMayFail => \A t \in received[r] : Settled(t)

\* The count of results is the number of tasks that have one.
Counted(r) ==
    Mode[r] # "single" /\ http[r] \in {"new", "registered", "receiving"} =>
        n_finished[r] = Cardinality(received[r])

Answered(r) == http[r] = "answered" => received[r] = TasksOf(r)

\* A request that gave up or is over has no results in the queue, and nobody waits for
\* its tasks; a rerank request, which never gives its ids back, has all results.
NoneFor(r) == \A x \in Results : x.id \notin TasksOf(r)
Gone(r) ==
    /\ http[r] \in {"unregistered", "cancelled"} => NoneFor(r)
    /\ http[r] = "done" =>
          /\ ~DecodeMayFail => NoneFor(r)
          /\ \/ TasksOf(r) \cap waiting_task_ids = {}
             \/ Reranks(r) /\ Mode[r] # "single" /\ received[r] = TasksOf(r)

RequestInv(r) == Heard(r) /\ Counted(r) /\ Answered(r) /\ Gone(r)

AInv == PInv /\ Closed /\ PartialsStreamed /\ \A r \in Requests : RequestInv(r)

-----------------------------------------------------------------------------
(* What the main loop adds to the result queue.                            *)

LEMMA HandIsPosted == ASSUME PInv PROVE Hand \cap Unposted = {}
    BY DEF PInv, Submitted, Unposted

\* The results of res somebody waits for are appended, in their order.
LEMMA SendAppends ==
    ASSUME ResponseTypeOK, NEW res \in Seq(Sendable(Tasks \cup {-1})), Send(res),
           NEW F, LastOfId(res, Ends, Sound, F)
    PROVE  \E k \in Seq(Sendable(Tasks)) :
              /\ queue_results' = queue_results \o k
              /\ LastOfId(k, Ends, Sound, F)
              /\ \A x \in Range(k) : x \in Range(res) /\ x.id \in waiting_task_ids
<1> DEFINE K == {i \in DOMAIN res : res[i].id \in waiting_task_ids}
           k == KeepAt(res, K)
<1>1. K \in SUBSET DOMAIN res
    OBVIOUS
<1>2. /\ k \in Seq(Sendable(Tasks \cup {-1})) /\ LastOfId(k, Ends, Sound, F)
    BY <1>1, LastKept
<1>3. Range(k) = {res[i] : i \in K}
    BY <1>1, KeepAtProperties
<1>4. \A x \in Range(k) : x \in Range(res) /\ x.id \in waiting_task_ids
    BY <1>3 DEF Range
<1>5. Range(k) \subseteq Sendable(Tasks)
    <2>1. Range(res) \subseteq Sendable(Tasks \cup {-1})
        BY InRange
    <2>. QED
        BY <1>4, <2>1 DEF Sendable, ResponseTypeOK
<1>6. k \in Seq(Sendable(Tasks))
    <2>1. k \in Seq(Range(k))
        BY <1>2, SeqOfRange
    <2>. QED
        BY <1>5, <2>1
<1>7. queue_results' = queue_results \o k
    BY DEF Send
<1>. QED
    BY <1>2, <1>4, <1>6, <1>7

\* The main loop sends for a task in hand only, nothing behind the end of a task, and
\* text of streamed tasks only.
Sends(k) ==
    /\ queue_results' = queue_results \o k
    /\ LastOfId(k, Ends, Sound, Open')
    /\ \A x \in Range(k) : /\ x.id \in waiting_task_ids
                           /\ x \in Sound => x.id \in Open
                           /\ x.kind = "partial" => Streamed(x.id)

LEMMA SendsFor ==
    ASSUME PInv, NEW t \in Hand, NEW res \in Seq(Sendable(Tasks \cup {-1})), Send(res),
           \A i \in DOMAIN res : /\ res[i].id = t
                                 /\ res[i].kind = "partial" => Streamed(t)
                                 /\ res[i].kind # "partial" =>
                                       t \notin Open' /\ \A j \in DOMAIN res : j <= i
    PROVE  \E k \in Seq(Sendable(Tasks)) : Sends(k)
<1>1. t \in Open /\ ResponseTypeOK
    BY DEF Open, PInv, IInv, TypeOK
<1>2. LastOfId(res, Ends, Sound, Open')
    BY DEF LastOfId, Ends
<1>3. \A x \in Range(res) : x.id = t /\ (x.kind = "partial" => Streamed(x.id))
    BY DEF Range
<1>4. PICK k \in Seq(Sendable(Tasks)) :
          /\ queue_results' = queue_results \o k
          /\ LastOfId(k, Ends, Sound, Open')
          /\ \A x \in Range(k) : x \in Range(res) /\ x.id \in waiting_task_ids
    BY <1>1, <1>2, SendAppends
<1>. QED
    BY <1>1, <1>3, <1>4 DEF Sends

LEMMA NothingSent ==
    ASSUME PInv, UNCHANGED queue_results
    PROVE  \E k \in Seq(Sendable(Tasks)) : Sends(k)
<1>1. queue_results' = queue_results \o <<>>
    BY DEF PInv, IInv, TypeOK, ResponseTypeOK
<1>2. Sends(<<>>)
    BY <1>1 DEF Sends, LastOfId, Range
<1>3. <<>> \in Seq(Sendable(Tasks))
    OBVIOUS
<1>. QED
    BY <1>2, <1>3

LEMMA ServedSends ==
    ASSUME PInv, Served, UNCHANGED Unposted
    PROVE  /\ Open' \subseteq Open /\ waiting_task_ids' = waiting_task_ids
           /\ \E k \in Seq(Sendable(Tasks)) : Sends(k)
<1>0. \A t \in Hand, k \in ResultKinds : Result(t, k) \in Sendable(Tasks \cup {-1})
    BY IdsAt DEF Hand, PInv, Separate, IInv, TypeOK, QueueTypeOK, Sendable, Result
<1>1. Open' \subseteq Open /\ waiting_task_ids' = waiting_task_ids
    BY DEF Served, Open, Send, responseVars
<1>2. CASE UNCHANGED responseVars
    BY <1>1, <1>2, NothingSent DEF responseVars
<1>3. ASSUME NEW t \in Hand, NEW text \in Texts(t), Send(text)
      PROVE  \E k \in Seq(Sendable(Tasks)) : Sends(k)
    <2>1. text = <<>> \/ (text = <<Result(t, "partial")>> /\ Streamed(t))
        BY DEF Texts
    <2>2. /\ text \in Seq(Sendable(Tasks \cup {-1}))
          /\ \A i \in DOMAIN text : text[i] = Result(t, "partial") /\ Streamed(t)
        <3>1. Result(t, "partial") \in Sendable(Tasks \cup {-1})
            BY <1>0 DEF ResultKinds
        <3> DEFINE p == Result(t, "partial")
        <3>2. p \in Sendable(Tasks \cup {-1}) /\ (text = <<>> \/ (text = <<p>> /\ Streamed(t)))
            BY <2>1, <3>1
        <3> HIDE DEF p
        <3>3. \A i \in DOMAIN text : text[i] = p /\ Streamed(t)
            BY <3>2
        <3>4. <<>> \in Seq(Sendable(Tasks \cup {-1})) /\ <<p>> \in Seq(Sendable(Tasks \cup {-1}))
            BY <3>2
        <3>. QED
            BY <3>2, <3>3, <3>4 DEF p
    <2>3. \A i \in DOMAIN text : text[i].id = t /\ text[i].kind = "partial" /\ Streamed(t)
        BY <2>2 DEF Result
    <2>. QED
        BY <1>3, <2>2, <2>3, SendsFor
<1>4. ASSUME NEW t \in Hand, NEW text \in Texts(t), NEW e \in {"final", "error"},
             Hand' = Hand \ {t}, Send(text \o <<Result(t, e)>>)
      PROVE  \E k \in Seq(Sendable(Tasks)) : Sends(k)
    <2> DEFINE p == Result(t, "partial")
               x == Result(t, e)
               res == text \o <<x>>
    <2>1. t \notin Open'
        BY <1>4, HandIsPosted DEF Open
    <2>2. p \in Sendable(Tasks \cup {-1}) /\ x \in Sendable(Tasks \cup {-1})
        BY <1>0 DEF ResultKinds
    <2>3. p.id = t /\ p.kind = "partial" /\ x.id = t /\ x.kind # "partial" /\ Send(res)
        BY <1>4 DEF Result
    <2>4. text = <<>> \/ (text = <<p>> /\ Streamed(t))
        BY DEF Texts
    <2> HIDE DEF p, x
    <2>5. /\ res \in Seq(Sendable(Tasks \cup {-1}))
          /\ \/ DOMAIN res = {1} /\ res[1] = x
             \/ DOMAIN res = {1, 2} /\ res[1] = p /\ res[2] = x /\ Streamed(t)
        <3>1. CASE text = <<>>
            BY <2>2, <3>1, ShortSequences
        <3>2. CASE text = <<p>> /\ Streamed(t)
            BY <2>2, <3>2, ShortSequences
        <3>. QED
            BY <2>4, <3>1, <3>2
    <2> HIDE DEF res
    <2>6. \A i \in DOMAIN res : /\ res[i].id = t
                                /\ res[i].kind = "partial" => Streamed(t)
                                /\ res[i].kind # "partial" =>
                                      t \notin Open' /\ \A j \in DOMAIN res : j <= i
        BY <2>1, <2>3, <2>5
    <2>7. Send(res) /\ res \in Seq(Sendable(Tasks \cup {-1}))
        BY <2>3, <2>5
    <2>. QED
        BY <2>6, <2>7, SendsFor
<1>5. ASSUME DecodeMayFail, NEW t \in Tasks \cup {-1}, Send(<<Result(t, "error")>>)
      PROVE  \E k \in Seq(Sendable(Tasks)) : Sends(k)
    <2> DEFINE res == <<Result(t, "error")>>
    <2>1. res \in Seq(Sendable(Tasks \cup {-1})) /\ ResponseTypeOK
        BY DEF Sendable, Result, ResultKinds, PInv, IInv, TypeOK
    <2>2. \A x \in Range(res) : x \notin Sound /\ x.kind = "error"
        BY <1>5 DEF Range, Sound, Result
    <2>3. LastOfId(res, Ends, Sound, Open')
        BY <2>2 DEF LastOfId, Ends, Range
    <2>4. Send(res)
        BY <1>5
    <2> HIDE DEF res
    <2>5. PICK k \in Seq(Sendable(Tasks)) :
              /\ queue_results' = queue_results \o k
              /\ LastOfId(k, Ends, Sound, Open')
              /\ \A x \in Range(k) : x \in Range(res) /\ x.id \in waiting_task_ids
        BY <2>1, <2>3, <2>4, SendAppends
    <2>. QED
        BY <2>2, <2>5 DEF Sends
<1>. QED
    BY <1>1, <1>2, <1>3, <1>4, <1>5 DEF Served

\* The main loop leaves the threads' own state alone.
LEMMA LoopLeavesThreads == ASSUME start_loop PROVE UNCHANGED httpVars
<1>1. CASE process_single_task
    BY <1>1 DEF process_single_task, DeferTask, launch_slot_with_task, CancelRunning,
                ProcessNextResponse, ProcessQuery, ProcessSlotAction, Processed
<1>2. CASE update_slots
    <2>1. \A phase \in Phases : InUpdate(phase) => UNCHANGED httpVars
        BY DEF InUpdate
    <2>2. \E phase \in Phases : InUpdate(phase)
        BY <1>2 DEF update_slots, AllIdle, PostNextResponse, BatchSampled, PromptsBatched,
                    DecodeOk, DecodeRetry, DecodeFails, AllFailed, ViewDone, ContextFull,
                    SkipNoPrompt, SkipIncompatible, RejectPrompt, BatchPrompt, FailSlot,
                    SendEmbedding, SampleToken, AtPrompt, Phases
    <2>. QED
        BY <2>1, <2>2
<1>. QED
    BY <1>1, <1>2 DEF start_loop, TakeNext, TasksDrained, Wake

\* Nothing the main loop sends disturbs a request that has its results or gave up.
LEMMA LoopKeepsAInv == ASSUME AInv, PInv', start_loop PROVE AInv'
<1>1. /\ http' = http /\ received' = received /\ n_finished' = n_finished
      /\ UNCHANGED Unposted
    BY LoopLeavesThreads, SameUnposted DEF httpVars
<1>2. /\ Open' \subseteq Open /\ waiting_task_ids' = waiting_task_ids
      /\ \E k \in Seq(Sendable(Tasks)) : Sends(k)
    BY <1>1, StartLoopServes, ServedSends DEF AInv, LoopServes
<1>3. PICK k \in Seq(Sendable(Tasks)) : Sends(k)
    BY <1>2
<1>4. queue_results \in Seq(Sendable(Tasks))
    BY DEF AInv, PInv, IInv, TypeOK, ResponseTypeOK, Sendable
<1>5. \A j \in DOMAIN k : k[j] \in Sound => k[j].id \in Open
    BY <1>3 DEF Sends, Range
<1>6. Closed'
    <2>1. LastOfId(queue_results \o k, Ends, Sound, Open')
        BY <1>2, <1>3, <1>4, <1>5, LastAppended DEF Sends, AInv, Closed
    <2>. QED
        BY <1>3, <2>1 DEF Sends, Closed, Ends, Sound
<1>7. Results' = Results \cup Range(k)
    <2>1. Range(queue_results \o k) = Range(queue_results) \cup Range(k)
        BY <1>4, RangeOfConcat
    <2>. QED
        BY <1>3, <2>1 DEF Sends, Results
<1>8. PartialsStreamed'
    BY <1>3, <1>7 DEF Sends, AInv, PartialsStreamed, Streamed
<1>9. ASSUME NEW r \in Requests PROVE RequestInv(r)'
    <2>0. RequestInv(r)
        BY DEF AInv
    <2>1. \A t : Settled(t) => Settled(t)'
        BY <1>2, <1>3, <1>7 DEF Sends, Settled, Sound
    <2>2. Heard(r)'
        BY <1>1, <2>0, <2>1 DEF RequestInv, Heard
    <2>3. Counted(r)' /\ Answered(r)'
        BY <1>1, <2>0 DEF RequestInv, Counted, Answered
    <2>4. TasksOf(r) \cap waiting_task_ids = {} /\ NoneFor(r) => NoneFor(r)'
        BY <1>3, <1>7 DEF Sends, NoneFor
    <2>5. ASSUME http[r] = "done", ~DecodeMayFail PROVE NoneFor(r)'
        <3>1. NoneFor(r)
            BY <2>0, <2>5 DEF RequestInv, Gone
        <3>2. CASE TasksOf(r) \cap waiting_task_ids = {}
            BY <2>4, <3>1, <3>2
        <3>3. CASE received[r] = TasksOf(r)
            <4>1. \A t \in TasksOf(r) : t \notin Open
                BY <2>0, <2>5, <3>3 DEF RequestInv, Heard, Settled
            <4>2. \A x \in Range(k) : x \in Sound
                BY <1>3, <2>5, InRange DEF Sound
            <4>. QED
                BY <1>3, <1>7, <3>1, <4>1, <4>2 DEF Sends, NoneFor
        <3>. QED
            BY <2>0, <2>5, <3>2, <3>3 DEF RequestInv, Gone
    <2>6. http[r] \in {"unregistered", "cancelled"} => TasksOf(r) \cap waiting_task_ids = {}
        BY DEF AInv, PInv, Unheard
    <2>7. Gone(r)'
        BY <1>1, <1>2, <2>0, <2>4, <2>5, <2>6 DEF RequestInv, Gone
    <2>. QED
        BY <2>2, <2>3, <2>7 DEF RequestInv
<1>. QED
    BY <1>6, <1>8, <1>9 DEF AInv

-----------------------------------------------------------------------------
(* What the threads do.                                                    *)

\* A request has as many tasks as it posts: none is listed twice.
LEMMA TasksCounted ==
    ASSUME NEW r \in Requests
    PROVE  /\ IsFiniteSet(TasksOf(r)) /\ Cardinality(TasksOf(r)) = Len(ReqTasks[r])
           /\ \A S \in SUBSET TasksOf(r) :
                 /\ IsFiniteSet(S)
                 /\ Cardinality(S) = Len(ReqTasks[r]) => S = TasksOf(r)
<1> DEFINE n == Len(ReqTasks[r])
<1>1. ReqTasks[r] \in Seq(Tasks) /\ n \in Nat /\ DOMAIN ReqTasks[r] = 1..n
    BY Constants, LenProperties
<1>2. \A i, j \in 1..n : ReqTasks[r][i] = ReqTasks[r][j] => i = j
    BY <1>1, ServerAssumption
<1>3. TasksOf(r) = {ReqTasks[r][i] : i \in 1..n}
    BY <1>1 DEF TasksOf
<1>4. IsFiniteSet(1..n) /\ Cardinality(1..n) = n
    BY <1>1, FS_Interval
<1> DEFINE f == [i \in 1..n |-> ReqTasks[r][i]]
<1>5. f \in Surjection(1..n, TasksOf(r)) /\ f \in Injection(1..n, TasksOf(r))
    BY <1>2, <1>3 DEF Surjection, Injection, IsInjective
<1> HIDE DEF f, n
<1>6. IsFiniteSet(TasksOf(r)) /\ Cardinality(TasksOf(r)) = n
    BY <1>4, <1>5, FS_Surjection
<1>. QED
    BY <1>6, FS_Subset DEF n

\* A step of the thread of r may forget its ids and take results; for the other
\* requests that changes nothing.
ThreadTakes(r) ==
    /\ Open' \subseteq Open
    /\ \/ queue_results' = queue_results
       \/ \E K \in SUBSET DOMAIN queue_results : queue_results' = KeepAt(queue_results, K)
    /\ waiting_task_ids' \subseteq waiting_task_ids \cup TasksOf(r)
    /\ \A q \in Requests \ {r} : /\ http'[q] = http[q] /\ received'[q] = received[q]
                                 /\ n_finished'[q] = n_finished[q]

LEMMA FewerResults ==
    ASSUME AInv, NEW r \in Requests, ThreadTakes(r)
    PROVE  /\ Results' \subseteq Results /\ Closed' /\ PartialsStreamed'
           /\ \A t : Settled(t) => Settled(t)'
           /\ \A q \in Requests : NoneFor(q) => NoneFor(q)'
<1>1. queue_results \in Seq(Sendable(Tasks))
    BY DEF AInv, PInv, IInv, TypeOK, ResponseTypeOK, Sendable
<1>2. LastOfId(queue_results, Ends, Sound, Open')
    BY DEF AInv, Closed, ThreadTakes, LastOfId
<1>3. ASSUME queue_results' = queue_results PROVE Results' \subseteq Results /\ Closed'
    BY <1>2, <1>3 DEF Closed, Results
<1>4. ASSUME NEW K \in SUBSET DOMAIN queue_results, queue_results' = KeepAt(queue_results, K)
      PROVE  Results' \subseteq Results /\ Closed'
    <2>1. LastOfId(KeepAt(queue_results, K), Ends, Sound, Open')
        BY <1>1, <1>2, LastKept
    <2>2. Range(KeepAt(queue_results, K)) = {queue_results[i] : i \in K}
        BY <1>1, KeepAtProperties
    <2>3. Range(KeepAt(queue_results, K)) \subseteq Range(queue_results)
        BY <2>2 DEF Range
    <2>. QED
        BY <1>4, <2>1, <2>3 DEF Closed, Results
<1>5. Results' \subseteq Results /\ Closed'
    BY <1>3, <1>4 DEF ThreadTakes, Closed, Results
<1>6. PartialsStreamed'
    BY <1>5 DEF AInv, PartialsStreamed, Streamed
<1>. QED
    BY <1>5, <1>6 DEF ThreadTakes, Settled, NoneFor

LEMMA ThreadKeepsAInv ==
    ASSUME AInv, PInv', NEW r \in Requests, ThreadTakes(r), RequestInv(r)'
    PROVE  AInv'
<1>1. ASSUME NEW q \in Requests, q # r PROVE RequestInv(q)'
    <2>0. RequestInv(q) /\ TasksOf(q) \cap TasksOf(r) = {}
        BY <1>1, Constants DEF AInv
    <2>1. http'[q] = http[q] /\ received'[q] = received[q] /\ n_finished'[q] = n_finished[q]
        BY <1>1 DEF ThreadTakes
    <2>2. Heard(q)'
        BY <2>0, <2>1, FewerResults DEF RequestInv, Heard
    <2>3. Counted(q)' /\ Answered(q)'
        BY <2>0, <2>1 DEF RequestInv, Counted, Answered
    <2>4. TasksOf(q) \cap waiting_task_ids = {} => TasksOf(q) \cap waiting_task_ids' = {}
        BY <2>0 DEF ThreadTakes
    <2>5. Gone(q)'
        BY <2>0, <2>1, <2>4, FewerResults DEF RequestInv, Gone
    <2>. QED
        BY <2>2, <2>3, <2>5 DEF RequestInv
<1>2. \A q \in Requests : RequestInv(q)'
    BY <1>1
<1>. QED
    BY <1>2, FewerResults DEF AInv

\* Steps of a thread that post, announce or give up, and take no result.
LEMMA OpenKept ==
    ASSUME PInv, NEW r \in Requests, NEW to \in HttpStates, Thread(r, http[r], to),
           \/ /\ Hand' = Hand
              /\ to \in {"new", "registered"} <=> http[r] \in {"new", "registered"}
           \/ /\ Hand' = Hand \cup TasksOf(r)
              /\ http[r] = "registered" /\ to = "receiving"
    PROVE  Open' \subseteq Open
<1>1. http'[r] = to /\ \A q \in Requests \ {r} : http'[q] = http[q]
    BY ThreadMoves DEF Thread, PInv
<1>2. \A q \in Requests : http'[q] \in {"new", "registered"} => http[q] \in {"new", "registered"}
    BY <1>1
<1>3. Unposted' \subseteq Unposted
    BY <1>2 DEF Unposted
<1>4. ASSUME http[r] = "registered" PROVE TasksOf(r) \subseteq Unposted
    BY <1>4, Constants DEF Unposted
<1>. QED
    BY <1>3, <1>4 DEF Open

\* A thread that takes no result keeps what is known of its own.
LEMMA RequestSteps ==
    ASSUME AInv, NEW r \in Requests, ThreadTakes(r), received'[r] = received[r],
           n_finished'[r] = n_finished[r],
           http'[r] \in {"new", "registered", "receiving"} =>
               http[r] \in {"new", "registered", "receiving"},
           http'[r] # "answered", Gone(r)'
    PROVE  RequestInv(r)'
<1>0. RequestInv(r)
    BY DEF AInv
<1>1. Heard(r)'
    BY <1>0, FewerResults DEF RequestInv, Heard
<1>2. Counted(r)' /\ Answered(r)'
    BY <1>0 DEF RequestInv, Counted, Answered
<1>. QED
    BY <1>1, <1>2 DEF RequestInv

LEMMA PostingKeeps ==
    ASSUME AInv, NEW r \in Requests, Register(r) \/ Submit(r) \/ CancelTasks(r)
    PROVE  ThreadTakes(r) /\ RequestInv(r)'
<1>0. IInv /\ PInv
    BY DEF AInv, PInv
<1>1. /\ received' = received /\ n_finished' = n_finished
      /\ queue_results' = queue_results
      /\ waiting_task_ids' \subseteq waiting_task_ids \cup TasksOf(r)
    BY DEF Register, Submit, CancelTasks, AddWaiting, responseVars
<1>2. PICK to \in HttpStates : Thread(r, http[r], to)
    BY DEF Register, Submit, CancelTasks, Thread, HttpStates
<1>3. http'[r] = to /\ \A q \in Requests \ {r} : http'[q] = http[q]
    BY <1>0, <1>2, ThreadMoves DEF Thread
<1>4. Open' \subseteq Open
    <2>1. CASE Register(r)
        <3>1. Hand' = Hand
            BY <1>0, <2>1, HttpMovesNothing DEF Register, PInv
        <3>2. http[r] = "new" /\ to = "registered"
            BY <1>3, <2>1, ThreadMoves, <1>0 DEF Register, Thread, HttpStates
        <3>. QED
            BY <1>0, <1>2, <3>1, <3>2, OpenKept
    <2>2. CASE Submit(r)
        <3>1. Hand' = Hand \cup TasksOf(r)
            BY <1>0, <2>2, SubmitAdds
        <3>2. http[r] = "registered" /\ to = "receiving"
            BY <1>3, <2>2, ThreadMoves, <1>0 DEF Submit, Thread, HttpStates
        <3>. QED
            BY <1>0, <1>2, <3>1, <3>2, OpenKept
    <2>3. CASE CancelTasks(r)
        <3>1. Hand' = Hand
            BY <1>0, <2>3, CancelTasksAdds
        <3>2. http[r] = "unregistered" /\ to = "cancelled"
            BY <1>3, <2>3, ThreadMoves, <1>0 DEF CancelTasks, Thread, HttpStates
        <3>. QED
            BY <1>0, <1>2, <3>1, <3>2, OpenKept
    <2>. QED
        BY <2>1, <2>2, <2>3
<1>5. ThreadTakes(r)
    BY <1>1, <1>3, <1>4 DEF ThreadTakes
<1>6. \/ http[r] = "unregistered" /\ http'[r] = "cancelled"
      \/ http[r] \in {"new", "registered"} /\ http'[r] \in {"registered", "receiving"}
    BY <1>0, ThreadMoves DEF Register, Submit, CancelTasks, Thread, HttpStates
<1>7. Gone(r)'
    BY <1>5, <1>6, FewerResults DEF AInv, RequestInv, Gone
<1>. QED
    BY <1>1, <1>5, <1>6, <1>7, RequestSteps

\* The steps of a thread that move no task.
LEMMA HttpKeepsOpen ==
    ASSUME PInv, NEW r \in Requests,
           Receive(r) \/ FoundClosed(r) \/ StopWaiting(r) \/ Leave(r)
    PROVE  Open' = Open
<1>1. UNCHANGED <<queueVars, loopVars>>
    BY DEF Receive, FoundClosed, StopWaiting, Leave
<1>2. http \in [Requests -> HttpStates]
    BY DEF PInv, IInv, TypeOK, HttpTypeOK
<1>3. \A q \in Requests : http'[q] \in {"new", "registered"} <=> http[q] \in {"new", "registered"}
    BY <1>2 DEF Receive, FoundClosed, StopWaiting, Leave, Thread
<1>. QED
    BY <1>1, <1>3, HttpMovesNothing, SameUnposted DEF PInv, Open

LEMMA StopWaitingTakes ==
    ASSUME AInv, NEW r \in Requests, StopWaiting(r)
    PROVE  ThreadTakes(r) /\ RequestInv(r)'
<1>0. IInv /\ PInv
    BY DEF AInv, PInv
<1>1. /\ http'[r] = "unregistered" /\ \A q \in Requests \ {r} : http'[q] = http[q]
    BY <1>0, ThreadMoves DEF StopWaiting, Thread, HttpStates
<1>2. received' = received /\ n_finished' = n_finished /\ RemoveAndPurge(TasksOf(r))
    BY DEF StopWaiting
<1>3. Open' = Open
    BY <1>0, HttpKeepsOpen
<1>4. ThreadTakes(r)
    BY <1>1, <1>2, <1>3 DEF ThreadTakes, RemoveAndPurge
<1>5. Results' = {x \in Results : x.id \notin TasksOf(r)}
    BY <1>0, <1>2, PurgeKeeps DEF IInv, TypeOK, ResponseTypeOK
<1>6. Gone(r)'
    BY <1>1, <1>5 DEF Gone, NoneFor
<1>. QED
    BY <1>1, <1>2, <1>4, <1>6, RequestSteps

LEMMA FoundClosedTakes ==
    ASSUME AInv, NEW r \in Requests, FoundClosed(r)
    PROVE  ThreadTakes(r) /\ RequestInv(r)'
<1>0. IInv /\ PInv
    BY DEF AInv, PInv
<1>1. /\ http'[r] = "cancelling" /\ \A q \in Requests \ {r} : http'[q] = http[q]
    BY <1>0, ThreadMoves DEF FoundClosed, Thread, HttpStates
<1>2. received' = received /\ n_finished' = n_finished
    BY DEF FoundClosed
<1>3. Open' = Open
    BY <1>0, HttpKeepsOpen
<1>4. /\ waiting_task_ids' = waiting_task_ids
      /\ \/ queue_results' = queue_results
         \/ \E i \in DOMAIN queue_results :
               queue_results' = KeepAt(queue_results, DOMAIN queue_results \ {i})
    BY DEF FoundClosed, responseVars, TakeResult, EraseAt
<1>5. ThreadTakes(r)
    BY <1>1, <1>2, <1>3, <1>4 DEF ThreadTakes
<1>6. Gone(r)'
    BY <1>1 DEF Gone
<1>. QED
    BY <1>1, <1>2, <1>5, <1>6, RequestSteps

\* A request that leaves has given its ids back, or it has all its results and no more
\* will come.
LEMMA LeaveTakes ==
    ASSUME AInv, NEW r \in Requests, Leave(r)
    PROVE  ThreadTakes(r) /\ RequestInv(r)'
<1>0. IInv /\ PInv /\ RequestInv(r)
    BY DEF AInv, PInv
<1>1. /\ http'[r] = "done" /\ \A q \in Requests \ {r} : http'[q] = http[q]
    BY <1>0, ThreadMoves DEF Leave, HttpStates
<1>2. /\ received' = received /\ n_finished' = n_finished
      /\ http[r] \in {"answered", "cancelled"}
    BY DEF Leave
<1>3. Open' = Open
    BY <1>0, HttpKeepsOpen
<1>4. /\ waiting_task_ids' \subseteq waiting_task_ids
      /\ \/ queue_results' = queue_results
         \/ \E K \in SUBSET DOMAIN queue_results : queue_results' = KeepAt(queue_results, K)
    BY DEF Leave, RemoveAndPurge, RemoveWaiting, responseVars
<1>5. ThreadTakes(r)
    BY <1>1, <1>2, <1>3, <1>4 DEF ThreadTakes
<1>6. CASE Mode[r] = "single"
    <2>1. RemoveAndPurge(TasksOf(r))
        BY <1>6 DEF Leave
    <2>2. Results' = {x \in Results : x.id \notin TasksOf(r)}
        BY <1>0, <2>1, PurgeKeeps DEF IInv, TypeOK, ResponseTypeOK
    <2>3. Gone(r)'
        BY <1>1, <2>1, <2>2 DEF Gone, NoneFor, RemoveAndPurge
    <2>. QED
        BY <1>1, <1>2, <1>5, <2>3, RequestSteps
<1>7. CASE Mode[r] # "single"
    <2>1. ASSUME ~DecodeMayFail PROVE NoneFor(r)
        <3>1. CASE http[r] = "cancelled"
            BY <1>0, <3>1 DEF RequestInv, Gone
        <3>2. CASE http[r] = "answered"
            <4>1. \A t \in TasksOf(r) : Settled(t)
                BY <1>0, <1>7, <3>2 DEF RequestInv, Answered, Heard
            <4>2. \A x \in Results : x \in Sound
                BY <1>0, <2>1, InRange DEF IInv, TypeOK, ResponseTypeOK, Results, Sound, Sendable
            <4>. QED
                BY <4>1, <4>2 DEF Settled, NoneFor
        <3>. QED
            BY <1>2, <3>1, <3>2
    <2>2. \/ TasksOf(r) \cap waiting_task_ids' = {}
          \/ Reranks(r) /\ received[r] = TasksOf(r)
        <3>1. CASE ~Reranks(r)
            BY <1>7, <3>1 DEF Leave, RemoveWaiting
        <3>2. CASE Reranks(r) /\ http[r] = "answered"
            BY <1>0, <3>2 DEF RequestInv, Answered
        <3>3. CASE http[r] = "cancelled"
            BY <1>0, <1>4, <3>3 DEF PInv, Unheard
        <3>. QED
            BY <1>2, <3>1, <3>2, <3>3
    <2>3. Gone(r)'
        BY <1>1, <1>2, <1>5, <1>7, <2>1, <2>2, FewerResults DEF Gone
    <2>. QED
        BY <1>1, <1>2, <1>5, <2>3, RequestSteps
<1>. QED
    BY <1>6, <1>7

\* The result a thread takes is the only one for its task, if it ends the task.
LEMMA TakenSettles ==
    ASSUME AInv, NEW r \in Requests, NEW i \in DOMAIN queue_results,
           IsFirstFor(i, TasksOf(r)), TakeResult(i), Open' = Open,
           queue_results[i] \in Ends, NEW t, t = queue_results[i].id
    PROVE  Settled(t)'
<1> DEFINE K == DOMAIN queue_results \ {i}
<1>1. queue_results \in Seq(Sendable(Tasks))
    BY DEF AInv, PInv, IInv, TypeOK, ResponseTypeOK, Sendable
<1>2. /\ t \notin Open
      /\ \A j \in DOMAIN queue_results :
            queue_results[j] \in Sound /\ queue_results[j].id = t => j <= i
    BY DEF AInv, Closed, LastOfId
<1>3. /\ t \in TasksOf(r) /\ i \in Nat
      /\ \A j \in DOMAIN queue_results : queue_results[j].id \in TasksOf(r) => i <= j
    BY <1>1 DEF IsFirstFor, Matches
<1>4. \A j \in K : queue_results[j] \in Sound => queue_results[j].id # t
    <2> SUFFICES ASSUME NEW j \in K, queue_results[j] \in Sound, queue_results[j].id = t
                 PROVE  FALSE
        OBVIOUS
    <2>1. j <= i /\ i <= j /\ j \in Nat /\ j # i
        BY <1>1, <1>2, <1>3
    <2>. QED
        BY <1>3, <2>1
<1>5. Range(KeepAt(queue_results, K)) = {queue_results[j] : j \in K}
    BY <1>1, KeepAtProperties
<1>6. queue_results' = KeepAt(queue_results, K)
    BY DEF TakeResult, EraseAt
<1>7. \A x \in Results' : x \in Sound => x.id # t
    BY <1>4, <1>5, <1>6 DEF Results
<1>8. t \notin Open' /\ Sound' = Sound
    BY <1>2 DEF Sound
<1>. QED
    BY <1>7, <1>8 DEF Settled

LEMMA ReceiveTakes ==
    ASSUME AInv, NEW r \in Requests, Receive(r)
    PROVE  ThreadTakes(r) /\ RequestInv(r)'
<1>0. IInv /\ PInv /\ RequestInv(r)
    BY DEF AInv, PInv
<1>1. PICK i \in DOMAIN queue_results :
        LET res == queue_results[i]
            n == n_finished[r] + (IF res.kind = "final" THEN 1 ELSE 0)
        IN  /\ IsFirstFor(i, TasksOf(r))
            /\ TakeResult(i)
            /\ \/ /\ res.kind = "error" /\ Mode[r] # "single"
                  /\ http' = [http EXCEPT ![r] = "cancelling"]
                  /\ UNCHANGED <<received, n_finished>>
               \/ /\ res.kind # "error" \/ Mode[r] = "single"
                  /\ received' = IF res.kind = "partial" THEN received
                                 ELSE [received EXCEPT ![r] = @ \cup {res.id}]
                  /\ n_finished' = [n_finished EXCEPT ![r] = n]
                  /\ http' = IF n = Len(ReqTasks[r]) \/ Mode[r] = "single"
                             THEN [http EXCEPT ![r] = "answered"] ELSE http
    BY DEF Receive
<1>2. PICK res : res = queue_results[i]
    OBVIOUS
<1>3. /\ http \in [Requests -> HttpStates] /\ received \in [Requests -> SUBSET Tasks]
      /\ n_finished \in [Requests -> Nat] /\ http[r] = "receiving" /\ Open' = Open
    BY <1>0, HttpKeepsOpen DEF IInv, TypeOK, HttpTypeOK, Receive
<1>4. res \in Sendable(Tasks) /\ res \in Results /\ res.id \in TasksOf(r)
    BY <1>0, <1>1, <1>2, InRange DEF IInv, TypeOK, ResponseTypeOK, Sendable, Results,
                                     IsFirstFor, Matches, Range
<1>5. ThreadTakes(r)
    <2>1. /\ waiting_task_ids' = waiting_task_ids
          /\ queue_results' = KeepAt(queue_results, DOMAIN queue_results \ {i})
        BY <1>1 DEF TakeResult, EraseAt
    <2>2. \A q \in Requests \ {r} : /\ http'[q] = http[q] /\ received'[q] = received[q]
                                    /\ n_finished'[q] = n_finished[q]
        BY <1>1, <1>3
    <2>. QED
        BY <1>3, <2>1, <2>2 DEF ThreadTakes
<1>6. CASE http' = [http EXCEPT ![r] = "cancelling"] /\ UNCHANGED <<received, n_finished>>
    <2>1. http'[r] = "cancelling" /\ received'[r] = received[r] /\ n_finished'[r] = n_finished[r]
        BY <1>3, <1>6
    <2>2. Gone(r)'
        BY <2>1 DEF Gone
    <2>. QED
        BY <1>5, <2>1, <2>2, RequestSteps
<1>7. CASE res.kind = "partial"
    <2>1. Mode[r] # "single"
        <3>1. PICK q \in Requests : Mode[q] = "stream" /\ res.id \in TasksOf(q)
            BY <1>4, <1>7 DEF AInv, PartialsStreamed, Streamed
        <3>2. q = r
            BY <1>4, <3>1, Constants
        <3>. QED
            BY <3>1, <3>2
    <2>2. /\ received' = received
          /\ n_finished' = [n_finished EXCEPT ![r] = n_finished[r] + 0]
          /\ http' = IF n_finished[r] + 0 = Len(ReqTasks[r])
                     THEN [http EXCEPT ![r] = "answered"] ELSE http
        BY <1>1, <1>2, <1>7, <2>1
    <2>3. /\ n_finished'[r] = n_finished[r]
          /\ http'[r] = "receiving" \/ (http'[r] = "answered" /\ n_finished[r] = Len(ReqTasks[r]))
        BY <1>3, <2>2
    <2>4. n_finished[r] = Cardinality(received[r]) /\ received[r] \subseteq TasksOf(r)
        BY <1>0, <1>3, <2>1 DEF RequestInv, Counted, Heard
    <2>5. Heard(r)'
        BY <1>0, <1>5, <2>2, FewerResults DEF RequestInv, Heard
    <2>6. Counted(r)'
        BY <2>2, <2>3, <2>4 DEF Counted
    <2>7. Answered(r)'
        BY <2>2, <2>3, <2>4, TasksCounted DEF Answered
    <2>8. Gone(r)'
        BY <2>3 DEF Gone
    <2>. QED
        BY <1>5, <2>5, <2>6, <2>7, <2>8 DEF RequestInv
<1>8. CASE res.kind # "partial" /\ (res.kind # "error" \/ Mode[r] = "single")
    <2>0. received[r] \subseteq TasksOf(r) /\ IsFiniteSet(received[r])
        BY <1>0, TasksCounted DEF RequestInv, Heard
    <2>1. received'[r] = received[r] \cup {res.id}
        BY <1>1, <1>2, <1>3, <1>8
    <2>2. Mode[r] # "single" \/ ~DecodeMayFail => res \in Ends
        BY <1>4, <1>8 DEF Ends, Sound
    <2>3. res \in Ends => Settled(res.id)'
        BY <1>1, <1>2, <1>3, TakenSettles
    <2>4. Heard(r)'
        BY <1>0, <1>4, <1>5, <2>1, <2>2, <2>3, FewerResults DEF RequestInv, Heard
    <2>5. CASE Mode[r] = "single"
        <3>1. http'[r] = "answered"
            BY <1>1, <1>3, <1>8, <2>5
        <3>2. received'[r] = TasksOf(r)
            <4>1. Len(ReqTasks[r]) = 1 /\ ReqTasks[r] \in Seq(Tasks)
                BY <2>5, ServerAssumption
            <4>2. TasksOf(r) = {ReqTasks[r][1]}
                BY <4>1 DEF TasksOf
            <4>. QED
                BY <1>4, <2>0, <2>1, <4>2
        <3>3. Counted(r)' /\ Answered(r)' /\ Gone(r)'
            BY <2>5, <3>1, <3>2 DEF Counted, Answered, Gone
        <3>. QED
            BY <1>5, <2>4, <3>3 DEF RequestInv
    <2>6. CASE Mode[r] # "single"
        <3>1. res.kind = "final"
            BY <1>4, <1>8, <2>6 DEF Sendable, ResultKinds
        <3>2. /\ n_finished' = [n_finished EXCEPT ![r] = n_finished[r] + 1]
              /\ http' = IF n_finished[r] + 1 = Len(ReqTasks[r])
                         THEN [http EXCEPT ![r] = "answered"] ELSE http
            BY <1>1, <1>2, <2>6, <3>1
        <3>3. /\ n_finished'[r] = n_finished[r] + 1
              /\ \/ http'[r] = "receiving"
                 \/ http'[r] = "answered" /\ n_finished'[r] = Len(ReqTasks[r])
            BY <1>3, <3>2
        <3>4. res.id \notin received[r]
            BY <1>0, <1>4, <2>2, <2>6 DEF RequestInv, Heard, Settled, Ends
        <3>5. n_finished[r] = Cardinality(received[r])
            BY <1>0, <1>3, <2>6 DEF RequestInv, Counted
        <3>6. n_finished'[r] = Cardinality(received'[r])
            BY <2>0, <2>1, <3>3, <3>4, <3>5, FS_AddElement
        <3>7. received'[r] \subseteq TasksOf(r)
            BY <1>4, <2>0, <2>1
        <3>8. Counted(r)' /\ Gone(r)'
            BY <3>3, <3>6 DEF Counted, Gone
        <3>9. Answered(r)'
            BY <3>3, <3>6, <3>7, TasksCounted DEF Answered
        <3>. QED
            BY <1>5, <2>4, <3>8, <3>9 DEF RequestInv
    <2>. QED
        BY <2>5, <2>6
<1>. QED
    BY <1>1, <1>2, <1>6, <1>7, <1>8

-----------------------------------------------------------------------------
(* The invariant and what follows from it.                                 *)

LEMMA StutterKeepsAInv ==
    ASSUME AInv, PInv', UNCHANGED <<queueVars, responseVars, loopVars, http, received, n_finished>>
    PROVE  AInv'
<1>1. Open' = Open
    BY HttpMovesNothing, SameUnposted DEF AInv, PInv, Open
<1>2. queue_results' = queue_results /\ waiting_task_ids' = waiting_task_ids
    BY DEF responseVars
<1>3. Closed' /\ PartialsStreamed'
    BY <1>1, <1>2 DEF AInv, Closed, PartialsStreamed, Results, Streamed
<1>4. ASSUME NEW r \in Requests PROVE RequestInv(r)'
    <2>1. Heard(r)'
        BY <1>1, <1>2 DEF AInv, RequestInv, Heard, Settled, Results
    <2>2. Counted(r)' /\ Answered(r)' /\ Gone(r)'
        BY <1>2 DEF AInv, RequestInv, Counted, Answered, Gone, NoneFor, Results
    <2>. QED
        BY <2>1, <2>2 DEF RequestInv
<1>. QED
    BY <1>3, <1>4 DEF AInv

LEMMA InitAInv == Init => AInv
<1> SUFFICES ASSUME Init PROVE AInv
    OBVIOUS
<1>1. PInv
    BY InitPInv
<1>2. queue_results = <<>> /\ Results = {}
    BY DEF Init, ResponseInit, Results, Range
<1>3. Closed /\ PartialsStreamed
    BY <1>2 DEF Closed, LastOfId, PartialsStreamed
<1>4. ASSUME NEW r \in Requests PROVE RequestInv(r)
    <2>1. http[r] = "new" /\ received[r] = {} /\ n_finished[r] = 0
        BY DEF Init
    <2>. QED
        BY <2>1, FS_EmptySet DEF RequestInv, Heard, Counted, Answered, Gone
<1>. QED
    BY <1>1, <1>3, <1>4 DEF AInv

LEMMA NextKeepsAInv == AInv /\ [Next]_vars => AInv'
<1> SUFFICES ASSUME AInv, [Next]_vars PROVE AInv'
    OBVIOUS
<1>1. PInv'
    BY NextKeepsPInv DEF AInv
<1>2. CASE start_loop
    BY <1>1, <1>2, LoopKeepsAInv
<1>3. CASE UNCHANGED vars
    BY <1>1, <1>3, StutterKeepsAInv DEF vars, httpVars
<1>4. ASSUME NEW r \in Requests, Handle(r), ~TimeoutRetry(r) PROVE AInv'
    <2>1. ThreadTakes(r) /\ RequestInv(r)'
        BY <1>4, PostingKeeps, ReceiveTakes, FoundClosedTakes, StopWaitingTakes, LeaveTakes
           DEF Handle
    <2>. QED
        BY <1>1, <2>1, ThreadKeepsAInv
<1>5. ASSUME NEW r \in Requests, TimeoutRetry(r) PROVE UNCHANGED vars
    BY <1>5 DEF TimeoutRetry
<1>6. ASSUME NEW r \in Requests, Disconnect(r) PROVE AInv'
    BY <1>1, <1>6, StutterKeepsAInv DEF Disconnect
<1>. QED
    BY <1>2, <1>3, <1>4, <1>5, <1>6 DEF Next, Quiescent

\* The strengthened invariant holds in every reachable state.
THEOREM AnswersInvariant == Spec => []AInv
    BY InitAInv, NextKeepsAInv, PTL DEF Spec

\* However many prompts a request has, and whatever fails meanwhile, the loop that
\* counts its results answers it with one for each of its tasks (AnswerComplete).
THEOREM AnswersAreComplete == Spec => []AnswerComplete
<1>1. AInv => AnswerComplete
    BY DEF AInv, RequestInv, Answered, AnswerComplete
<1>. QED
    BY <1>1, AnswersInvariant, PTL

\* As long as no decode fails, no second end of a task is on its way, before or after
\* the first was received (EndsOnce).
THEOREM TasksEndOnce ==
    ASSUME ~DecodeMayFail
    PROVE  Spec => []EndsOnce
<1>1. ASSUME AInv PROVE EndsOnce
    <2> SUFFICES ASSUME NEW i \in DOMAIN queue_results, queue_results[i].kind # "partial"
                 PROVE  /\ \A r \in Requests : queue_results[i].id \notin received[r]
                        /\ ~Running(queue_results[i].id)
                        /\ \A j \in DOMAIN queue_results :
                              queue_results[j].id = queue_results[i].id => j <= i
        BY DEF EndsOnce
    <2>1. \A j \in DOMAIN queue_results :
              queue_results[j] \in Sound /\ queue_results[j] \in Results
        <3>1. queue_results \in Seq(Sendable(Tasks))
            BY <1>1 DEF AInv, PInv, IInv, TypeOK, ResponseTypeOK, Sendable
        <3>2. \A j \in DOMAIN queue_results : queue_results[j] \in Sendable(Tasks)
            BY <3>1
        <3>. QED
            BY <3>2 DEF Sound, Results, Range
    <2>2. queue_results[i] \in Ends
        BY <2>1 DEF Ends
    <2>3. /\ queue_results[i].id \notin Open
          /\ \A j \in DOMAIN queue_results : queue_results[j].id = queue_results[i].id => j <= i
        BY <1>1, <2>1, <2>2 DEF AInv, Closed, LastOfId
    <2>4. ~Running(queue_results[i].id)
        BY <2>3 DEF Open, Hand, Work, Busy, Running, is_processing
    <2>5. \A r \in Requests : queue_results[i].id \notin received[r]
        BY <1>1, <2>1 DEF AInv, RequestInv, Heard, Settled
    <2>. QED
        BY <2>3, <2>4, <2>5
<1>. QED
    BY <1>1, AnswersInvariant, PTL

\* As long as no decode fails, a request that is over leaves no result behind, though
\* most handlers give their ids back without purging the queue (NoResultLeft).
THEOREM NoResultStays ==
    ASSUME ~DecodeMayFail
    PROVE  Spec => []NoResultLeft
<1>1. ASSUME AInv PROVE NoResultLeft
    BY <1>1 DEF AInv, RequestInv, Gone, NoneFor, NoResultLeft, Matches, Results, Range
<1>. QED
    BY <1>1, AnswersInvariant, PTL
=============================================================================

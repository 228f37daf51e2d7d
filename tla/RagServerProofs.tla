-------------------------- MODULE RagServerProofs --------------------------
(***************************************************************************)
(* Proofs about RagServer, for every number and mix of requests, chunks    *)
(* and retrievals: the database is a store of chunks whose documents are   *)
(* known, an ingestion that reports success has stored all its chunks, no  *)
(* content is left behind unnoticed, the answers about the schema are      *)
(* true, every task is answered once, and a request that is over leaves    *)
(* nothing in the result queue.                                            *)
(*                                                                         *)
(* The invariant has a part for the database (the references between its   *)
(* tables), one for each thread by itself (its place in the handler, the   *)
(* results it still expects), and one for each pair that has to agree:     *)
(* threads and task server (the results expected are those that will       *)
(* come), threads and database (the chunks counted are those stored).      *)
(***************************************************************************)
EXTENDS RagServer, TaskServiceProofs

-----------------------------------------------------------------------------
(* The database: what references what is there.                            *)

DbInv ==
    /\ tables \subseteq Schema
    /\ "entries" \in tables => tables = Schema
    /\ entries # {} => "entries" \in tables
    /\ \A e \in entries : e.doc \in documents /\ e.content \in contents

-----------------------------------------------------------------------------
(* A thread by itself.                                                     *)

Pcs == {"connect", "dial", "select", "insert", "content", "entry", "search", "create", "destroy",
        "drop", "check", "delete", "disconnect", "submit", "receive", "leave", "done"}
Answers == {"none", "ok", "error", "exists", "absent"}

ThreadShape ==
    [pc : Pcs, stage : Stages, size : 1..(N_CHUNKS + N_RETRIEVALS), n : Nat, todo : Seq(Schema),
     error : BOOLEAN, closed : BOOLEAN, answer : Answers]

\* Which requests come to a place in the handlers.
Role(k, x) ==
    /\ x.pc \in {"select", "insert"} => k \in {"ingest", "create_document"}
    /\ x.pc \in {"content", "entry"} => k \in {"ingest", "ingest_by_id"}
    /\ x.pc \in {"search", "disconnect"} => k \in {"ask", "ask_reranked"}
    /\ x.pc \in {"submit", "receive", "leave"} =>
           k \in {"ingest", "ingest_by_id", "ask", "ask_reranked"}
    /\ x.pc = "create" => k = "create"
    /\ x.pc \in {"destroy", "drop"} => k = "drop"
    /\ x.pc = "check" => k = "exists"
    /\ x.pc = "delete" => k = "delete_document"

\* The stages of a request, and what it expects while it receives.
Course(k, x) ==
    /\ k \in {"ingest", "ingest_by_id"} => x.stage = "embed" /\ x.size = N_CHUNKS
    /\ x.pc \in {"connect", "dial", "search"} => x.stage = "embed"
    /\ x.pc = "disconnect" => x.stage # "complete"
    /\ x.pc = "leave" => x.stage # "rerank"
    /\ x.pc = "receive" => x.n > 0
    /\ x.pc \in {"content", "entry"} => ~x.error

\* The last object of a schema that is made or looked for has all others before it.
LastEntries(s) == s # <<>> /\ s[Len(s)] = "entries"
Todo(x) == /\ x.pc \in {"create", "check"} => LastEntries(x.todo)
           /\ x.pc \in {"destroy", "drop"} => x.todo # <<>>

Answered(k, x) ==
    /\ x.answer # "none" => x.pc = "done"
    /\ x.answer = "ok" /\ k \in {"ingest", "ingest_by_id"} => ~x.error

ThreadOK(k, x) ==
    x \in ThreadShape /\ Role(k, x) /\ Course(k, x) /\ Todo(x) /\ Answered(k, x)

ThreadsOK == /\ kind \in [Threads -> Kinds] /\ Threads \subseteq Requests
             /\ th \in [Threads -> ThreadShape]
             /\ \A r \in Threads : ThreadOK(kind[r], th[r])

-----------------------------------------------------------------------------
(* Threads and the task server.                                            *)

Active(r) == th[r].pc \in {"receive", "content", "entry"}
HasResult(t) == \E i \in DOMAIN queue_results : queue_results[i].id = t

\* Tasks of a stage that is still to be submitted are new.
Unsubmitted(r) ==
    \/ th[r].pc = "submit"
    \/ Ingests(r) /\ th[r].pc \in {"connect", "dial", "select", "insert"}
NewTasks(r) ==
    /\ Unsubmitted(r) => TasksAt(r, th[r].stage) \subseteq fresh
    /\ th[r].stage = "embed" => TasksAt(r, "rerank") \subseteq fresh
    /\ th[r].stage # "complete" => TasksAt(r, "complete") \subseteq fresh

\* The results a receiving thread still expects are those of the tasks at work and
\* those that wait for it, ...
Outstanding(r) == {t \in Ids(r) : t \in posted \/ HasResult(t)}
Expects(r) == Active(r) => /\ Ids(r) \subseteq waiting_task_ids
                           /\ th[r].n = Cardinality(Outstanding(r))

\* ... and no other task of it has a result or will have one.
Clean(t) == ~HasResult(t) /\ (t \notin posted \/ t \notin waiting_task_ids)
Settled(r) == \A t \in Tasks : t[1] = r => Clean(t) \/ (Active(r) /\ t \in Ids(r))

WaitsFor(r) == \A t \in waiting_task_ids : t[1] = r =>
    \/ t[2] = "rerank"
    \/ t \in Ids(r) /\ (Active(r) \/ th[r].pc = "leave")

AnswersOnly == \A i \in DOMAIN queue_results : queue_results[i].kind # "partial"

TaskSide == /\ ServiceInv /\ AnswersOnly /\ waiting_task_ids \subseteq Tasks
            /\ \A r \in Threads : NewTasks(r) /\ Expects(r) /\ Settled(r) /\ WaitsFor(r)

-----------------------------------------------------------------------------
(* Threads and the database.                                               *)

StoredChunks(r, m) == \A k \in 1..m : \E e \in entries : e.id = <<r, k>>
Progress(r) ==
    Ingests(r) /\ ~raced /\ ~dropped /\ ~th[r].error =>
        /\ th[r].pc \in {"receive", "leave"} => StoredChunks(r, N_CHUNKS - th[r].n)
        /\ th[r].pc \in {"content", "entry"} => StoredChunks(r, N_CHUNKS - th[r].n - 1)
        /\ th[r].pc = "leave" /\ ~th[r].closed => th[r].n = 0
        /\ th[r].answer = "ok" /\ ~th[r].closed => StoredChunks(r, N_CHUNKS)

Accounted(c) ==
    \/ \E e \in entries : e.content = c
    \/ \E r \in Threads : /\ Ingests(r)
                          /\ (th[r].pc = "entry" /\ Chunk(r) = c) \/ th[r].error

StoreSide == /\ raced \in BOOLEAN /\ dropped \in BOOLEAN
             /\ \A r \in Threads : Progress(r)
             /\ ~raced /\ ~dropped => \A c \in contents : Accounted(c)

RInv == DbInv /\ ThreadsOK /\ TaskSide /\ StoreSide

-----------------------------------------------------------------------------
(* What a step does to the database.                                       *)

LEMMA RagConstants ==
    /\ N_CHUNKS \in Nat \ {0} /\ N_RETRIEVALS \in Nat \ {0} /\ Doc \in Documents
    /\ Tasks = Requests \X Stages \X (1..(N_CHUNKS + N_RETRIEVALS))
    /\ TaskMayFail \in BOOLEAN /\ DbMayFail \in BOOLEAN
    BY RagAssumption, DocumentsAssumption DEF Doc

\* A statement that is done was possible, and unless two threads were in the
\* connection at once, it is reported as it is.
LEMMA OutcomeIs ==
    ASSUME NEW can \in BOOLEAN, NEW racing \in BOOLEAN, NEW done \in BOOLEAN, NEW ok \in BOOLEAN,
           raced \in BOOLEAN, Outcome(can, racing, done, ok)
    PROVE  (done => can) /\ raced' \in BOOLEAN /\ (~raced' => ~raced /\ done = ok)
    BY Zenon DEF Outcome

LEMMA ReadOutcomeIs ==
    ASSUME NEW can \in BOOLEAN, NEW racing \in BOOLEAN, NEW ok \in BOOLEAN, NEW right \in BOOLEAN,
           raced \in BOOLEAN, ReadOutcome(can, racing, ok, right)
    PROVE  raced' \in BOOLEAN /\ (~raced' => ~raced /\ (ok => can /\ right))
    BY Zenon DEF ReadOutcome

Creates(t) == CanCreate(t) /\ CreateTable(t) /\ dropped' = dropped
Drops(t)   == CanDrop(t) /\ DropTable(t) /\ dropped' = (dropped \/ t = "entries")
Inserts    == CanInsertDocument(Doc) /\ InsertDocument(Doc) /\ dropped' = dropped
Deletes    == CanDelete(Doc) /\ Delete(Doc) /\ dropped' = dropped
StoresContent(c) == CanInsertContent /\ InsertContent(c) /\ dropped' = dropped
StoresEntry(e)   == CanInsertEntry(e) /\ InsertEntry(e) /\ dropped' = dropped

\* The statements of a step of thread r, if they are done.
DbStep(r) ==
    \/ UNCHANGED <<tableVars, dropped>>
    \/ \E t \in Schema : Creates(t) \/ Drops(t)
    \/ Inserts \/ Deletes
    \/ StoresContent(Chunk(r))
    \/ StoresEntry(Entry(r))

LEMMA DbStepKeeps == ASSUME DbInv, NEW r, DbStep(r) PROVE DbInv'
<1>1. CASE UNCHANGED <<tableVars, dropped>>
    BY <1>1 DEF DbInv, tableVars
<1>2. ASSUME NEW t \in Schema, Creates(t) PROVE DbInv'
    BY <1>2 DEF Creates, CanCreate, CreateTable, DbInv, Needs, Schema
<1>3. ASSUME NEW t \in Schema, Drops(t) PROVE DbInv'
    BY <1>3 DEF Drops, CanDrop, DropTable, DbInv, Needs, Schema
<1>4. CASE Inserts
    BY <1>4 DEF Inserts, InsertDocument, DbInv
<1>5. CASE Deletes
    BY <1>5 DEF Deletes, CanDelete, Delete, DbInv
<1>6. CASE StoresContent(Chunk(r))
    BY <1>6 DEF StoresContent, InsertContent, DbInv
<1>7. CASE StoresEntry(Entry(r))
    BY <1>7 DEF StoresEntry, CanInsertEntry, InsertEntry, DbInv
<1>. QED
    BY <1>1, <1>2, <1>3, <1>4, <1>5, <1>6, <1>7 DEF DbStep

\* Every entry of the database is found by a search.
LEMMA AllFound == ASSUME DbInv PROVE Found = entries
    BY DEF DbInv, Found

\* A statement is a step of the store, or one it does not show.
LEMMA DbStepStores ==
    ASSUME DbInv, NEW r, DbStep(r)
    PROVE  Store!StoreNext \/ UNCHANGED <<documents, Found>>
<1>0. DbInv'
    BY DbStepKeeps
<1>1. Found = entries /\ Found' = entries'
    BY <1>0, AllFound DEF DbInv, Found
<1>2. CASE UNCHANGED <<tableVars, dropped>>
    BY <1>1, <1>2 DEF tableVars
<1>3. ASSUME NEW t \in Schema, Creates(t) PROVE UNCHANGED <<documents, Found>>
    BY <1>1, <1>3 DEF Creates, CreateTable
<1>4. ASSUME NEW t \in Schema, Drops(t)
      PROVE  Store!DropChunks \/ Store!DropDocuments \/ UNCHANGED <<documents, Found>>
    <2>1. CASE t = "entries"
        BY <1>1, <1>4, <2>1 DEF Drops, DropTable, Store!DropChunks
    <2>2. CASE t = "documents"
        <3>1. entries = {}
            BY <1>4, <2>2 DEF Drops, CanDrop, Needs, Schema, DbInv
        <3>. QED
            BY <1>1, <1>4, <2>2, <3>1 DEF Drops, DropTable, Store!DropDocuments
    <2>3. CASE t \notin {"entries", "documents"}
        BY <1>1, <1>4, <2>3 DEF Drops, DropTable
    <2>. QED
        BY <2>1, <2>2, <2>3
<1>5. Inserts => Store!AddDocument(Doc)
    BY <1>1 DEF Inserts, InsertDocument, Store!AddDocument
<1>6. Deletes => Store!DeleteDocument(Doc)
    BY <1>1 DEF Deletes, CanDelete, Delete, Store!DeleteDocument
<1>7. ASSUME StoresContent(Chunk(r)) PROVE UNCHANGED <<documents, Found>>
    BY <1>1, <1>7 DEF StoresContent, InsertContent
<1>8. ASSUME StoresEntry(Entry(r))
      PROVE  Store!AddChunk(Doc) \/ UNCHANGED <<documents, Found>>
    <2>1. Entry(r).doc = Doc
        BY DEF Entry
    <2>2. Doc \in documents /\ entries' = entries \cup {Entry(r)} /\ documents' = documents
        BY <1>8, <2>1 DEF StoresEntry, CanInsertEntry, InsertEntry
    <2>. QED
        BY <1>1, <2>1, <2>2 DEF Store!AddChunk
<1>. QED
    BY <1>2, <1>3, <1>4, <1>5, <1>6, <1>7, <1>8, RagConstants DEF DbStep, Store!StoreNext

-----------------------------------------------------------------------------
(* What a step does to the thread that takes it.                           *)

LEMMA SetMoves ==
    ASSUME ThreadsOK, NEW r \in Threads, NEW x, Set(r, x)
    PROVE  /\ kind' = kind /\ Threads' = Threads /\ th'[r] = x
           /\ \A q \in Threads : q # r => th'[q] = th[q]
           /\ ThreadOK(kind[r], x) => ThreadsOK'
<1>1. kind' = kind /\ th' = [th EXCEPT ![r] = x] /\ th \in [Threads -> ThreadShape]
    BY DEF Set, ThreadsOK
<1>2. Threads' = Threads
    BY <1>1 DEF Threads
<1>3. th'[r] = x /\ \A q \in Threads : q # r => th'[q] = th[q]
    BY <1>1
<1>4. ASSUME ThreadOK(kind[r], x) PROVE ThreadsOK'
    <2>1. x \in ThreadShape
        BY <1>4 DEF ThreadOK
    <2>2. th' \in [Threads -> ThreadShape]
        BY <1>1, <2>1
    <2>3. \A q \in Threads : ThreadOK(kind[q], th'[q])
        BY <1>3, <1>4 DEF ThreadsOK
    <2>. QED
        BY <1>1, <1>2, <2>2, <2>3 DEF ThreadsOK
<1>. QED
    BY <1>1, <1>2, <1>3, <1>4

\* Moving on to another place in the handler, ...
LEMMA GotoFields ==
    ASSUME NEW x \in ThreadShape, NEW pc \in Pcs
    PROVE  LET y == [x EXCEPT !.pc = pc]
           IN  /\ y \in ThreadShape /\ y.pc = pc /\ y.stage = x.stage /\ y.size = x.size
               /\ y.n = x.n /\ y.todo = x.todo /\ y.error = x.error /\ y.closed = x.closed
               /\ y.answer = x.answer
    BY DEF ThreadShape

\* ... or ending.
LEMMA EndFields ==
    ASSUME NEW x \in ThreadShape, NEW answer \in Answers
    PROVE  LET y == [x EXCEPT !.pc = "done", !.answer = answer]
           IN  /\ y \in ThreadShape /\ y.pc = "done" /\ y.stage = x.stage /\ y.size = x.size
               /\ y.n = x.n /\ y.todo = x.todo /\ y.error = x.error /\ y.closed = x.closed
               /\ y.answer = answer
    BY DEF ThreadShape, Pcs

-----------------------------------------------------------------------------
(* Steps away from the results: connecting, the statements of the schema   *)
(* and of documents, searching.                                            *)

Resting(pc) == pc \notin {"receive", "content", "entry", "leave"}

\* What such a step leaves of its thread, ...
ThreadPart(r) ==
    /\ ThreadsOK' /\ kind' = kind /\ Threads' = Threads
    /\ \A q \in Threads : q # r => th'[q] = th[q]
    /\ Resting(th[r].pc) /\ Resting(th'[r].pc)
    /\ NewTasks(r)'
    /\ th'[r].error = th[r].error
    /\ Ingests(r) => th'[r].answer # "ok"

\* ... and of the database; its answer about the schema is true.
RacedOnly == raced' \in BOOLEAN /\ (~raced' => ~raced)
AnswersTruly(r) ==
    /\ th[r].answer # th'[r].answer /\ ~raced'
    /\ th'[r].answer = "exists" \/ (kind[r] = "create" /\ th'[r].answer = "ok")
    => tables' = Schema
DbPart(r) == DbStep(r) /\ contents' \subseteq contents /\ RacedOnly /\ AnswersTruly(r)

LocalStep(r) == UNCHANGED serviceVars /\ ThreadPart(r) /\ DbPart(r)

LEMMA SetRests ==
    ASSUME RInv, fresh' = fresh, NEW r \in Threads, NEW y, Set(r, y), ThreadOK(kind[r], y),
           Resting(th[r].pc), Resting(y.pc), y.error = th[r].error,
           Ingests(r) => y.answer # "ok",
           y.stage = th[r].stage,
           y.pc = "submit" \/ (Ingests(r) /\ y.pc \in {"connect", "dial", "select", "insert"})
               => Unsubmitted(r)
    PROVE  ThreadPart(r)
<1>1. /\ kind' = kind /\ Threads' = Threads /\ th'[r] = y /\ ThreadsOK'
      /\ \A q \in Threads : q # r => th'[q] = th[q]
    BY SetMoves DEF RInv
<1>2. NewTasks(r)
    BY DEF RInv, TaskSide
<1>3. Unsubmitted(r)' => Unsubmitted(r)
    BY <1>1 DEF Unsubmitted, Ingests
<1>4. NewTasks(r)'
    BY <1>1, <1>2, <1>3 DEF NewTasks, TasksAt
<1>. QED
    BY <1>1, <1>4 DEF ThreadPart

LEMMA EndRests ==
    ASSUME RInv, fresh' = fresh, NEW r \in Threads, NEW answer \in Answers, End(r, answer),
           Resting(th[r].pc), answer = "ok" => ~Ingests(r)
    PROVE  ThreadPart(r) /\ th'[r].answer = answer
<1> DEFINE y == [th[r] EXCEPT !.pc = "done", !.answer = answer]
<1>1. th[r] \in ThreadShape /\ ThreadOK(kind[r], th[r])
    BY DEF RInv, ThreadsOK
<1>2. /\ y \in ThreadShape /\ y.pc = "done" /\ y.stage = th[r].stage /\ y.size = th[r].size
      /\ y.n = th[r].n /\ y.todo = th[r].todo /\ y.error = th[r].error
      /\ y.closed = th[r].closed /\ y.answer = answer
    BY <1>1, EndFields
<1>3. Set(r, y)
    BY DEF End
<1> HIDE DEF y
<1>4. ThreadOK(kind[r], y)
    BY <1>1, <1>2 DEF ThreadOK, Role, Course, Todo, Answered, Ingests
<1>5. th'[r] = y
    BY <1>3, SetMoves DEF RInv
<1>6. Resting(y.pc)
    BY <1>2 DEF Resting
<1>. QED
    BY <1>2, <1>3, <1>4, <1>5, <1>6, SetRests

LEMMA GotoRests ==
    ASSUME RInv, fresh' = fresh, NEW r \in Threads, NEW pc \in Pcs, Goto(r, pc),
           Resting(th[r].pc), th[r].pc # "done", Resting(pc),
           \A y \in ThreadShape :
               /\ y.pc = pc /\ y.stage = th[r].stage /\ y.size = th[r].size /\ y.n = th[r].n
               /\ y.todo = th[r].todo /\ y.error = th[r].error
               => Role(kind[r], y) /\ Course(kind[r], y) /\ Todo(y),
           pc = "submit" \/ (Ingests(r) /\ pc \in {"connect", "dial", "select", "insert"})
               => Unsubmitted(r)
    PROVE  ThreadPart(r) /\ th'[r].answer = "none"
<1> DEFINE y == [th[r] EXCEPT !.pc = pc]
<1>1. th[r] \in ThreadShape /\ ThreadOK(kind[r], th[r])
    BY DEF RInv, ThreadsOK
<1>2. th[r].answer = "none"
    BY <1>1 DEF ThreadOK, Answered
<1>3. /\ y \in ThreadShape /\ y.pc = pc /\ y.stage = th[r].stage /\ y.size = th[r].size
      /\ y.n = th[r].n /\ y.todo = th[r].todo /\ y.error = th[r].error
      /\ y.closed = th[r].closed /\ y.answer = th[r].answer
    BY <1>1, GotoFields
<1>4. Set(r, y)
    BY DEF Goto
<1> HIDE DEF y
<1>5. ThreadOK(kind[r], y)
    BY <1>2, <1>3 DEF ThreadOK, Answered
<1>6. th'[r] = y
    BY <1>4, SetMoves DEF RInv
<1>. QED
    BY <1>2, <1>3, <1>4, <1>5, <1>6, SetRests

\* What is known of a thread at a place in a handler.
LEMMA AtPlace ==
    ASSUME RInv, NEW r, NEW pc, At(r, pc)
    PROVE  /\ r \in Threads /\ th[r].pc = pc /\ th[r] \in ThreadShape /\ kind[r] \in Kinds
           /\ ThreadOK(kind[r], th[r]) /\ NewTasks(r)
           /\ raced \in BOOLEAN /\ dropped \in BOOLEAN
    BY DEF RInv, ThreadsOK, TaskSide, StoreSide, At, Runs

LEMMA SchemaTodo ==
    /\ createSchema \in Seq(Schema) /\ LastEntries(createSchema)
    /\ hasSchema \in Seq(Schema) /\ LastEntries(hasSchema)
    /\ destroySchema \in Seq(Schema) /\ destroySchema # <<>>
    BY DEF createSchema, hasSchema, destroySchema, Schema, LastEntries

LEMMA AfterConnectRests ==
    ASSUME RInv, fresh' = fresh, NEW r \in Threads, th[r].pc \in {"connect", "dial"},
           Set(r, AfterConnect(r))
    PROVE  ThreadPart(r) /\ th'[r].answer = "none"
<1>1. /\ th[r] \in ThreadShape /\ ThreadOK(kind[r], th[r]) /\ kind[r] \in Kinds
      /\ Resting(th[r].pc) /\ th[r].pc # "done" /\ th[r].answer = "none"
    BY DEF RInv, ThreadsOK, Resting, ThreadOK, Answered
<1>2. ASSUME NEW todo \in Seq(Schema), NEW pc \in {"create", "destroy", "check"},
             Set(r, [th[r] EXCEPT !.pc = pc, !.todo = todo]),
             pc = "destroy" => kind[r] = "drop" /\ todo # <<>>,
             pc = "create" => kind[r] = "create" /\ LastEntries(todo),
             pc = "check" => kind[r] = "exists" /\ LastEntries(todo)
      PROVE  ThreadPart(r) /\ th'[r].answer = "none"
    <2> DEFINE y == [th[r] EXCEPT !.pc = pc, !.todo = todo]
    <2>1. /\ y \in ThreadShape /\ y.pc = pc /\ y.stage = th[r].stage /\ y.size = th[r].size
          /\ y.n = th[r].n /\ y.todo = todo /\ y.error = th[r].error
          /\ y.closed = th[r].closed /\ y.answer = th[r].answer
        BY <1>1, <1>2 DEF ThreadShape, Pcs
    <2>2. Set(r, y)
        BY <1>2
    <2> HIDE DEF y
    <2>3. ThreadOK(kind[r], y)
        BY <1>1, <1>2, <2>1 DEF ThreadOK, Role, Course, Todo, Answered
    <2>4. Resting(y.pc) /\ y.pc \notin {"submit", "connect", "dial", "select", "insert"}
        BY <1>2, <2>1 DEF Resting
    <2>5. th'[r] = y
        BY <2>2, SetMoves DEF RInv
    <2>. QED
        BY <1>1, <2>1, <2>2, <2>3, <2>4, <2>5, SetRests
<1>3. CASE kind[r] = "create"
    <2>1. Set(r, [th[r] EXCEPT !.pc = "create", !.todo = createSchema])
        BY <1>3 DEF AfterConnect, Asks
    <2>. QED
        BY <1>2, <1>3, <2>1, SchemaTodo
<1>4. CASE kind[r] = "drop"
    <2>1. Set(r, [th[r] EXCEPT !.pc = "destroy", !.todo = destroySchema])
        BY <1>4 DEF AfterConnect, Asks
    <2>. QED
        BY <1>2, <1>4, <2>1, SchemaTodo
<1>5. CASE kind[r] = "exists"
    <2>1. Set(r, [th[r] EXCEPT !.pc = "check", !.todo = hasSchema])
        BY <1>5 DEF AfterConnect, Asks
    <2>. QED
        BY <1>2, <1>5, <2>1, SchemaTodo
<1>6. CASE kind[r] \in {"ingest", "create_document"}
    <2>1. Goto(r, "select")
        BY <1>6 DEF AfterConnect, Asks, Goto
    <2>2. \A y : y.pc = "select" /\ y.stage = th[r].stage /\ y.size = th[r].size =>
              Role(kind[r], y) /\ Course(kind[r], y) /\ Todo(y)
        BY <1>1, <1>6 DEF ThreadOK, Role, Course, Todo
    <2>3. "select" \in Pcs /\ Resting("select")
        BY DEF Pcs, Resting
    <2>4. Ingests(r) => Unsubmitted(r)
        BY DEF Unsubmitted
    <2>. QED
        BY <1>1, <2>1, <2>2, <2>3, <2>4, GotoRests
<1>7. CASE kind[r] = "ingest_by_id"
    <2>1. Goto(r, "submit")
        BY <1>7 DEF AfterConnect, Asks, Goto
    <2>2. \A y : y.pc = "submit" /\ y.stage = th[r].stage /\ y.size = th[r].size =>
              Role(kind[r], y) /\ Course(kind[r], y) /\ Todo(y)
        BY <1>1, <1>7 DEF ThreadOK, Role, Course, Todo
    <2>3. "submit" \in Pcs /\ Resting("submit")
        BY DEF Pcs, Resting
    <2>4. Unsubmitted(r)
        BY <1>7 DEF Unsubmitted, Ingests
    <2>. QED
        BY <1>1, <2>1, <2>2, <2>3, <2>4, GotoRests
<1>8. CASE Asks(r)
    <2>1. Goto(r, "search")
        BY <1>8 DEF AfterConnect, Asks, Goto
    <2>2. \A y : y.pc = "search" /\ y.stage = th[r].stage /\ y.size = th[r].size =>
              Role(kind[r], y) /\ Course(kind[r], y) /\ Todo(y)
        BY <1>1, <1>8 DEF ThreadOK, Role, Course, Todo, Asks
    <2>3. "search" \in Pcs /\ Resting("search")
        BY DEF Pcs, Resting
    <2>. QED
        BY <1>1, <2>1, <2>2, <2>3, GotoRests
<1>9. CASE kind[r] = "delete_document"
    <2>1. Goto(r, "delete")
        BY <1>9 DEF AfterConnect, Asks, Goto
    <2>2. \A y : y.pc = "delete" /\ y.stage = th[r].stage /\ y.size = th[r].size =>
              Role(kind[r], y) /\ Course(kind[r], y) /\ Todo(y)
        BY <1>1, <1>9 DEF ThreadOK, Role, Course, Todo
    <2>3. "delete" \in Pcs /\ Resting("delete")
        BY DEF Pcs, Resting
    <2>. QED
        BY <1>1, <2>1, <2>2, <2>3, GotoRests
<1>. QED
    BY <1>1, <1>3, <1>4, <1>5, <1>6, <1>7, <1>8, <1>9 DEF Kinds, Admin, Asks

LEMMA ConnectIsLocal ==
    ASSUME RInv, NEW r, Connect(r) \/ Dial(r) \/ DialFails(r)
    PROVE  r \in Threads /\ LocalStep(r)
<1>1. /\ r \in Threads /\ th[r].pc \in {"connect", "dial"} /\ Resting(th[r].pc)
      /\ kind[r] \in Kinds /\ ThreadOK(kind[r], th[r]) /\ raced \in BOOLEAN
    <2>1. At(r, "connect") \/ At(r, "dial")
        BY DEF Connect, Dial, DialFails
    <2>. QED
        BY <2>1, AtPlace DEF Resting
<1>2. UNCHANGED <<serviceVars, tableVars, raced, dropped>> /\ fresh' = fresh
    BY DEF Connect, Dial, DialFails, dbVars, serviceVars
<1>3. DbStep(r) /\ contents' \subseteq contents /\ RacedOnly
    BY <1>1, <1>2 DEF DbStep, tableVars, RacedOnly
<1>4. CASE Set(r, AfterConnect(r))
    BY <1>1, <1>2, <1>3, <1>4, AfterConnectRests DEF LocalStep, DbPart, AnswersTruly
<1>5. CASE End(r, "error")
    BY <1>1, <1>2, <1>3, <1>5, EndRests DEF LocalStep, DbPart, AnswersTruly, Answers
<1>6. CASE Connect(r) /\ Goto(r, "dial")
    <2>1. th[r].pc = "connect"
        BY <1>6 DEF Connect, At
    <2>2. \A y : y.pc = "dial" /\ y.stage = th[r].stage /\ y.size = th[r].size =>
              Role(kind[r], y) /\ Course(kind[r], y) /\ Todo(y)
        BY <1>1, <2>1 DEF ThreadOK, Role, Course, Todo
    <2>3. Ingests(r) => Unsubmitted(r)
        BY <2>1 DEF Unsubmitted
    <2>4. "dial" \in Pcs /\ Resting("dial")
        BY DEF Pcs, Resting
    <2>5. ThreadPart(r) /\ th'[r].answer = "none"
        BY <1>1, <1>2, <1>6, <2>1, <2>2, <2>3, <2>4, GotoRests
    <2>. QED
        BY <1>1, <1>2, <1>3, <2>5 DEF LocalStep, DbPart, AnswersTruly
<1>. QED
    BY <1>1, <1>4, <1>5, <1>6 DEF Connect, Dial, DialFails

\* The document of a request is known: it goes on to its tasks, or is done.
LEMMA AfterDocumentRests ==
    ASSUME RInv, fresh' = fresh, NEW r, At(r, "select") \/ At(r, "insert"), AfterDocument(r)
    PROVE  ThreadPart(r) /\ kind[r] # "create" /\ th'[r].answer \in {"none", "ok"}
<1>1. /\ r \in Threads /\ th[r].pc \in {"select", "insert"} /\ Resting(th[r].pc)
      /\ ThreadOK(kind[r], th[r]) /\ kind[r] \in {"ingest", "create_document"}
    <2>1. /\ r \in Threads /\ th[r].pc \in {"select", "insert"} /\ ThreadOK(kind[r], th[r])
        BY AtPlace
    <2>. QED
        BY <2>1 DEF Resting, ThreadOK, Role
<1>2. CASE kind[r] = "ingest"
    <2>1. Goto(r, "submit")
        BY <1>2 DEF AfterDocument
    <2>2. \A y : y.pc = "submit" /\ y.stage = th[r].stage /\ y.size = th[r].size =>
              Role(kind[r], y) /\ Course(kind[r], y) /\ Todo(y)
        BY <1>1, <1>2 DEF ThreadOK, Role, Course, Todo
    <2>3. "submit" \in Pcs /\ Resting("submit")
        BY DEF Pcs, Resting
    <2>4. Unsubmitted(r)
        BY <1>1, <1>2 DEF Unsubmitted, Ingests
    <2>. QED
        BY <1>1, <1>2, <2>1, <2>2, <2>3, <2>4, GotoRests
<1>3. CASE kind[r] = "create_document"
    <2>1. End(r, "ok") /\ ~Ingests(r)
        BY <1>3 DEF AfterDocument, Ingests
    <2>. QED
        BY <1>1, <1>3, <2>1, EndRests DEF Answers
<1>. QED
    BY <1>1, <1>2, <1>3

LEMMA SelectIsLocal ==
    ASSUME RInv, NEW r, SelectDocument(r)
    PROVE  r \in Threads /\ LocalStep(r)
<1>1. At(r, "select") /\ UNCHANGED <<serviceVars, tableVars, dropped>> /\ fresh' = fresh
    BY DEF SelectDocument, Executes, serviceVars
<1>2. /\ r \in Threads /\ th[r].pc = "select" /\ Resting(th[r].pc) /\ kind[r] \in Kinds
      /\ ThreadOK(kind[r], th[r]) /\ raced \in BOOLEAN
    BY <1>1, AtPlace DEF Resting
<1>3. RacedOnly
    <2>1. PICK ok \in BOOLEAN, row \in BOOLEAN :
              ReadOutcome("documents" \in tables, Racing(r), ok, row = (Doc \in documents))
        BY DEF SelectDocument
    <2>2. ("documents" \in tables) \in BOOLEAN /\ Racing(r) \in BOOLEAN
          /\ (row = (Doc \in documents)) \in BOOLEAN
        BY DEF Racing
    <2>. QED
        BY <1>2, <2>1, <2>2, ReadOutcomeIs DEF RacedOnly
<1>4. DbStep(r) /\ contents' \subseteq contents /\ RacedOnly
    BY <1>1, <1>3 DEF DbStep, tableVars
<1>5. AfterDocument(r) \/ Goto(r, "insert") \/ End(r, "error")
    BY Zenon DEF SelectDocument
<1>6. CASE AfterDocument(r)
    <2>1. ThreadPart(r) /\ kind[r] # "create" /\ th'[r].answer \in {"none", "ok"}
        BY <1>1, <1>6, AfterDocumentRests
    <2>. QED
        BY <1>1, <1>2, <1>4, <2>1 DEF LocalStep, DbPart, AnswersTruly
<1>7. CASE End(r, "error")
    BY <1>1, <1>2, <1>4, <1>7, EndRests DEF LocalStep, DbPart, AnswersTruly, Answers
<1>8. CASE Goto(r, "insert")
    <2>1. \A y : y.pc = "insert" /\ y.stage = th[r].stage /\ y.size = th[r].size =>
              Role(kind[r], y) /\ Course(kind[r], y) /\ Todo(y)
        BY <1>2 DEF ThreadOK, Role, Course, Todo
    <2>2. Ingests(r) => Unsubmitted(r)
        BY <1>2 DEF Unsubmitted
    <2>3. "insert" \in Pcs /\ Resting("insert")
        BY DEF Pcs, Resting
    <2>4. ThreadPart(r) /\ th'[r].answer = "none"
        BY <1>1, <1>2, <1>8, <2>1, <2>2, <2>3, GotoRests
    <2>. QED
        BY <1>1, <1>2, <1>4, <2>4 DEF LocalStep, DbPart, AnswersTruly
<1>. QED
    BY <1>2, <1>5, <1>6, <1>7, <1>8

LEMMA InsertIsLocal ==
    ASSUME RInv, NEW r, InsertDoc(r)
    PROVE  r \in Threads /\ LocalStep(r)
<1>1. At(r, "insert") /\ UNCHANGED serviceVars /\ fresh' = fresh /\ dropped' = dropped
    BY DEF InsertDoc, Executes, serviceVars
<1>2. /\ r \in Threads /\ th[r].pc = "insert" /\ Resting(th[r].pc) /\ kind[r] \in Kinds
      /\ ThreadOK(kind[r], th[r]) /\ raced \in BOOLEAN
    BY <1>1, AtPlace DEF Resting
<1>3. PICK done \in BOOLEAN, ok \in BOOLEAN :
          /\ Outcome(CanInsertDocument(Doc), Racing(r), done, ok)
          /\ Effect(done, InsertDocument(Doc))
          /\ IF ok THEN AfterDocument(r) ELSE End(r, "error")
    BY DEF InsertDoc
<1>4. CanInsertDocument(Doc) \in BOOLEAN /\ Racing(r) \in BOOLEAN
    BY DEF CanInsertDocument, Racing
<1>5. RacedOnly /\ (done => CanInsertDocument(Doc))
    BY <1>2, <1>3, <1>4, OutcomeIs DEF RacedOnly
<1>6. DbStep(r) /\ contents' \subseteq contents
    BY <1>1, <1>3, <1>5 DEF Effect, DbStep, Inserts, InsertDocument, tableVars
<1>7. CASE AfterDocument(r)
    <2>1. ThreadPart(r) /\ kind[r] # "create" /\ th'[r].answer \in {"none", "ok"}
        BY <1>1, <1>7, AfterDocumentRests
    <2>. QED
        BY <1>1, <1>2, <1>5, <1>6, <2>1 DEF LocalStep, DbPart, AnswersTruly
<1>8. CASE End(r, "error")
    BY <1>1, <1>2, <1>5, <1>6, <1>8, EndRests DEF LocalStep, DbPart, AnswersTruly, Answers
<1>. QED
    BY <1>2, <1>3, <1>7, <1>8

LEMMA DeleteIsLocal ==
    ASSUME RInv, NEW r, DeleteDocument(r)
    PROVE  r \in Threads /\ LocalStep(r)
<1>1. At(r, "delete") /\ UNCHANGED serviceVars /\ fresh' = fresh /\ dropped' = dropped
    BY DEF DeleteDocument, Executes, serviceVars
<1>2. /\ r \in Threads /\ th[r].pc = "delete" /\ Resting(th[r].pc)
      /\ ThreadOK(kind[r], th[r]) /\ raced \in BOOLEAN
    BY <1>1, AtPlace DEF Resting
<1>3. kind[r] = "delete_document"
    BY <1>2 DEF ThreadOK, Role
<1>4. PICK done \in BOOLEAN, ok \in BOOLEAN :
          /\ Outcome(CanDelete(Doc), Racing(r), done, ok)
          /\ Effect(done, Delete(Doc))
          /\ End(r, IF ok THEN "ok" ELSE "error")
    BY DEF DeleteDocument
<1>5. CanDelete(Doc) \in BOOLEAN /\ Racing(r) \in BOOLEAN
    BY DEF CanDelete, Racing
<1>6. RacedOnly /\ (done => CanDelete(Doc))
    BY <1>2, <1>4, <1>5, OutcomeIs DEF RacedOnly
<1>7. DbStep(r) /\ contents' \subseteq contents
    BY <1>1, <1>4, <1>6 DEF Effect, DbStep, Deletes, Delete, tableVars
<1>8. PICK answer \in {"ok", "error"} : End(r, answer)
    BY <1>4
<1>9. ThreadPart(r) /\ th'[r].answer = answer
    BY <1>1, <1>2, <1>3, <1>8, EndRests DEF Answers, Ingests
<1>. QED
    BY <1>1, <1>2, <1>3, <1>6, <1>7, <1>9 DEF LocalStep, DbPart, AnswersTruly

\* The objects of a schema, one after the other.
LEMMA TodoTail ==
    ASSUME NEW s \in Seq(Schema), s # <<>>
    PROVE  /\ Head(s) \in Schema /\ Tail(s) \in Seq(Schema)
           /\ LastEntries(s) /\ Tail(s) = <<>> => Head(s) = "entries"
           /\ LastEntries(s) /\ Tail(s) # <<>> => LastEntries(Tail(s))
<1>1. /\ Len(s) \in Nat \ {0} /\ Head(s) = s[1] /\ s[1] \in Schema
      /\ Tail(s) \in Seq(Schema) /\ Len(Tail(s)) = Len(s) - 1
    OBVIOUS
<1>2. \A i \in 1..(Len(s) - 1) : Tail(s)[i] = s[i + 1]
    OBVIOUS
<1>3. ASSUME LastEntries(s), Tail(s) = <<>> PROVE Head(s) = "entries"
    <2>1. Len(s) = 1
        BY <1>1, <1>3
    <2>. QED
        BY <1>1, <1>3, <2>1 DEF LastEntries
<1>4. ASSUME LastEntries(s), Tail(s) # <<>> PROVE LastEntries(Tail(s))
    <2>1. Len(Tail(s)) # 0
        BY <1>1, <1>4
    <2>2. Tail(s)[Len(s) - 1] = s[Len(s)]
        BY <1>1, <1>2, <2>1
    <2>. QED
        BY <1>1, <1>4, <2>2 DEF LastEntries
<1>. QED
    BY <1>1, <1>3, <1>4

\* A thread goes on to the next object.
LEMMA NextObjectRests ==
    ASSUME RInv, fresh' = fresh, NEW r \in Threads, th[r].pc \in {"create", "drop", "check"},
           Tail(th[r].todo) # <<>>, Set(r, [th[r] EXCEPT !.todo = Tail(th[r].todo)])
    PROVE  ThreadPart(r) /\ th'[r].answer = "none"
<1> DEFINE y == [th[r] EXCEPT !.todo = Tail(th[r].todo)]
<1>1. /\ th[r] \in ThreadShape /\ ThreadOK(kind[r], th[r]) /\ Resting(th[r].pc)
      /\ th[r].answer = "none"
    BY DEF RInv, ThreadsOK, Resting, ThreadOK, Answered
<1>2. th[r].todo \in Seq(Schema) /\ th[r].todo # <<>>
    BY <1>1 DEF ThreadShape, ThreadOK, Todo, LastEntries
<1>3. /\ Tail(th[r].todo) \in Seq(Schema)
      /\ LastEntries(th[r].todo) => LastEntries(Tail(th[r].todo))
    BY <1>2, TodoTail
<1>4. /\ y \in ThreadShape /\ y.pc = th[r].pc /\ y.stage = th[r].stage /\ y.size = th[r].size
      /\ y.n = th[r].n /\ y.todo = Tail(th[r].todo) /\ y.error = th[r].error
      /\ y.closed = th[r].closed /\ y.answer = th[r].answer
    BY <1>1, <1>3 DEF ThreadShape
<1>5. Set(r, y)
    OBVIOUS
<1> HIDE DEF y
<1>6. ThreadOK(kind[r], y)
    BY <1>1, <1>3, <1>4 DEF ThreadOK, Role, Course, Todo, Answered
<1>7. th'[r] = y
    BY <1>5, SetMoves DEF RInv
<1>8. y.pc \notin {"submit", "connect", "dial", "select", "insert"} /\ y.answer # "ok"
    BY <1>1, <1>4
<1>. QED
    BY <1>1, <1>4, <1>5, <1>6, <1>7, <1>8, SetRests

LEMMA CreateIsLocal ==
    ASSUME RInv, NEW r, CreateObject(r)
    PROVE  r \in Threads /\ LocalStep(r)
<1> DEFINE t == Head(th[r].todo)
           rest == Tail(th[r].todo)
<1>1. At(r, "create") /\ UNCHANGED serviceVars /\ fresh' = fresh /\ dropped' = dropped
    BY DEF CreateObject, Executes, serviceVars
<1>2. /\ r \in Threads /\ th[r].pc = "create" /\ Resting(th[r].pc)
      /\ th[r] \in ThreadShape /\ ThreadOK(kind[r], th[r]) /\ raced \in BOOLEAN
    BY <1>1, AtPlace DEF Resting
<1>3. kind[r] = "create" /\ th[r].todo \in Seq(Schema) /\ LastEntries(th[r].todo)
    BY <1>2 DEF ThreadOK, Role, Todo, ThreadShape
<1>4. t \in Schema /\ (rest = <<>> => t = "entries")
    BY <1>3, TodoTail DEF LastEntries
<1>5. PICK done \in BOOLEAN, ok \in BOOLEAN :
          /\ Outcome(CanCreate(t), Racing(r), done, ok)
          /\ Effect(done, CreateTable(t))
          /\ CASE ~ok                -> End(r, "error")
               [] ok /\ rest = <<>>  -> End(r, "ok")
               [] ok /\ rest # <<>>  -> Set(r, [th[r] EXCEPT !.todo = rest])
    BY Zenon DEF CreateObject
<1>6. CanCreate(t) \in BOOLEAN /\ Racing(r) \in BOOLEAN
    BY DEF CanCreate, Racing
<1>7. RacedOnly /\ (done => CanCreate(t)) /\ (~raced' => done = ok)
    BY <1>2, <1>5, <1>6, OutcomeIs DEF RacedOnly
<1>8. DbStep(r) /\ contents' \subseteq contents
    BY <1>1, <1>4, <1>5, <1>7 DEF Effect, DbStep, Creates, CreateTable, tableVars
<1>9. CASE ~ok
    <2>1. End(r, "error")
        BY <1>5, <1>9
    <2>. QED
        BY <1>1, <1>2, <1>7, <1>8, <2>1, EndRests DEF LocalStep, DbPart, AnswersTruly, Answers
<1>10. CASE ok /\ rest = <<>>
    <2>1. End(r, "ok")
        BY <1>5, <1>10
    <2>2. ~Ingests(r)
        BY <1>3 DEF Ingests
    <2>3. ThreadPart(r)
        BY <1>1, <1>2, <2>1, <2>2, EndRests DEF Answers
    <2>4. DbInv'
        BY <1>8, DbStepKeeps DEF RInv
    <2>5. ~raced' => tables' = Schema
        BY <1>4, <1>5, <1>7, <1>10, <2>4 DEF Effect, CreateTable, DbInv
    <2>. QED
        BY <1>1, <1>2, <1>7, <1>8, <2>3, <2>5 DEF LocalStep, DbPart, AnswersTruly
<1>11. CASE ok /\ rest # <<>>
    <2>1. Set(r, [th[r] EXCEPT !.todo = rest])
        BY <1>5, <1>11
    <2>2. ThreadPart(r) /\ th'[r].answer = "none"
        BY <1>1, <1>2, <1>11, <2>1, NextObjectRests
    <2>. QED
        BY <1>1, <1>2, <1>7, <1>8, <2>2 DEF LocalStep, DbPart, AnswersTruly
<1>. QED
    BY <1>9, <1>10, <1>11

LEMMA CheckIsLocal ==
    ASSUME RInv, NEW r, CheckTable(r)
    PROVE  r \in Threads /\ LocalStep(r)
<1> DEFINE t == Head(th[r].todo)
           rest == Tail(th[r].todo)
<1>1. At(r, "check") /\ UNCHANGED <<serviceVars, tableVars, dropped>> /\ fresh' = fresh
    BY DEF CheckTable, Executes, serviceVars
<1>2. /\ r \in Threads /\ th[r].pc = "check" /\ Resting(th[r].pc)
      /\ th[r] \in ThreadShape /\ ThreadOK(kind[r], th[r]) /\ raced \in BOOLEAN
    BY <1>1, AtPlace DEF Resting
<1>3. kind[r] = "exists" /\ th[r].todo \in Seq(Schema) /\ LastEntries(th[r].todo)
    BY <1>2 DEF ThreadOK, Role, Todo, ThreadShape
<1>4. rest = <<>> => t = "entries"
    BY <1>3, TodoTail DEF LastEntries
<1>5. PICK ok \in BOOLEAN, there \in BOOLEAN :
          /\ ReadOutcome(TRUE, Racing(r), ok, there = (t \in tables))
          /\ CASE ~ok \/ ~there              -> End(r, "absent")
               [] ok /\ there /\ rest = <<>> -> End(r, "exists")
               [] ok /\ there /\ rest # <<>> -> Set(r, [th[r] EXCEPT !.todo = rest])
    BY Zenon DEF CheckTable
<1>6. TRUE \in BOOLEAN /\ Racing(r) \in BOOLEAN /\ (there = (t \in tables)) \in BOOLEAN
    BY DEF Racing
<1>7. RacedOnly /\ (~raced' => (ok => there = (t \in tables)))
    BY <1>2, <1>5, <1>6, ReadOutcomeIs DEF RacedOnly
<1>8. DbStep(r) /\ contents' \subseteq contents
    BY <1>1 DEF DbStep, tableVars
<1>9. CASE ~ok \/ ~there
    <2>1. End(r, "absent")
        BY <1>5, <1>9
    <2>. QED
        BY <1>1, <1>2, <1>3, <1>7, <1>8, <2>1, EndRests
           DEF LocalStep, DbPart, AnswersTruly, Answers
<1>10. CASE ok /\ there /\ rest = <<>>
    <2>1. End(r, "exists")
        BY <1>5, <1>10
    <2>2. ThreadPart(r)
        BY <1>1, <1>2, <2>1, EndRests DEF Answers
    <2>3. ~raced' => tables' = Schema
        <3>1. tables' = tables
            BY <1>1 DEF tableVars
        <3>2. "entries" \in tables => tables = Schema
            BY DEF RInv, DbInv
        <3>. QED
            BY <1>4, <1>7, <1>10, <3>1, <3>2
    <2>. QED
        BY <1>1, <1>2, <1>7, <1>8, <2>2, <2>3 DEF LocalStep, DbPart, AnswersTruly
<1>11. CASE ok /\ there /\ rest # <<>>
    <2>1. Set(r, [th[r] EXCEPT !.todo = rest])
        BY <1>5, <1>11
    <2>2. ThreadPart(r) /\ th'[r].answer = "none"
        BY <1>1, <1>2, <1>11, <2>1, NextObjectRests
    <2>. QED
        BY <1>1, <1>2, <1>7, <1>8, <2>2 DEF LocalStep, DbPart, AnswersTruly
<1>. QED
    BY <1>9, <1>10, <1>11

LEMMA DestroyIsLocal ==
    ASSUME RInv, NEW r, DestroySchema(r)
    PROVE  r \in Threads /\ LocalStep(r)
<1>1. At(r, "destroy") /\ UNCHANGED <<serviceVars, dbVars, dropped>> /\ fresh' = fresh
    BY DEF DestroySchema, serviceVars
<1>2. /\ r \in Threads /\ th[r].pc = "destroy" /\ Resting(th[r].pc)
      /\ ThreadOK(kind[r], th[r]) /\ raced \in BOOLEAN
    BY <1>1, AtPlace DEF Resting
<1>3. DbStep(r) /\ contents' \subseteq contents /\ RacedOnly
    BY <1>1, <1>2 DEF DbStep, tableVars, dbVars, RacedOnly
<1>4. CASE End(r, "error")
    BY <1>1, <1>2, <1>3, <1>4, EndRests DEF LocalStep, DbPart, AnswersTruly, Answers
<1>5. CASE Goto(r, "drop")
    <2>1. \A y : /\ y.pc = "drop" /\ y.stage = th[r].stage /\ y.size = th[r].size
                 /\ y.todo = th[r].todo
                 => Role(kind[r], y) /\ Course(kind[r], y) /\ Todo(y)
        BY <1>2 DEF ThreadOK, Role, Course, Todo
    <2>2. "drop" \in Pcs /\ Resting("drop")
        BY DEF Pcs, Resting
    <2>3. ThreadPart(r) /\ th'[r].answer = "none"
        BY <1>1, <1>2, <1>5, <2>1, <2>2, GotoRests
    <2>. QED
        BY <1>1, <1>2, <1>3, <2>3 DEF LocalStep, DbPart, AnswersTruly
<1>. QED
    BY <1>4, <1>5 DEF DestroySchema

LEMMA DropIsLocal ==
    ASSUME RInv, NEW r, DropObject(r)
    PROVE  r \in Threads /\ LocalStep(r)
<1> DEFINE t == Head(th[r].todo)
           rest == Tail(th[r].todo)
<1>1. At(r, "drop") /\ UNCHANGED serviceVars /\ fresh' = fresh
    BY DEF DropObject, Executes, serviceVars
<1>2. /\ r \in Threads /\ th[r].pc = "drop" /\ Resting(th[r].pc) /\ dropped \in BOOLEAN
      /\ th[r] \in ThreadShape /\ ThreadOK(kind[r], th[r]) /\ raced \in BOOLEAN
    BY <1>1, AtPlace DEF Resting
<1>3. kind[r] = "drop" /\ th[r].todo \in Seq(Schema) /\ th[r].todo # <<>>
    BY <1>2 DEF ThreadOK, Role, Todo, ThreadShape
<1>4. t \in Schema
    BY <1>3, TodoTail
<1>5. PICK done \in BOOLEAN, ok \in BOOLEAN :
          /\ Outcome(CanDrop(t), Racing(r), done, ok)
          /\ Effect(done, DropTable(t))
          /\ dropped' = (dropped \/ (done /\ t = "entries"))
    BY Zenon DEF DropObject
<1>6. CanDrop(t) \in BOOLEAN /\ Racing(r) \in BOOLEAN
    BY DEF CanDrop, Racing
<1>7. RacedOnly /\ (done => CanDrop(t))
    BY <1>2, <1>5, <1>6, OutcomeIs DEF RacedOnly
<1>8. DbStep(r) /\ contents' \subseteq contents
    <2>1. CASE done
        <3>1. Drops(t)
            BY <1>5, <1>7, <2>1 DEF Effect, Drops
        <3>. QED
            BY <1>4, <3>1 DEF DbStep, Drops, DropTable
    <2>2. CASE ~done
        <3>1. UNCHANGED <<tableVars, dropped>>
            BY <1>2, <1>5, <2>2 DEF Effect
        <3>. QED
            BY <3>1 DEF DbStep, tableVars
    <2>. QED
        BY <2>1, <2>2
<1>9. CASE End(r, "ok")
    <2>1. ThreadPart(r) /\ th'[r].answer = "ok"
        BY <1>1, <1>2, <1>3, <1>9, EndRests DEF Answers, Ingests
    <2>. QED
        BY <1>1, <1>2, <1>3, <1>7, <1>8, <2>1 DEF LocalStep, DbPart, AnswersTruly
<1>10. CASE rest # <<>> /\ Set(r, [th[r] EXCEPT !.todo = rest])
    <2>1. ThreadPart(r) /\ th'[r].answer = "none"
        BY <1>1, <1>2, <1>10, NextObjectRests
    <2>. QED
        BY <1>1, <1>2, <1>7, <1>8, <2>1 DEF LocalStep, DbPart, AnswersTruly
<1>. QED
    BY <1>9, <1>10 DEF DropObject

\* A completion goes on to its next stage, none of whose tasks was used.
LEMMA NextStageRests ==
    ASSUME RInv, fresh' = fresh, NEW r \in Threads, th[r].pc \in {"search", "disconnect"},
           NEW stage \in {"rerank", "complete"}, th[r].stage # "complete",
           stage = "rerank" => th[r].stage = "embed", NEW size \in 1..(N_CHUNKS + N_RETRIEVALS),
           Set(r, [th[r] EXCEPT !.pc = "submit", !.stage = stage, !.size = size])
    PROVE  ThreadPart(r) /\ th'[r].answer = "none"
<1> DEFINE y == [th[r] EXCEPT !.pc = "submit", !.stage = stage, !.size = size]
<1>1. /\ th[r] \in ThreadShape /\ ThreadOK(kind[r], th[r]) /\ Resting(th[r].pc)
      /\ th[r].answer = "none" /\ NewTasks(r)
    BY DEF RInv, ThreadsOK, TaskSide, Resting, ThreadOK, Answered
<1>2. kind[r] \in {"ask", "ask_reranked"}
    BY <1>1 DEF ThreadOK, Role
<1>3. /\ y \in ThreadShape /\ y.pc = "submit" /\ y.stage = stage /\ y.size = size
      /\ y.n = th[r].n /\ y.todo = th[r].todo /\ y.error = th[r].error
      /\ y.closed = th[r].closed /\ y.answer = th[r].answer
    BY <1>1 DEF ThreadShape, Pcs, Stages
<1>4. Set(r, y)
    OBVIOUS
<1> HIDE DEF y
<1>5. ThreadOK(kind[r], y)
    BY <1>1, <1>2, <1>3 DEF ThreadOK, Role, Course, Todo, Answered
<1>6. /\ kind' = kind /\ Threads' = Threads /\ th'[r] = y /\ ThreadsOK'
      /\ \A q \in Threads : q # r => th'[q] = th[q]
    BY <1>4, <1>5, SetMoves DEF RInv
<1>7. th[r].stage \in Stages
    BY <1>1 DEF ThreadShape
<1>8. NewTasks(r)'
    BY <1>1, <1>3, <1>6, <1>7 DEF NewTasks, TasksAt, Stages
<1>9. ~Ingests(r) /\ Resting(y.pc)
    BY <1>2, <1>3 DEF Ingests, Resting
<1>. QED
    BY <1>1, <1>3, <1>6, <1>8, <1>9 DEF ThreadPart

LEMMA SearchIsLocal ==
    ASSUME RInv, NEW r, Search(r)
    PROVE  r \in Threads /\ LocalStep(r)
<1>1. At(r, "search") /\ UNCHANGED <<serviceVars, tableVars, dropped>> /\ fresh' = fresh
    BY DEF Search, Executes, serviceVars
<1>2. /\ r \in Threads /\ th[r].pc = "search" /\ Resting(th[r].pc) /\ kind[r] \in Kinds
      /\ ThreadOK(kind[r], th[r]) /\ raced \in BOOLEAN
    BY <1>1, AtPlace DEF Resting
<1>3. th[r].stage = "embed" /\ kind[r] \in {"ask", "ask_reranked"}
    BY <1>2 DEF ThreadOK, Course, Role
<1>4. PICK ok \in BOOLEAN, rows \in 0..N_RETRIEVALS :
          /\ ReadOutcome("entries" \in tables, Racing(r), ok, rows = Limited(Cardinality(Found)))
          /\ CASE ~ok -> End(r, "error")
               [] ok /\ kind[r] = "ask_reranked" /\ rows > 0 ->
                     Set(r, [th[r] EXCEPT !.pc = "submit", !.stage = "rerank", !.size = rows])
               [] OTHER -> Goto(r, "disconnect")
    BY Zenon DEF Search
<1>5. ("entries" \in tables) \in BOOLEAN /\ Racing(r) \in BOOLEAN
      /\ (rows = Limited(Cardinality(Found))) \in BOOLEAN
    BY DEF Racing
<1>6. RacedOnly
    BY <1>2, <1>4, <1>5, ReadOutcomeIs DEF RacedOnly
<1>7. DbStep(r) /\ contents' \subseteq contents
    BY <1>1 DEF DbStep, tableVars
<1>8. CASE ~ok
    <2>1. End(r, "error")
        BY <1>4, <1>8
    <2>. QED
        BY <1>1, <1>2, <1>3, <1>6, <1>7, <2>1, EndRests
           DEF LocalStep, DbPart, AnswersTruly, Answers
<1>9. CASE ok /\ kind[r] = "ask_reranked" /\ rows > 0
    <2>1. Set(r, [th[r] EXCEPT !.pc = "submit", !.stage = "rerank", !.size = rows])
        BY <1>4, <1>9
    <2>2. rows \in 1..(N_CHUNKS + N_RETRIEVALS)
        BY <1>4, <1>9, RagConstants
    <2>3. ThreadPart(r) /\ th'[r].answer = "none"
        BY <1>1, <1>2, <1>3, <2>1, <2>2, NextStageRests
    <2>. QED
        BY <1>1, <1>2, <1>6, <1>7, <2>3 DEF LocalStep, DbPart, AnswersTruly
<1>10. CASE ok /\ ~(kind[r] = "ask_reranked" /\ rows > 0)
    <2>1. Goto(r, "disconnect")
        BY <1>4, <1>10
    <2>2. \A y : y.pc = "disconnect" /\ y.stage = th[r].stage /\ y.size = th[r].size =>
              Role(kind[r], y) /\ Course(kind[r], y) /\ Todo(y)
        BY <1>2, <1>3 DEF ThreadOK, Role, Course, Todo
    <2>3. "disconnect" \in Pcs /\ Resting("disconnect")
        BY DEF Pcs, Resting
    <2>4. ThreadPart(r) /\ th'[r].answer = "none"
        BY <1>1, <1>2, <2>1, <2>2, <2>3, GotoRests
    <2>. QED
        BY <1>1, <1>2, <1>6, <1>7, <2>4 DEF LocalStep, DbPart, AnswersTruly
<1>. QED
    BY <1>8, <1>9, <1>10

LEMMA DisconnectIsLocal ==
    ASSUME RInv, NEW r, Disconnect(r)
    PROVE  r \in Threads /\ LocalStep(r)
<1>1. At(r, "disconnect") /\ UNCHANGED <<serviceVars, tableVars, dropped>> /\ fresh' = fresh
    BY DEF Disconnect, serviceVars
<1>2. /\ r \in Threads /\ th[r].pc = "disconnect" /\ Resting(th[r].pc)
      /\ ThreadOK(kind[r], th[r]) /\ raced \in BOOLEAN
    BY <1>1, AtPlace DEF Resting
<1>3. th[r].stage # "complete"
    BY <1>2 DEF ThreadOK, Course
<1>4. RacedOnly
    BY <1>2 DEF Disconnect, RacedOnly
<1>5. DbStep(r) /\ contents' \subseteq contents
    BY <1>1 DEF DbStep, tableVars
<1>6. Set(r, [th[r] EXCEPT !.pc = "submit", !.stage = "complete", !.size = 1])
    BY DEF Disconnect
<1>7. 1 \in 1..(N_CHUNKS + N_RETRIEVALS)
    BY RagConstants
<1>8. ThreadPart(r) /\ th'[r].answer = "none"
    BY <1>1, <1>2, <1>3, <1>6, <1>7, NextStageRests
<1>. QED
    BY <1>1, <1>2, <1>4, <1>5, <1>8 DEF LocalStep, DbPart, AnswersTruly

-----------------------------------------------------------------------------
(* Such steps keep the invariant.                                          *)

\* What holds of a thread and the task server is about that thread alone.
TaskPart(r) == NewTasks(r) /\ Expects(r) /\ Settled(r) /\ WaitsFor(r)

\* A step that touches no task of thread q, nor what q knows of its tasks, keeps it.
Untouched(t) ==
    /\ t \in fresh' <=> t \in fresh
    /\ t \in posted' <=> t \in posted
    /\ t \in waiting_task_ids' <=> t \in waiting_task_ids
    /\ HasResult(t)' <=> HasResult(t)

SameStage(q) == /\ th'[q].pc = th[q].pc /\ th'[q].stage = th[q].stage
                /\ th'[q].size = th[q].size /\ th'[q].n = th[q].n

LEMMA OtherTaskPart ==
    ASSUME NEW q, TaskPart(q), kind' = kind, SameStage(q), waiting_task_ids' \subseteq Tasks,
           \A t \in Tasks : t[1] = q => Untouched(t)
    PROVE  TaskPart(q)'
<1>1. /\ Ids(q)' = Ids(q) /\ Ids(q) \subseteq Tasks /\ \A t \in Ids(q) : t[1] = q
      /\ TasksAt(q, th[q].stage)' = TasksAt(q, th[q].stage)
      /\ Active(q)' = Active(q) /\ Ingests(q)' = Ingests(q)
    BY DEF SameStage, Ids, TasksAt, Active, Ingests
<1>2. Outstanding(q)' = Outstanding(q)
    BY <1>1 DEF Outstanding, Untouched
<1>3. \A t \in Tasks : t[1] = q /\ Clean(t) => Clean(t)'
    BY DEF Clean, Untouched
<1>4. \A s : TasksAt(q, s) \subseteq fresh => TasksAt(q, s) \subseteq fresh'
    BY DEF TasksAt, Untouched
<1>5. NewTasks(q)'
    <2>1. Unsubmitted(q)' = Unsubmitted(q)
        BY <1>1 DEF Unsubmitted, SameStage
    <2>2. /\ TasksAt(q, "rerank")' = TasksAt(q, "rerank")
          /\ TasksAt(q, "complete")' = TasksAt(q, "complete")
        BY DEF TasksAt
    <2>. QED
        BY <1>1, <1>4, <2>1, <2>2 DEF TaskPart, NewTasks, SameStage
<1>6. Expects(q)'
    <2>1. ASSUME Active(q) PROVE Ids(q) \subseteq waiting_task_ids'
        BY <1>1, <2>1 DEF TaskPart, Expects, Untouched
    <2>. QED
        BY <1>1, <1>2, <2>1 DEF TaskPart, Expects, SameStage
<1>7. Settled(q)'
    BY <1>1, <1>3 DEF TaskPart, Settled
<1>8. WaitsFor(q)'
    <2>1. ASSUME NEW t \in waiting_task_ids', t[1] = q PROVE t \in waiting_task_ids
        BY <2>1 DEF Untouched
    <2>. QED
        BY <1>1, <2>1 DEF TaskPart, WaitsFor, SameStage
<1>. QED
    BY <1>5, <1>6, <1>7, <1>8 DEF TaskPart

LEMMA ServiceUnchanged ==
    ASSUME UNCHANGED serviceVars
    PROVE  /\ UNCHANGED <<fresh, posted, queue_results, waiting_task_ids>>
           /\ \A t : Untouched(t)
    BY DEF serviceVars, responseVars, Untouched, HasResult

LEMMA LocalTaskSide ==
    ASSUME RInv, NEW r \in Threads, UNCHANGED serviceVars, ThreadPart(r)
    PROVE  TaskSide'
<1>1. /\ UNCHANGED <<fresh, posted, queue_results, waiting_task_ids>>
      /\ kind' = kind /\ Threads' = Threads
      /\ \A q \in Threads : q # r => th'[q] = th[q]
      /\ Resting(th[r].pc) /\ Resting(th'[r].pc) /\ NewTasks(r)'
    BY DEF serviceVars, responseVars, ThreadPart
<1>2. /\ ServiceInv /\ AnswersOnly /\ waiting_task_ids \subseteq Tasks
      /\ \A q \in Threads : TaskPart(q)
    BY DEF RInv, TaskSide, TaskPart
<1>3. ServiceInv'
    BY <1>2, ServiceStepKeeps
<1>4. AnswersOnly' /\ (waiting_task_ids \subseteq Tasks)'
    BY <1>1, <1>2 DEF AnswersOnly
<1>5. ~Active(r) /\ ~Active(r)' /\ th[r].pc # "leave"
    BY <1>1 DEF Active, Resting
<1>6. TaskPart(r)'
    <2>1. \A t : Clean(t) => Clean(t)'
        BY <1>1 DEF Clean, HasResult
    <2>2. Settled(r)'
        BY <1>2, <1>5, <2>1 DEF TaskPart, Settled
    <2>3. WaitsFor(r)'
        BY <1>1, <1>2, <1>5 DEF TaskPart, WaitsFor
    <2>4. Expects(r)'
        BY <1>5 DEF Expects
    <2>. QED
        BY <1>1, <2>2, <2>3, <2>4 DEF TaskPart
<1>7. ASSUME NEW q \in Threads PROVE TaskPart(q)'
    BY <1>1, <1>2, <1>4, <1>6, ServiceUnchanged, OtherTaskPart DEF SameStage
<1>. QED
    BY <1>1, <1>3, <1>4, <1>7 DEF TaskSide, TaskPart

\* The chunks that are stored stay until the schema is dropped.
LEMMA EntriesStay ==
    ASSUME NEW r, DbStep(r), dropped \in BOOLEAN
    PROVE  dropped' \in BOOLEAN /\ (~dropped' => ~dropped /\ entries \subseteq entries')
<1>1. CASE UNCHANGED <<tableVars, dropped>>
    BY <1>1 DEF tableVars
<1>2. ASSUME NEW t \in Schema, Creates(t) \/ Drops(t)
      PROVE  dropped' \in BOOLEAN /\ (~dropped' => ~dropped /\ entries \subseteq entries')
    BY <1>2 DEF Creates, CreateTable, Drops, DropTable
<1>3. CASE Inserts \/ Deletes \/ StoresContent(Chunk(r)) \/ StoresEntry(Entry(r))
    BY <1>3 DEF Inserts, InsertDocument, Deletes, Delete, StoresContent, InsertContent,
                StoresEntry, InsertEntry
<1>. QED
    BY <1>1, <1>2, <1>3 DEF DbStep

\* A thread that stays where it is keeps what it has stored.
LEMMA OtherProgress ==
    ASSUME NEW q, Progress(q), kind' = kind, th'[q] = th[q],
           ~raced' => ~raced, ~dropped' => ~dropped /\ entries \subseteq entries'
    PROVE  Progress(q)'
<1>1. Ingests(q)' = Ingests(q)
    BY DEF Ingests
<1>2. \A m : ~dropped' /\ StoredChunks(q, m) => StoredChunks(q, m)'
    BY DEF StoredChunks
<1>. QED
    BY <1>1, <1>2 DEF Progress

\* What is to be shown of a step of thread r.
Kept(r) == RInv' /\ DbStep(r) /\ \A q \in Threads : AnswersTruly(q)

LEMMA LocalStepKeeps ==
    ASSUME RInv, NEW r \in Threads, LocalStep(r)
    PROVE  Kept(r)
<1>1. /\ ThreadsOK' /\ kind' = kind /\ Threads' = Threads
      /\ \A q \in Threads : q # r => th'[q] = th[q]
      /\ Resting(th[r].pc) /\ Resting(th'[r].pc) /\ th'[r].error = th[r].error
      /\ Ingests(r) => th'[r].answer # "ok"
    BY DEF LocalStep, ThreadPart
<1>2. DbStep(r) /\ contents' \subseteq contents /\ RacedOnly /\ AnswersTruly(r)
    BY DEF LocalStep, DbPart
<1>3. DbInv'
    BY <1>2, DbStepKeeps DEF RInv
<1>4. TaskSide'
    BY LocalTaskSide DEF LocalStep
<1>5. dropped' \in BOOLEAN /\ (~dropped' => ~dropped /\ entries \subseteq entries')
    BY <1>2, EntriesStay DEF RInv, StoreSide
<1>6. ASSUME NEW q \in Threads PROVE Progress(q)'
    <2>1. CASE q = r
        BY <1>1, <2>1 DEF Progress, Resting, Ingests
    <2>2. CASE q # r
        BY <1>1, <1>2, <1>5, <2>2, OtherProgress DEF RInv, StoreSide, RacedOnly
    <2>. QED
        BY <2>1, <2>2
<1>7. ASSUME ~raced', ~dropped', NEW c \in contents' PROVE Accounted(c)'
    <2>1. Accounted(c)
        BY <1>2, <1>5, <1>7 DEF RInv, StoreSide, RacedOnly
    <2>2. CASE \E e \in entries : e.content = c
        BY <1>5, <1>7, <2>2 DEF Accounted
    <2>3. ASSUME NEW q \in Threads, Ingests(q), (th[q].pc = "entry" /\ Chunk(q) = c) \/ th[q].error
          PROVE  Accounted(c)'
        <3>1. Ingests(q)'
            BY <1>1, <2>3 DEF Ingests
        <3>2. (th'[q].pc = "entry" /\ Chunk(q)' = c) \/ th'[q].error
            BY <1>1, <2>3 DEF Resting, Chunk
        <3>. QED
            BY <1>1, <3>1, <3>2 DEF Accounted
    <2>. QED
        BY <2>1, <2>2, <2>3 DEF Accounted
<1>8. StoreSide'
    BY <1>1, <1>2, <1>5, <1>6, <1>7 DEF StoreSide, RacedOnly
<1>9. \A q \in Threads : AnswersTruly(q)
    BY <1>1, <1>2 DEF AnswersTruly
<1>. QED
    BY <1>1, <1>2, <1>3, <1>4, <1>8, <1>9 DEF RInv, Kept

-----------------------------------------------------------------------------
(* Steps that pass tasks and results, and those that store them.           *)

LEMMA MoveKeeps ==
    ASSUME RInv, NEW r \in Threads, NEW y, Set(r, y), ThreadOK(kind[r], y),
           y.answer # th[r].answer => kind[r] # "create" /\ y.answer # "exists",
           DbStep(r), RacedOnly,
           ServiceInv', AnswersOnly', waiting_task_ids' \subseteq Tasks,
           TaskPart(r)', \A t \in Tasks : t[1] # r => Untouched(t),
           Progress(r)', ~raced' /\ ~dropped' => \A c \in contents' : Accounted(c)'
    PROVE  Kept(r)
<1>1. /\ kind' = kind /\ Threads' = Threads /\ th'[r] = y /\ ThreadsOK'
      /\ \A q \in Threads : q # r => th'[q] = th[q]
    BY SetMoves DEF RInv
<1>2. DbInv'
    BY DbStepKeeps DEF RInv
<1>3. dropped' \in BOOLEAN /\ (~dropped' => ~dropped /\ entries \subseteq entries')
    BY EntriesStay DEF RInv, StoreSide
<1>4. ASSUME NEW q \in Threads, q # r PROVE TaskPart(q)' /\ Progress(q)'
    <2>1. TaskPart(q) /\ Progress(q)
        BY DEF RInv, TaskSide, StoreSide, TaskPart
    <2>2. SameStage(q) /\ th'[q] = th[q]
        BY <1>1, <1>4 DEF SameStage
    <2>3. TaskPart(q)'
        BY <1>1, <1>4, <2>1, <2>2, OtherTaskPart
    <2>4. Progress(q)'
        BY <1>1, <1>3, <2>1, <2>2, OtherProgress DEF RacedOnly
    <2>. QED
        BY <2>3, <2>4
<1>5. TaskSide'
    BY <1>1, <1>4 DEF TaskSide, TaskPart
<1>6. StoreSide'
    BY <1>1, <1>3, <1>4 DEF StoreSide, RacedOnly
<1>7. \A q \in Threads : AnswersTruly(q)
    BY <1>1 DEF AnswersTruly
<1>. QED
    BY <1>1, <1>2, <1>5, <1>6, <1>7 DEF RInv, Kept

\* The contents are accounted for as before, if the database rests.
LEMMA QuietAccounts ==
    ASSUME RInv, NEW r \in Threads, NEW y, Set(r, y), UNCHANGED <<dbVars, dropped>>,
           th[r].pc = "entry" => y.pc = "entry" /\ y.n = th[r].n, th[r].error => y.error
    PROVE  DbStep(r) /\ RacedOnly /\ (~raced' /\ ~dropped' => \A c \in contents' : Accounted(c)')
<1>1. /\ kind' = kind /\ Threads' = Threads /\ th'[r] = y
      /\ \A q \in Threads : q # r => th'[q] = th[q]
    BY SetMoves DEF RInv
<1>2. UNCHANGED <<tables, documents, contents, entries, raced, dropped>>
    BY DEF dbVars, tableVars
<1>3. ASSUME ~raced', ~dropped', NEW c \in contents' PROVE Accounted(c)'
    <2>1. Accounted(c)
        BY <1>2, <1>3 DEF RInv, StoreSide
    <2>2. CASE \E e \in entries : e.content = c
        BY <1>2, <2>2 DEF Accounted
    <2>3. ASSUME NEW q \in Threads, Ingests(q), (th[q].pc = "entry" /\ Chunk(q) = c) \/ th[q].error
          PROVE  Accounted(c)'
        <3>1. Ingests(q)'
            BY <1>1, <2>3 DEF Ingests
        <3>2. (th'[q].pc = "entry" /\ Chunk(q)' = c) \/ th'[q].error
            BY <1>1, <2>3 DEF Chunk
        <3>. QED
            BY <1>1, <3>1, <3>2 DEF Accounted
    <2>. QED
        BY <2>1, <2>2, <2>3 DEF Accounted
<1>. QED
    BY <1>2, <1>3 DEF DbStep, tableVars, RacedOnly, RInv, StoreSide

-----------------------------------------------------------------------------
(* Tasks and results of a thread.                                          *)

\* A stage of size n has n tasks.
LEMMA IdsOfStage ==
    ASSUME NEW r \in Requests, th[r] \in ThreadShape
    PROVE  /\ IsFiniteSet(Ids(r)) /\ Cardinality(Ids(r)) = th[r].size
           /\ Ids(r) \subseteq TasksAt(r, th[r].stage)
           /\ \A t \in Ids(r) : t \in Tasks /\ t[1] = r /\ t[2] = th[r].stage
<1> DEFINE n == th[r].size
           s == th[r].stage
           f == [k \in 1..n |-> <<r, s, k>>]
<1>1. n \in 1..(N_CHUNKS + N_RETRIEVALS) /\ n \in Nat /\ s \in Stages
    BY RagConstants DEF ThreadShape
<1>2. \A k \in 1..n : <<r, s, k>> \in Tasks
    BY <1>1, RagConstants
<1>3. \A k \in 1..n : <<r, s, k>> \in Ids(r)
    BY <1>1, <1>2 DEF Ids, TasksAt
<1>4. \A t \in Ids(r) : t[3] \in 1..n /\ t = <<r, s, t[3]>>
    <2>1. ASSUME NEW t \in Ids(r) PROVE t[3] \in 1..n /\ t = <<r, s, t[3]>>
        <3>1. t \in Requests \X Stages \X (1..(N_CHUNKS + N_RETRIEVALS)) /\ t[1] = r /\ t[2] = s
              /\ t[3] <= n
            BY <2>1, RagConstants DEF Ids, TasksAt
        <3>. QED
            BY <1>1, <3>1, RagConstants
    <2>. QED
        BY <2>1
<1>5. f \in Bijection(1..n, Ids(r))
    <2>1. f \in [1..n -> Ids(r)]
        BY <1>3
    <2>2. \A j, k \in 1..n : f[j] = f[k] => j = k
        OBVIOUS
    <2>3. \A t \in Ids(r) : \E k \in 1..n : f[k] = t
        BY <1>4
    <2>. QED
        BY <2>1, <2>2, <2>3 DEF Bijection, Injection, Surjection, IsInjective
<1>6. IsFiniteSet(1..n) /\ Cardinality(1..n) = n
    <2>1. n \in Int /\ 1 \in Int /\ 1 <= n
        BY <1>1
    <2> HIDE DEF n
    <2>2. IsFiniteSet(1..n) /\ Cardinality(1..n) = IF 1 > n THEN 0 ELSE n - 1 + 1
        BY <2>1, FS_Interval
    <2>. QED
        BY <2>1, <2>2
<1>7. ExistsBijection(1..n, Ids(r))
    BY <1>5 DEF ExistsBijection
<1>8. IsFiniteSet(Ids(r)) /\ Cardinality(Ids(r)) = n
    BY <1>6, <1>7, FS_Bijection
<1>. QED
    BY <1>8 DEF Ids, TasksAt

\* What is left of the results when some are removed, ...
LEMMA ResultsKept ==
    ASSUME queue_results \in Seq(TaskResult), AnswersOnly, NEW K \in SUBSET DOMAIN queue_results,
           queue_results' = KeepAt(queue_results, K)
    PROVE  /\ AnswersOnly'
           /\ \A t : HasResult(t)' <=> \E i \in K : queue_results[i].id = t
<1> DEFINE q == queue_results'
<1>1. PICK e \in [DOMAIN q -> K] :
          /\ \A n \in DOMAIN q : q[n] = queue_results[e[n]]
          /\ \A i \in K : \E n \in DOMAIN q : e[n] = i
    BY KeepAtOrigin
<1>2. \A n \in DOMAIN q : e[n] \in K /\ e[n] \in DOMAIN queue_results
    BY <1>1
<1>3. AnswersOnly'
    BY <1>1, <1>2 DEF AnswersOnly
<1>4. \A t : HasResult(t)' <=> \E i \in K : queue_results[i].id = t
    BY <1>1, <1>2 DEF HasResult
<1>. QED
    BY <1>3, <1>4

\* ... and when one is sent.
LEMMA ResultSent ==
    ASSUME queue_results \in Seq(TaskResult), AnswersOnly, NEW t \in Tasks,
           NEW k \in {"final", "error"}, Send(<<>> \o <<Result(t, k)>>)
    PROVE  /\ AnswersOnly'
           /\ \A u : HasResult(u)' <=> HasResult(u) \/ (u = t /\ t \in waiting_task_ids)
<1> DEFINE x == Result(t, k)
           s == <<>> \o <<x>>
           K == {i \in DOMAIN s : s[i].id \in waiting_task_ids}
           a == KeepAt(s, K)
           q == queue_results
<1>1. x \in TaskResult /\ x.id = t /\ x.kind # "partial"
    BY DEF Result, TaskResult, ResultKinds
<1>2. s \in Seq(TaskResult) /\ DOMAIN s = {1} /\ s[1] = x
    BY <1>1, ShortSequences
<1>3. queue_results' = q \o a
    BY DEF Send
<1>4. K \in SUBSET DOMAIN s /\ \A i \in K : s[i] = x
    BY <1>2
<1>5. t \in waiting_task_ids <=> 1 \in K
    BY <1>1, <1>2
<1>6. t \in waiting_task_ids <=> K # {}
    BY <1>1, <1>2
<1> HIDE DEF x, s, K
<1>7. /\ a \in Seq(TaskResult)
      /\ \A n \in DOMAIN a : a[n] = x
      /\ t \in waiting_task_ids <=> DOMAIN a # {}
    <2>1. a \in Seq(TaskResult)
        BY <1>2, <1>4, KeepAtOrigin
    <2>2. PICK e \in [DOMAIN a -> K] :
              /\ \A n \in DOMAIN a : a[n] = s[e[n]]
              /\ \A i \in K : \E n \in DOMAIN a : e[n] = i
        BY <1>2, <1>4, KeepAtOrigin
    <2> HIDE DEF a
    <2>3. \A n \in DOMAIN a : e[n] \in K
        BY <2>2
    <2>4. K # {} <=> DOMAIN a # {}
        BY <2>2, <2>3
    <2>. QED
        BY <1>4, <1>6, <2>1, <2>2, <2>3, <2>4
<1> HIDE DEF a
<1>8. q \o a \in Seq(TaskResult) /\ Range(q \o a) = Range(q) \cup Range(a)
    BY <1>7, RangeOfConcat
<1>9. \A u : /\ HasResult(u) <=> \E y \in Range(q) : y.id = u
             /\ HasResult(u)' <=> \E y \in Range(q \o a) : y.id = u
    BY <1>3 DEF HasResult, Range
<1>10. \A y \in Range(a) : y = x
    BY <1>7 DEF Range
<1>11. t \in waiting_task_ids <=> Range(a) # {}
    BY <1>7 DEF Range
<1>12. AnswersOnly'
    <2>1. \A y \in Range(q) : y.kind # "partial"
        BY DEF AnswersOnly, Range
    <2>2. \A y \in Range(q \o a) : y.kind # "partial"
        BY <1>1, <1>8, <1>10, <2>1
    <2>. QED
        BY <1>3, <2>2 DEF AnswersOnly, Range
<1>13. ASSUME NEW u PROVE HasResult(u)' <=> HasResult(u) \/ (u = t /\ t \in waiting_task_ids)
    BY <1>1, <1>8, <1>9, <1>10, <1>11
<1>. QED
    BY <1>12, <1>13

LEMMA AtWork ==
    ASSUME RInv, NEW r \in Threads
    PROVE  /\ r \in Requests /\ TaskPart(r) /\ Progress(r) /\ AnswersOnly
           /\ waiting_task_ids \subseteq Tasks /\ ServiceInv
           /\ fresh \subseteq Tasks /\ posted \subseteq Tasks /\ fresh \cap posted = {}
           /\ queue_results \in Seq(TaskResult) /\ Once(queue_results, fresh \cup posted)
    BY DEF RInv, ThreadsOK, TaskSide, StoreSide, TaskPart, ServiceInv, ServiceTypeOK

LEMMA SubmitKeeps ==
    ASSUME RInv, NEW r, Submit(r)
    PROVE  r \in Threads /\ Kept(r)
<1> DEFINE I == Ids(r)
           y == [th[r] EXCEPT !.pc = "receive", !.n = th[r].size]
<1>1. At(r, "submit") /\ UNCHANGED <<dbVars, dropped>> /\ Set(r, y)
    BY DEF Submit
<1>2. /\ r \in Threads /\ th[r].pc = "submit" /\ th[r] \in ThreadShape
      /\ ThreadOK(kind[r], th[r])
    BY <1>1, AtPlace
<1>3. /\ waiting_task_ids' = waiting_task_ids \cup I /\ fresh' = fresh \ I
      /\ posted' = posted \cup I /\ queue_results' = queue_results
    BY DEF Submit, AddWaiting
<1>4. /\ r \in Requests /\ TaskPart(r) /\ Progress(r) /\ AnswersOnly
      /\ waiting_task_ids \subseteq Tasks /\ fresh \subseteq Tasks /\ posted \subseteq Tasks
      /\ fresh \cap posted = {} /\ queue_results \in Seq(TaskResult)
      /\ Once(queue_results, fresh \cup posted)
    BY <1>2, AtWork
<1>5. /\ IsFiniteSet(I) /\ Cardinality(I) = th[r].size /\ I \subseteq TasksAt(r, th[r].stage)
      /\ \A t \in I : t \in Tasks /\ t[1] = r /\ t[2] = th[r].stage
    BY <1>2, <1>4, IdsOfStage
<1>6. I \subseteq fresh
    BY <1>2, <1>4, <1>5 DEF TaskPart, NewTasks, Unsubmitted
<1>7. /\ th[r].answer = "none" /\ th[r].size \in Nat /\ th[r].size > 0
      /\ kind[r] \in {"ingest", "ingest_by_id", "ask", "ask_reranked"}
    <2>1. th[r].size \in 1..(N_CHUNKS + N_RETRIEVALS)
        BY <1>2 DEF ThreadShape
    <2>. QED
        BY <1>2, <2>1, RagConstants DEF ThreadOK, Role, Answered
<1>8. /\ y \in ThreadShape /\ y.pc = "receive" /\ y.stage = th[r].stage /\ y.size = th[r].size
      /\ y.n = th[r].size /\ y.todo = th[r].todo /\ y.error = th[r].error
      /\ y.closed = th[r].closed /\ y.answer = th[r].answer
    BY <1>2, <1>7 DEF ThreadShape, Pcs
<1> HIDE DEF y
<1>9. ThreadOK(kind[r], y)
    BY <1>2, <1>7, <1>8 DEF ThreadOK, Role, Course, Todo, Answered
<1>10. /\ kind' = kind /\ Threads' = Threads /\ th'[r] = y
    BY <1>1, <1>2, SetMoves DEF RInv
<1>11. ServiceInv' /\ AnswersOnly' /\ waiting_task_ids' \subseteq Tasks
    <2>1. /\ fresh' \subseteq Tasks /\ posted' \subseteq Tasks /\ fresh' \cap posted' = {}
          /\ fresh' \cup posted' = fresh \cup posted
        BY <1>3, <1>4, <1>5, <1>6
    <2>2. ServiceInv'
        BY <1>3, <1>4, <2>1 DEF ServiceInv, ServiceTypeOK
    <2>. QED
        BY <1>3, <1>4, <1>5, <2>2 DEF AnswersOnly
<1>12. I' = I /\ Active(r)' /\ ~Active(r)
    BY <1>2, <1>8, <1>10 DEF Ids, TasksAt, Active
<1>13. \A t : HasResult(t)' <=> HasResult(t)
    BY <1>3 DEF HasResult
<1>14. TaskPart(r)'
    <2>1. Outstanding(r)' = I
        BY <1>3, <1>12 DEF Outstanding
    <2>2. Expects(r)'
        BY <1>3, <1>5, <1>8, <1>10, <1>12, <2>1 DEF Expects
    <2>3. ASSUME NEW t \in Tasks, t[1] = r, t \notin I PROVE Clean(t)'
        BY <1>3, <1>4, <1>12, <1>13, <2>3 DEF TaskPart, Settled, Clean
    <2>4. Settled(r)'
        BY <1>12, <2>3 DEF Settled
    <2>5. WaitsFor(r)'
        BY <1>2, <1>3, <1>4, <1>12 DEF TaskPart, WaitsFor
    <2>6. NewTasks(r)'
        <3>1. \A s : TasksAt(r, s)' = TasksAt(r, s)
            BY DEF TasksAt
        <3>2. \A s : s # th[r].stage /\ TasksAt(r, s) \subseteq fresh =>
                  TasksAt(r, s) \subseteq fresh'
            BY <1>3, <1>5 DEF TasksAt
        <3>3. ~Unsubmitted(r)'
            BY <1>8, <1>10 DEF Unsubmitted
        <3>. QED
            BY <1>4, <1>8, <1>10, <3>1, <3>2, <3>3 DEF TaskPart, NewTasks
    <2>. QED
        BY <2>2, <2>4, <2>5, <2>6 DEF TaskPart
<1>15. \A t \in Tasks : t[1] # r => Untouched(t)
    BY <1>3, <1>5, <1>13 DEF Untouched
<1>16. Progress(r)'
    <2>1. Ingests(r)' => y.n = N_CHUNKS
        BY <1>2, <1>8, <1>10 DEF Ingests, ThreadOK, Course
    <2>2. y.n = N_CHUNKS => N_CHUNKS - th'[r].n = 0
        BY <1>10, RagConstants
    <2>3. StoredChunks(r, 0)'
        BY DEF StoredChunks
    <2>. QED
        BY <1>7, <1>8, <1>10, <2>1, <2>2, <2>3 DEF Progress
<1>17. DbStep(r) /\ RacedOnly /\ (~raced' /\ ~dropped' => \A c \in contents' : Accounted(c)')
    BY <1>1, <1>2, <1>8, QuietAccounts
<1>. QED
    BY <1>1, <1>2, <1>7, <1>8, <1>9, <1>11, <1>14, <1>15, <1>16, <1>17, MoveKeeps

\* The result that is taken is the only one for its task, and the task is done.
LEMMA FinalTaken ==
    ASSUME RInv, NEW r \in Threads, Active(r), NEW i \in Matches(Ids(r)), TakeResult(i),
           UNCHANGED <<fresh, posted>>, Ids(r)' = Ids(r)
    PROVE  /\ ServiceInv' /\ AnswersOnly' /\ waiting_task_ids' = waiting_task_ids
           /\ \A t \in Tasks : t[1] # r => Untouched(t)
           /\ \A t : Clean(t) => Clean(t)'
           /\ IsFiniteSet(Outstanding(r)') /\ Cardinality(Outstanding(r)') = th[r].n - 1
<1> DEFINE q == queue_results
           K == DOMAIN q \ {i}
<1>0. PICK u : u = q[i].id
    OBVIOUS
<1>1. /\ r \in Requests /\ TaskPart(r) /\ AnswersOnly /\ ServiceInv
      /\ q \in Seq(TaskResult) /\ Once(q, fresh \cup posted)
    BY AtWork
<1>2. th[r] \in ThreadShape
    BY DEF RInv, ThreadsOK
<1>3. i \in DOMAIN q /\ u \in Ids(r)
    BY <1>0 DEF Matches
<1>4. IsFiniteSet(Ids(r)) /\ \A t \in Ids(r) : t \in Tasks /\ t[1] = r
    BY <1>1, <1>2, IdsOfStage
<1>5. /\ u \notin posted /\ \A j \in DOMAIN q : q[j].id = u => j = i
    <2>1. q[i].kind # "partial"
        BY <1>1, <1>3 DEF AnswersOnly
    <2>2. ASSUME NEW j \in DOMAIN q, q[j].id = u PROVE j = i
        <3>1. q[j].kind # "partial"
            BY <1>1, <2>2 DEF AnswersOnly
        <3>2. j <= i /\ i <= j
            BY <1>0, <1>1, <1>3, <2>1, <2>2, <3>1 DEF Once
        <3>3. i \in Int /\ j \in Int
            BY <1>1, <1>3, LenProperties
        <3>. QED
            BY <3>2, <3>3
    <2>. QED
        BY <1>0, <1>1, <1>3, <2>1, <2>2 DEF Once
<1>6. queue_results' = KeepAt(q, K) /\ waiting_task_ids' = waiting_task_ids
    BY DEF TakeResult, EraseAt
<1>7. AnswersOnly' /\ \A t : HasResult(t)' <=> \E j \in K : q[j].id = t
    <2>1. K \in SUBSET DOMAIN q
        OBVIOUS
    <2>. QED
        BY <1>1, <1>6, <2>1, ResultsKept
<1>8. ~HasResult(u)' /\ \A t : t # u => (HasResult(t)' <=> HasResult(t))
    BY <1>0, <1>5, <1>7 DEF HasResult
<1>9. ServiceInv'
    <2>1. TakeOne
        BY <1>3 DEF TakeOne
    <2>. QED
        BY <1>1, <2>1, ServiceStepKeeps DEF ServiceNext
<1>10. u \in Outstanding(r)
    BY <1>0, <1>3 DEF Outstanding, HasResult
<1>11. Outstanding(r)' = Outstanding(r) \ {u}
    BY <1>5, <1>8, <1>10 DEF Outstanding
<1>12. IsFiniteSet(Outstanding(r))
    <2>1. Outstanding(r) \in SUBSET Ids(r)
        BY DEF Outstanding
    <2>. QED
        BY <1>4, <2>1, FS_Subset
<1>13. th[r].n = Cardinality(Outstanding(r))
    BY <1>1 DEF TaskPart, Expects
<1>14. IsFiniteSet(Outstanding(r)') /\ Cardinality(Outstanding(r)') = th[r].n - 1
    BY <1>10, <1>11, <1>12, <1>13, FS_RemoveElement
<1>15. \A t \in Tasks : t[1] # r => Untouched(t)
    <2>1. u[1] = r
        BY <1>3, <1>4
    <2>. QED
        BY <1>6, <1>8, <2>1 DEF Untouched
<1>16. \A t : Clean(t) => Clean(t)'
    BY <1>5, <1>6, <1>8 DEF Clean
<1>. QED
    BY <1>6, <1>7, <1>9, <1>14, <1>15, <1>16

LEMMA FinalKeeps ==
    ASSUME RInv, NEW r, ReceiveFinal(r)
    PROVE  r \in Threads /\ Kept(r)
<1> DEFINE n == th[r].n - 1
           pc == CASE Ingests(r) /\ ~th[r].error -> "content"
                   [] n = 0 /\ (~Ingests(r) \/ th[r].error) -> Received(r)
                   [] OTHER -> "receive"
           y == [th[r] EXCEPT !.n = n, !.pc = pc]
<1>1. /\ At(r, "receive") /\ UNCHANGED <<dbVars, dropped>> /\ Set(r, y)
      /\ UNCHANGED <<fresh, posted>>
    BY DEF ReceiveFinal
<1>2. /\ r \in Threads /\ th[r].pc = "receive" /\ th[r] \in ThreadShape
      /\ ThreadOK(kind[r], th[r])
    BY <1>1, AtPlace
<1>3. /\ r \in Requests /\ TaskPart(r) /\ Progress(r) /\ waiting_task_ids \subseteq Tasks
    BY <1>2, AtWork
<1>4. /\ th[r].answer = "none" /\ th[r].n \in Nat /\ th[r].n > 0 /\ th[r].error \in BOOLEAN
      /\ th[r].stage \in Stages
      /\ kind[r] \in {"ingest", "ingest_by_id", "ask", "ask_reranked"}
      /\ Ingests(r) => th[r].stage = "embed"
    BY <1>2 DEF ThreadOK, Role, Course, Answered, ThreadShape, Ingests
<1>5. /\ n \in Nat /\ Ingests(r) \in BOOLEAN
    BY <1>4 DEF Ingests
<1>6. /\ Ingests(r) /\ ~th[r].error => pc = "content"
      /\ ~(Ingests(r) /\ ~th[r].error) /\ n = 0 => pc = Received(r)
      /\ ~(Ingests(r) /\ ~th[r].error) /\ n # 0 => pc = "receive"
    BY <1>4, <1>5
<1> HIDE DEF pc
<1>7. /\ Received(r) \in {"disconnect", "leave"}
      /\ Received(r) = "disconnect" => th[r].stage = "rerank" /\ ~Ingests(r)
      /\ Received(r) = "leave" => th[r].stage # "rerank"
    BY <1>4 DEF Received
<1>8. pc \in {"content", "disconnect", "leave", "receive"}
    BY <1>5, <1>6, <1>7
<1>9. /\ y \in ThreadShape /\ y.pc = pc /\ y.stage = th[r].stage /\ y.size = th[r].size
      /\ y.n = n /\ y.todo = th[r].todo /\ y.error = th[r].error
      /\ y.closed = th[r].closed /\ y.answer = th[r].answer
    BY <1>2, <1>5, <1>8 DEF ThreadShape, Pcs
<1> HIDE DEF y
<1>10. ThreadOK(kind[r], y)
    <2>1. /\ pc = "receive" => n > 0
          /\ pc = "content" => Ingests(r) /\ ~th[r].error
          /\ pc = "disconnect" => th[r].stage = "rerank" /\ ~Ingests(r)
          /\ pc = "leave" => th[r].stage # "rerank"
        BY <1>4, <1>5, <1>6, <1>7
    <2> HIDE DEF n
    <2>2. Role(kind[r], y)
        BY <1>4, <1>8, <1>9, <2>1 DEF Role, Ingests
    <2>3. Course(kind[r], y)
        BY <1>2, <1>4, <1>8, <1>9, <2>1 DEF ThreadOK, Course, Ingests
    <2>4. Todo(y) /\ Answered(kind[r], y)
        BY <1>4, <1>8, <1>9 DEF Todo, Answered
    <2>. QED
        BY <1>9, <2>2, <2>3, <2>4 DEF ThreadOK
<1>11. kind' = kind /\ Threads' = Threads /\ th'[r] = y
    BY <1>1, <1>2, SetMoves DEF RInv
<1>12. Ids(r)' = Ids(r) /\ Active(r) /\ Ingests(r)' = Ingests(r)
    BY <1>2, <1>9, <1>11 DEF Ids, TasksAt, Active, Ingests
<1>13. /\ ServiceInv' /\ AnswersOnly' /\ waiting_task_ids' = waiting_task_ids
       /\ \A t \in Tasks : t[1] # r => Untouched(t)
       /\ \A t : Clean(t) => Clean(t)'
       /\ IsFiniteSet(Outstanding(r)') /\ Cardinality(Outstanding(r)') = n
    <2>1. PICK i \in Matches(Ids(r)) : TakeResult(i)
        BY DEF ReceiveFinal
    <2>. QED
        BY <1>1, <1>2, <1>12, <2>1, FinalTaken
<1>14. TaskPart(r)'
    <2>1. NewTasks(r)'
        <3>1. ~Unsubmitted(r)'
            BY <1>8, <1>9, <1>11 DEF Unsubmitted
        <3>2. \A s : TasksAt(r, s)' = TasksAt(r, s)
            BY DEF TasksAt
        <3>. QED
            BY <1>1, <1>3, <1>9, <1>11, <3>1, <3>2 DEF TaskPart, NewTasks
    <2>2. Expects(r)'
        BY <1>3, <1>9, <1>11, <1>12, <1>13 DEF TaskPart, Expects
    <2>3. ~Active(r)' => n = 0
        BY <1>6, <1>9, <1>11 DEF Active
    <2>4. ASSUME n = 0 PROVE \A t \in Ids(r) : Clean(t)'
        <3>1. Outstanding(r)' = {}
            BY <1>13, <2>4, FS_EmptySet
        <3>. QED
            BY <1>12, <3>1 DEF Outstanding, Clean
    <2>5. Settled(r)'
        BY <1>3, <1>12, <1>13, <2>3, <2>4 DEF TaskPart, Settled
    <2>6. WaitsFor(r)'
        <3>1. \A t \in Ids(r) : t[2] = th[r].stage
            BY <1>2, <1>3, IdsOfStage
        <3>2. ASSUME NEW t \in waiting_task_ids, t[1] = r
              PROVE  t[2] = "rerank" \/ t \in Ids(r)
            BY <1>3, <3>2 DEF TaskPart, WaitsFor
        <3>3. Active(r)' \/ pc = "leave" \/ th[r].stage = "rerank"
            BY <1>7, <1>8, <1>6, <1>9, <1>11 DEF Active
        <3>. QED
            BY <1>9, <1>11, <1>12, <1>13, <3>1, <3>2, <3>3 DEF WaitsFor
    <2>. QED
        BY <2>1, <2>2, <2>5, <2>6 DEF TaskPart
<1>15. Progress(r)'
    <2>1. UNCHANGED <<raced, dropped, entries>>
        BY <1>1 DEF dbVars, tableVars
    <2>2. \A m : StoredChunks(r, m)' <=> StoredChunks(r, m)
        BY <2>1 DEF StoredChunks
    <2>3. N_CHUNKS - n - 1 = N_CHUNKS - th[r].n
        BY <1>4, RagConstants
    <2> HIDE DEF n
    <2>. QED
        BY <1>2, <1>3, <1>4, <1>6, <1>9, <1>11, <1>12, <2>1, <2>2, <2>3 DEF Progress
<1>16. DbStep(r) /\ RacedOnly /\ (~raced' /\ ~dropped' => \A c \in contents' : Accounted(c)')
    BY <1>1, <1>2, <1>9, QuietAccounts
<1>. QED
    BY <1>1, <1>2, <1>3, <1>4, <1>9, <1>10, <1>13, <1>14, <1>15, <1>16, MoveKeeps

\* A thread that cancels its tasks, or leaves, has nothing to expect.
LEMMA TasksForgotten ==
    ASSUME RInv, NEW r \in Threads, UNCHANGED <<fresh, posted>>,
           RemoveAndPurge(Ids(r)) \/ (~Active(r) /\ RemoveWaiting(Ids(r)))
    PROVE  /\ ServiceInv' /\ AnswersOnly' /\ waiting_task_ids' = waiting_task_ids \ Ids(r)
           /\ waiting_task_ids' \subseteq Tasks
           /\ \A t \in Tasks : t[1] # r => Untouched(t)
           /\ \A t \in Tasks : t[1] = r => Clean(t)'
<1> DEFINE q == queue_results
           I == Ids(r)
           K == {i \in DOMAIN q : q[i].id \notin I}
<1>1. /\ r \in Requests /\ TaskPart(r) /\ AnswersOnly /\ ServiceInv
      /\ waiting_task_ids \subseteq Tasks /\ q \in Seq(TaskResult)
    BY AtWork
<1>2. th[r] \in ThreadShape
    BY DEF RInv, ThreadsOK
<1>3. \A t \in I : t \in Tasks /\ t[1] = r
    BY <1>1, <1>2, IdsOfStage
<1>4. ServiceInv'
    <2>1. Forget(I)
        BY DEF Forget
    <2>2. I \in SUBSET Tasks
        BY <1>3
    <2>3. ServiceNext
        BY <2>1, <2>2 DEF ServiceNext
    <2>. QED
        BY <1>1, <2>3, ServiceStepKeeps
<1>5. waiting_task_ids' = waiting_task_ids \ I
    BY DEF RemoveAndPurge, RemoveWaiting
<1>6. CASE RemoveAndPurge(I)
    <2>1. queue_results' = KeepAt(q, K) /\ K \in SUBSET DOMAIN q
        BY <1>6 DEF RemoveAndPurge
    <2>2. AnswersOnly' /\ \A t : HasResult(t)' <=> \E j \in K : q[j].id = t
        BY <1>1, <2>1, ResultsKept
    <2>3. \A t : HasResult(t)' <=> HasResult(t) /\ t \notin I
        BY <2>2 DEF HasResult
    <2>4. \A t \in Tasks : t[1] # r => Untouched(t)
        BY <1>3, <1>5, <2>3 DEF Untouched
    <2>5. \A t \in Tasks : t[1] = r => Clean(t)'
        BY <1>1, <1>5, <2>3 DEF TaskPart, Settled, Clean
    <2>. QED
        BY <1>1, <1>4, <1>5, <2>2, <2>4, <2>5
<1>7. CASE ~Active(r) /\ RemoveWaiting(I)
    <2>1. queue_results' = queue_results
        BY <1>7 DEF RemoveWaiting
    <2>2. AnswersOnly' /\ \A t : HasResult(t)' <=> HasResult(t)
        BY <1>1, <2>1 DEF AnswersOnly, HasResult
    <2>3. \A t \in Tasks : t[1] # r => Untouched(t)
        BY <1>3, <1>5, <2>2 DEF Untouched
    <2>4. \A t \in Tasks : t[1] = r => Clean(t)'
        BY <1>1, <1>5, <1>7, <2>2 DEF TaskPart, Settled, Clean
    <2>. QED
        BY <1>1, <1>4, <1>5, <2>2, <2>3, <2>4
<1>. QED
    BY <1>6, <1>7

LEMMA ForgetKeeps ==
    ASSUME RInv, NEW r, At(r, "receive") \/ At(r, "leave"), UNCHANGED <<fresh, posted>>,
           RemoveAndPurge(Ids(r)) \/ (At(r, "leave") /\ RemoveWaiting(Ids(r))),
           UNCHANGED <<dbVars, dropped>>, NEW y, Set(r, y), ThreadOK(kind[r], y),
           y.stage = th[r].stage, y.pc \in {"leave", "disconnect", "connect", "done"},
           y.pc = "connect" => ~Ingests(r), th[r].error => y.error, y.answer # "exists",
           Ingests(r) /\ ~raced /\ ~dropped /\ ~y.error =>
               /\ y.pc = "leave" => y.closed /\ StoredChunks(r, N_CHUNKS - y.n)
               /\ y.answer = "ok" /\ ~y.closed => StoredChunks(r, N_CHUNKS)
    PROVE  r \in Threads /\ Kept(r)
<1>1. /\ r \in Threads /\ th[r].pc \in {"receive", "leave"} /\ ThreadOK(kind[r], th[r])
      /\ At(r, "leave") => ~Active(r)
    BY AtPlace DEF At, Active
<1>2. TaskPart(r)
    BY <1>1, AtWork
<1>3. kind' = kind /\ Threads' = Threads /\ th'[r] = y
    BY <1>1, SetMoves DEF RInv
<1>4. /\ ServiceInv' /\ AnswersOnly' /\ waiting_task_ids' = waiting_task_ids \ Ids(r)
      /\ waiting_task_ids' \subseteq Tasks
      /\ \A t \in Tasks : t[1] # r => Untouched(t)
      /\ \A t \in Tasks : t[1] = r => Clean(t)'
    BY <1>1, TasksForgotten
<1>5. TaskPart(r)'
    <2>1. NewTasks(r)'
        <3>1. ~Unsubmitted(r)'
            BY <1>3 DEF Unsubmitted, Ingests
        <3>2. \A s : TasksAt(r, s)' = TasksAt(r, s)
            BY DEF TasksAt
        <3>. QED
            BY <1>2, <1>3, <3>1, <3>2 DEF TaskPart, NewTasks
    <2>2. Expects(r)' /\ Settled(r)'
        BY <1>3, <1>4 DEF Expects, Active, Settled
    <2>3. WaitsFor(r)'
        BY <1>2, <1>4 DEF TaskPart, WaitsFor
    <2>. QED
        BY <2>1, <2>2, <2>3 DEF TaskPart
<1>6. Progress(r)'
    <2>1. UNCHANGED <<raced, dropped, entries>>
        BY DEF dbVars, tableVars
    <2>2. \A m : StoredChunks(r, m)' <=> StoredChunks(r, m)
        BY <2>1 DEF StoredChunks
    <2>3. Ingests(r)' = Ingests(r)
        BY <1>3 DEF Ingests
    <2>. QED
        BY <1>3, <2>1, <2>2, <2>3 DEF Progress
<1>7. DbStep(r) /\ RacedOnly /\ (~raced' /\ ~dropped' => \A c \in contents' : Accounted(c)')
    BY <1>1, QuietAccounts
<1>8. kind[r] # "create"
    BY <1>1 DEF ThreadOK, Role
<1>. QED
    BY <1>1, <1>4, <1>5, <1>6, <1>7, <1>8, MoveKeeps

LEMMA ErrorKeeps ==
    ASSUME RInv, NEW r, ReceiveError(r)
    PROVE  r \in Threads /\ Kept(r)
<1>1. /\ At(r, "receive") /\ UNCHANGED <<fresh, posted>> /\ UNCHANGED <<dbVars, dropped>>
      /\ RemoveAndPurge(Ids(r))
    BY DEF ReceiveError, CancelTasks
<1>2. /\ r \in Threads /\ th[r].pc = "receive" /\ th[r] \in ThreadShape
      /\ ThreadOK(kind[r], th[r])
    BY <1>1, AtPlace
<1>3. /\ th[r].answer = "none"
      /\ kind[r] \in {"ingest", "ingest_by_id", "ask", "ask_reranked"}
    BY <1>2 DEF ThreadOK, Role, Answered
<1>4. CASE th[r].stage = "rerank"
    <2> DEFINE y == [th[r] EXCEPT !.pc = "done", !.answer = "error"]
    <2>1. Set(r, y)
        BY <1>4 DEF ReceiveError, End
    <2>2. "error" \in Answers
        BY DEF Answers
    <2>3. /\ y \in ThreadShape /\ y.pc = "done" /\ y.stage = th[r].stage /\ y.size = th[r].size
          /\ y.n = th[r].n /\ y.todo = th[r].todo /\ y.error = th[r].error
          /\ y.closed = th[r].closed /\ y.answer = "error"
        BY <1>2, <2>2, EndFields
    <2> HIDE DEF y
    <2>4. ThreadOK(kind[r], y)
        BY <1>2, <1>3, <2>3 DEF ThreadOK, Role, Course, Todo, Answered
    <2>. QED
        BY <1>1, <1>2, <2>1, <2>3, <2>4, ForgetKeeps
<1>5. CASE th[r].stage # "rerank"
    <2> DEFINE y == [th[r] EXCEPT !.pc = "leave", !.error = TRUE]
    <2>1. Set(r, y)
        BY <1>5 DEF ReceiveError
    <2>2. /\ y \in ThreadShape /\ y.pc = "leave" /\ y.stage = th[r].stage /\ y.size = th[r].size
          /\ y.n = th[r].n /\ y.todo = th[r].todo /\ y.error = TRUE
          /\ y.closed = th[r].closed /\ y.answer = th[r].answer
        BY <1>2 DEF ThreadShape, Pcs
    <2> HIDE DEF y
    <2>3. ThreadOK(kind[r], y)
        BY <1>2, <1>3, <1>5, <2>2 DEF ThreadOK, Role, Course, Todo, Answered
    <2>. QED
        BY <1>1, <1>2, <1>3, <2>1, <2>2, <2>3, ForgetKeeps
<1>. QED
    BY <1>4, <1>5

LEMMA ClosedKeeps ==
    ASSUME RInv, NEW r, ReceiveClosed(r)
    PROVE  r \in Threads /\ Kept(r)
<1> DEFINE y == [th[r] EXCEPT !.pc = Received(r)]
<1>1. /\ At(r, "receive") /\ UNCHANGED <<fresh, posted>> /\ UNCHANGED <<dbVars, dropped>>
      /\ RemoveAndPurge(Ids(r)) /\ th[r].closed /\ Set(r, y)
    BY DEF ReceiveClosed, CancelTasks, Goto
<1>2. /\ r \in Threads /\ th[r].pc = "receive" /\ th[r] \in ThreadShape
      /\ ThreadOK(kind[r], th[r])
    BY <1>1, AtPlace
<1>3. Progress(r)
    BY <1>2, AtWork
<1>4. /\ th[r].answer = "none"
      /\ kind[r] \in {"ingest", "ingest_by_id", "ask", "ask_reranked"}
      /\ Ingests(r) => th[r].stage = "embed"
    BY <1>2 DEF ThreadOK, Role, Course, Answered, Ingests
<1>5. /\ Received(r) \in {"disconnect", "leave"} /\ Received(r) \in Pcs
      /\ Received(r) = "disconnect" => th[r].stage = "rerank" /\ ~Ingests(r)
      /\ Received(r) = "leave" => th[r].stage # "rerank"
    BY <1>4 DEF Received, Pcs
<1>6. /\ y \in ThreadShape /\ y.pc = Received(r) /\ y.stage = th[r].stage
      /\ y.size = th[r].size /\ y.n = th[r].n /\ y.todo = th[r].todo /\ y.error = th[r].error
      /\ y.closed = th[r].closed /\ y.answer = th[r].answer
    BY <1>2, <1>5, GotoFields
<1> HIDE DEF y
<1>7. ThreadOK(kind[r], y)
    <2>1. Role(kind[r], y)
        BY <1>4, <1>5, <1>6 DEF Role, Ingests
    <2>2. Course(kind[r], y)
        BY <1>2, <1>5, <1>6 DEF ThreadOK, Course
    <2>3. Todo(y) /\ Answered(kind[r], y)
        BY <1>4, <1>5, <1>6 DEF Todo, Answered
    <2>. QED
        BY <1>6, <2>1, <2>2, <2>3 DEF ThreadOK
<1>8. Ingests(r) /\ ~raced /\ ~dropped /\ ~y.error => StoredChunks(r, N_CHUNKS - y.n)
    BY <1>2, <1>3, <1>6 DEF Progress
<1>. QED
    BY <1>1, <1>4, <1>5, <1>6, <1>7, <1>8, ForgetKeeps

LEMMA LeaveKeeps ==
    ASSUME RInv, NEW r, Leave(r)
    PROVE  r \in Threads /\ Kept(r)
<1>1. /\ At(r, "leave") /\ UNCHANGED <<fresh, posted>> /\ UNCHANGED <<dbVars, dropped>>
      /\ RemoveWaiting(Ids(r))
    BY DEF Leave
<1>2. /\ r \in Threads /\ th[r].pc = "leave" /\ th[r] \in ThreadShape
      /\ ThreadOK(kind[r], th[r])
    BY <1>1, AtPlace
<1>3. Progress(r)
    BY <1>2, AtWork
<1>4. /\ th[r].answer = "none" /\ th[r].error \in BOOLEAN
      /\ kind[r] \in {"ingest", "ingest_by_id", "ask", "ask_reranked"}
    BY <1>2 DEF ThreadOK, Role, Answered, ThreadShape
<1>5. ASSUME NEW answer \in {"ok", "error"}, End(r, answer), answer = "ok" => ~th[r].error
      PROVE  r \in Threads /\ Kept(r)
    <2> DEFINE y == [th[r] EXCEPT !.pc = "done", !.answer = answer]
    <2>1. Set(r, y)
        BY <1>5 DEF End
    <2>2. answer \in Answers
        BY <1>5 DEF Answers
    <2>3. /\ y \in ThreadShape /\ y.pc = "done" /\ y.stage = th[r].stage /\ y.size = th[r].size
          /\ y.n = th[r].n /\ y.todo = th[r].todo /\ y.error = th[r].error
          /\ y.closed = th[r].closed /\ y.answer = answer
        BY <1>2, <2>2, EndFields
    <2> HIDE DEF y
    <2>4. ThreadOK(kind[r], y)
        BY <1>2, <1>4, <1>5, <2>3 DEF ThreadOK, Role, Course, Todo, Answered
    <2>5. ASSUME Ingests(r), ~raced, ~dropped, ~y.error, ~y.closed PROVE StoredChunks(r, N_CHUNKS)
        <3>1. th[r].n = 0 /\ StoredChunks(r, N_CHUNKS - th[r].n)
            BY <1>2, <1>3, <2>3, <2>5 DEF Progress
        <3>2. N_CHUNKS - th[r].n = N_CHUNKS
            BY <3>1, RagConstants
        <3>. QED
            BY <3>1, <3>2
    <2>. QED
        BY <1>1, <1>2, <1>5, <2>1, <2>3, <2>4, <2>5, ForgetKeeps
<1>6. CASE th[r].stage = "embed" /\ Asks(r) /\ Goto(r, "connect")
    <2> DEFINE y == [th[r] EXCEPT !.pc = "connect"]
    <2>1. Set(r, y)
        BY <1>6 DEF Goto
    <2>2. "connect" \in Pcs
        BY DEF Pcs
    <2>3. /\ y \in ThreadShape /\ y.pc = "connect" /\ y.stage = th[r].stage
          /\ y.size = th[r].size /\ y.n = th[r].n /\ y.todo = th[r].todo
          /\ y.error = th[r].error /\ y.closed = th[r].closed /\ y.answer = th[r].answer
        BY <1>2, <2>2, GotoFields
    <2> HIDE DEF y
    <2>4. ThreadOK(kind[r], y)
        BY <1>2, <1>4, <1>6, <2>3 DEF ThreadOK, Role, Course, Todo, Answered
    <2>5. ~Ingests(r)
        BY <1>6 DEF Asks, Ingests
    <2>. QED
        BY <1>1, <1>2, <1>4, <2>1, <2>3, <2>4, <2>5, ForgetKeeps
<1>7. /\ th[r].error => End(r, "error")
      /\ ~th[r].error /\ Asks(r) /\ th[r].stage = "embed" =>
             End(r, "error") \/ Goto(r, "connect")
      /\ ~th[r].error /\ ~(Asks(r) /\ th[r].stage = "embed") => End(r, "ok")
    BY <1>4 DEF Leave
<1>. QED
    BY <1>4, <1>5, <1>6, <1>7

LEMMA CloseKeeps ==
    ASSUME RInv, NEW r, CloseConnection(r)
    PROVE  r \in Threads /\ Kept(r)
<1> DEFINE y == [th[r] EXCEPT !.closed = TRUE]
<1>1. /\ At(r, th[r].pc) /\ th[r].pc # "done" /\ Set(r, y)
      /\ UNCHANGED serviceVars /\ UNCHANGED <<dbVars, dropped>>
    BY DEF CloseConnection, At
<1>2. /\ r \in Threads /\ th[r] \in ThreadShape /\ ThreadOK(kind[r], th[r])
    BY <1>1, AtPlace
<1>3. TaskPart(r) /\ Progress(r) /\ ServiceInv /\ AnswersOnly /\ waiting_task_ids \subseteq Tasks
    BY <1>2, AtWork
<1>4. /\ y \in ThreadShape /\ y.pc = th[r].pc /\ y.stage = th[r].stage /\ y.size = th[r].size
      /\ y.n = th[r].n /\ y.todo = th[r].todo /\ y.error = th[r].error
      /\ y.closed = TRUE /\ y.answer = th[r].answer
    BY <1>2 DEF ThreadShape
<1> HIDE DEF y
<1>5. ThreadOK(kind[r], y)
    BY <1>2, <1>4 DEF ThreadOK, Role, Course, Todo, Answered
<1>6. kind' = kind /\ th'[r] = y
    BY <1>1, <1>2, SetMoves DEF RInv
<1>7. /\ UNCHANGED <<fresh, posted, queue_results, waiting_task_ids>> /\ \A t : Untouched(t)
    BY <1>1, ServiceUnchanged
<1>8. ServiceInv' /\ AnswersOnly' /\ waiting_task_ids' \subseteq Tasks
    BY <1>1, <1>3, <1>7, ServiceStepKeeps DEF AnswersOnly
<1>9. TaskPart(r)'
    BY <1>3, <1>4, <1>6, <1>7, OtherTaskPart DEF SameStage
<1>10. Progress(r)'
    <2>1. UNCHANGED <<raced, dropped, entries>>
        BY <1>1 DEF dbVars, tableVars
    <2>2. \A m : StoredChunks(r, m)' <=> StoredChunks(r, m)
        BY <2>1 DEF StoredChunks
    <2>3. Ingests(r)' = Ingests(r) /\ th[r].answer = "none"
        BY <1>1, <1>2, <1>6 DEF Ingests, ThreadOK, Answered
    <2>. QED
        BY <1>3, <1>4, <1>6, <2>1, <2>2, <2>3 DEF Progress
<1>11. DbStep(r) /\ RacedOnly /\ (~raced' /\ ~dropped' => \A c \in contents' : Accounted(c)')
    BY <1>1, <1>2, <1>4, QuietAccounts
<1>. QED
    BY <1>1, <1>2, <1>4, <1>5, <1>7, <1>8, <1>9, <1>10, <1>11, MoveKeeps

\* A thread that stores a result, or is done with it, expects what it expected.
LEMMA StoringTaskPart ==
    ASSUME RInv, NEW r \in Threads, th[r].pc \in {"content", "entry"}, UNCHANGED serviceVars,
           kind' = kind, th'[r].pc \in {"entry", "receive", "leave"},
           th'[r].stage = th[r].stage, th'[r].size = th[r].size, th'[r].n = th[r].n,
           th'[r].pc = "leave" => th[r].n = 0
    PROVE  TaskPart(r)'
<1>1. TaskPart(r) /\ r \in Requests
    BY AtWork
<1>2. UNCHANGED <<fresh, posted, queue_results, waiting_task_ids>>
    BY ServiceUnchanged
<1>3. /\ Ids(r)' = Ids(r) /\ Active(r) /\ (Active(r)' <=> th'[r].pc # "leave")
      /\ \A s : TasksAt(r, s)' = TasksAt(r, s)
    BY DEF Ids, TasksAt, Active
<1>4. Outstanding(r)' = Outstanding(r) /\ \A t : Clean(t)' <=> Clean(t)
    BY <1>2, <1>3 DEF Outstanding, Clean, HasResult
<1>5. NewTasks(r)'
    <2>1. ~Unsubmitted(r)'
        BY DEF Unsubmitted
    <2>. QED
        BY <1>1, <1>2, <1>3, <2>1 DEF TaskPart, NewTasks
<1>6. Expects(r)'
    BY <1>1, <1>2, <1>3, <1>4 DEF TaskPart, Expects
<1>7. ASSUME th'[r].pc = "leave" PROVE \A t \in Ids(r) : Clean(t)
    <2>1. th[r] \in ThreadShape
        BY DEF RInv, ThreadsOK
    <2>2. IsFiniteSet(Ids(r)) /\ Outstanding(r) \in SUBSET Ids(r)
        BY <1>1, <2>1, IdsOfStage DEF Outstanding
    <2>3. IsFiniteSet(Outstanding(r))
        BY <2>2, FS_Subset
    <2>4. Cardinality(Outstanding(r)) = 0
        BY <1>1, <1>3, <1>7 DEF TaskPart, Expects
    <2>5. Outstanding(r) = {}
        BY <2>3, <2>4, FS_EmptySet
    <2>. QED
        BY <2>5 DEF Outstanding, Clean
<1>8. Settled(r)'
    BY <1>1, <1>3, <1>4, <1>7 DEF TaskPart, Settled
<1>9. WaitsFor(r)'
    BY <1>1, <1>2, <1>3 DEF TaskPart, WaitsFor
<1>. QED
    BY <1>5, <1>6, <1>8, <1>9 DEF TaskPart

\* The thread after a statement of insertRagEntry.
LEMMA StoringFields ==
    ASSUME RInv, NEW r, At(r, "content") \/ At(r, "entry"), NEW ok \in BOOLEAN,
           (At(r, "content") /\ ok /\ Goto(r, "entry")) \/ Stored(r, ok)
    PROVE  /\ r \in Threads /\ th[r] \in ThreadShape /\ Ingests(r) /\ ~th[r].error
           /\ th[r].n \in Nat
           /\ th'[r].pc \in {"entry", "receive", "leave"}
           /\ th'[r].pc = "leave" => th[r].n = 0
           /\ Goto(r, "entry") => th'[r].pc = "entry"
           /\ Stored(r, ok) => th'[r].pc # "entry"
           /\ th'[r].stage = th[r].stage /\ th'[r].size = th[r].size /\ th'[r].n = th[r].n
           /\ th'[r].error = ~ok /\ th'[r].closed = th[r].closed /\ th'[r].answer = "none"
           /\ \E y : Set(r, y) /\ th'[r] = y /\ ThreadOK(kind[r], y)
<1>1. /\ r \in Threads /\ th[r].pc \in {"content", "entry"} /\ th[r] \in ThreadShape
      /\ ThreadOK(kind[r], th[r])
    BY AtPlace
<1>2. /\ Ingests(r) /\ ~th[r].error /\ th[r].n \in Nat /\ th[r].answer = "none"
      /\ th[r].stage = "embed" /\ th[r].error = FALSE
    BY <1>1 DEF ThreadOK, Role, Course, Answered, Ingests, ThreadShape
<1>3. CASE At(r, "content") /\ ok /\ Goto(r, "entry")
    <2> DEFINE y == [th[r] EXCEPT !.pc = "entry"]
    <2>1. Set(r, y)
        BY <1>3 DEF Goto
    <2>2. "entry" \in Pcs
        BY DEF Pcs
    <2>3. /\ y \in ThreadShape /\ y.pc = "entry" /\ y.stage = th[r].stage
          /\ y.size = th[r].size /\ y.n = th[r].n /\ y.todo = th[r].todo
          /\ y.error = th[r].error /\ y.closed = th[r].closed /\ y.answer = th[r].answer
        BY <1>1, <2>2, GotoFields
    <2> HIDE DEF y
    <2>4. ThreadOK(kind[r], y)
        BY <1>1, <1>2, <2>3 DEF ThreadOK, Role, Course, Todo, Answered, Ingests
    <2>5. th'[r] = y
        BY <1>1, <2>1, SetMoves DEF RInv
    <2>6. ~Stored(r, ok)
        <3> SUFFICES ASSUME Stored(r, ok) PROVE FALSE
            OBVIOUS
        <3> DEFINE z == [th[r] EXCEPT !.error = ~ok,
                                      !.pc = IF th[r].n = 0 THEN "leave" ELSE "receive"]
        <3>1. Set(r, z) /\ z.pc # "entry"
            BY <1>1 DEF Stored, ThreadShape
        <3>2. th'[r] = z
            BY <1>1, <3>1, SetMoves DEF RInv
        <3>. QED
            BY <2>3, <2>5, <3>1, <3>2
    <2>. QED
        BY <1>1, <1>2, <1>3, <2>1, <2>3, <2>4, <2>5, <2>6
<1>4. CASE Stored(r, ok)
    <2> DEFINE pc == IF th[r].n = 0 THEN "leave" ELSE "receive"
               y == [th[r] EXCEPT !.error = ~ok, !.pc = pc]
    <2>1. Set(r, y)
        BY <1>4 DEF Stored
    <2>2. /\ pc \in {"leave", "receive"} /\ (pc = "leave" => th[r].n = 0)
          /\ (pc = "receive" => th[r].n > 0)
        BY <1>2
    <2> HIDE DEF pc
    <2>3. /\ y \in ThreadShape /\ y.pc = pc /\ y.stage = th[r].stage
          /\ y.size = th[r].size /\ y.n = th[r].n /\ y.todo = th[r].todo
          /\ y.error = ~ok /\ y.closed = th[r].closed /\ y.answer = th[r].answer
        BY <1>1, <2>2 DEF ThreadShape, Pcs
    <2> HIDE DEF y
    <2>4. ThreadOK(kind[r], y)
        BY <1>1, <1>2, <2>2, <2>3 DEF ThreadOK, Role, Course, Todo, Answered, Ingests
    <2>5. th'[r] = y
        BY <1>1, <2>1, SetMoves DEF RInv
    <2>6. ~Goto(r, "entry")
        <3> SUFFICES ASSUME Goto(r, "entry") PROVE FALSE
            OBVIOUS
        <3> DEFINE z == [th[r] EXCEPT !.pc = "entry"]
        <3>1. Set(r, z) /\ z.pc = "entry"
            BY <1>1 DEF Goto, ThreadShape
        <3>2. th'[r] = z
            BY <1>1, <3>1, SetMoves DEF RInv
        <3>. QED
            BY <2>2, <2>3, <2>5, <3>1, <3>2
    <2>. QED
        BY <1>1, <1>2, <2>1, <2>2, <2>3, <2>4, <2>5, <2>6
<1>. QED
    BY <1>3, <1>4

\* The contents that were accounted for stay so, if thread r leaves none behind.
LEMMA StoringAccounts ==
    ASSUME RInv, ~raced, ~dropped, NEW r \in Threads, kind' = kind,
           \A q \in Threads : q # r => th'[q] = th[q], entries \subseteq entries',
           Ingests(r), ~th[r].error,
           th[r].pc = "entry" => \/ th'[r].error
                                 \/ \E e \in entries' : e.content = Chunk(r),
           NEW c \in contents
    PROVE  Accounted(c)'
<1>1. Accounted(c)
    BY DEF RInv, StoreSide
<1>2. CASE \E e \in entries : e.content = c
    BY <1>2 DEF Accounted
<1>3. ASSUME NEW q \in Threads, Ingests(q), (th[q].pc = "entry" /\ Chunk(q) = c) \/ th[q].error
      PROVE  Accounted(c)'
    <2>1. Ingests(q)' /\ q \in Threads'
        BY <1>3 DEF Ingests, Threads
    <2>2. CASE q = r
        BY <1>3, <2>1, <2>2 DEF Accounted
    <2>3. CASE q # r
        <3>1. (th'[q].pc = "entry" /\ Chunk(q)' = c) \/ th'[q].error
            BY <1>3, <2>3 DEF Chunk
        <3>. QED
            BY <2>1, <3>1 DEF Accounted
    <2>. QED
        BY <2>2, <2>3
<1>. QED
    BY <1>1, <1>2, <1>3 DEF Accounted

LEMMA ContentKeeps ==
    ASSUME RInv, NEW r, StoreContent(r)
    PROVE  r \in Threads /\ Kept(r)
<1>1. At(r, "content") /\ UNCHANGED serviceVars /\ dropped' = dropped
    BY DEF StoreContent, Executes
<1>2. th[r].pc = "content" /\ raced \in BOOLEAN /\ dropped \in BOOLEAN
    BY <1>1, AtPlace
<1>3. PICK done \in BOOLEAN, ok \in BOOLEAN :
          /\ Outcome(CanInsertContent, Racing(r), done, ok)
          /\ Effect(done, InsertContent(Chunk(r)))
          /\ IF ok THEN Goto(r, "entry") ELSE Stored(r, FALSE)
    BY DEF StoreContent
<1>4. CanInsertContent \in BOOLEAN /\ Racing(r) \in BOOLEAN
    BY DEF CanInsertContent, Racing
<1>5. RacedOnly /\ (done => CanInsertContent) /\ (~raced' => done = ok)
    BY <1>2, <1>3, <1>4, OutcomeIs DEF RacedOnly
<1>6. DbStep(r) /\ entries' = entries /\ contents' \subseteq contents \cup {Chunk(r)}
      /\ (~done => contents' = contents)
    BY <1>1, <1>3, <1>5 DEF Effect, DbStep, StoresContent, InsertContent, tableVars
<1>7. (ok /\ Goto(r, "entry")) \/ (~ok /\ Stored(r, ok))
    <2>1. ~ok => ok = FALSE
        OBVIOUS
    <2>. QED
        BY <1>3, <2>1
<1>8. /\ r \in Threads /\ th[r] \in ThreadShape /\ Ingests(r) /\ ~th[r].error
      /\ th[r].n \in Nat /\ th'[r].pc \in {"entry", "receive", "leave"}
      /\ th'[r].pc = "leave" => th[r].n = 0
      /\ ok => th'[r].pc = "entry"
      /\ th'[r].stage = th[r].stage /\ th'[r].size = th[r].size /\ th'[r].n = th[r].n
      /\ th'[r].error = ~ok /\ th'[r].closed = th[r].closed /\ th'[r].answer = "none"
      /\ \E y : Set(r, y) /\ th'[r] = y /\ ThreadOK(kind[r], y)
    BY <1>1, <1>7, StoringFields
<1>9. PICK y : Set(r, y) /\ th'[r] = y /\ ThreadOK(kind[r], y)
    BY <1>8
<1>10. kind' = kind /\ \A q \in Threads : q # r => th'[q] = th[q]
    BY <1>8, <1>9, SetMoves DEF RInv
<1>11. ServiceInv' /\ AnswersOnly' /\ waiting_task_ids' \subseteq Tasks /\ \A t : Untouched(t)
    BY <1>1, <1>8, AtWork, ServiceUnchanged, ServiceStepKeeps DEF AnswersOnly
<1>12. TaskPart(r)'
    BY <1>1, <1>2, <1>8, <1>10, StoringTaskPart
<1>13. Progress(r)'
    <2>1. Progress(r) /\ (~raced' => ~raced)
        BY <1>5, <1>8, AtWork DEF RacedOnly
    <2>2. \A m : StoredChunks(r, m)' <=> StoredChunks(r, m)
        BY <1>6 DEF StoredChunks
    <2>3. ~th'[r].error => ok
        BY <1>8
    <2>. QED
        BY <1>1, <1>2, <1>8, <2>1, <2>2, <2>3 DEF Progress
<1>14. ASSUME ~raced', ~dropped', NEW c \in contents' PROVE Accounted(c)'
    <2>1. CASE c \in contents
        <3>1. entries \subseteq entries' /\ ~raced /\ ~dropped
            BY <1>1, <1>5, <1>6, <1>14 DEF RacedOnly
        <3>. QED
            BY <1>2, <1>8, <1>10, <2>1, <3>1, StoringAccounts
    <2>2. CASE c \notin contents
        <3>1. c = Chunk(r) /\ ok
            BY <1>5, <1>6, <1>14, <2>2
        <3>2. th'[r].pc = "entry" /\ Chunk(r)' = c /\ Ingests(r)' /\ r \in Threads'
            BY <1>8, <1>10, <3>1 DEF Chunk, Ingests, Threads
        <3>. QED
            BY <3>2 DEF Accounted
    <2>. QED
        BY <2>1, <2>2
<1>15. y.answer # th[r].answer => kind[r] # "create" /\ y.answer # "exists"
    BY <1>8, <1>9 DEF Ingests
<1>. QED
    BY <1>5, <1>6, <1>8, <1>9, <1>11, <1>12, <1>13, <1>14, <1>15, MoveKeeps

LEMMA EntryKeeps ==
    ASSUME RInv, NEW r, StoreEntry(r)
    PROVE  r \in Threads /\ Kept(r)
<1>1. At(r, "entry") /\ UNCHANGED serviceVars /\ dropped' = dropped
    BY DEF StoreEntry, Executes
<1>2. th[r].pc = "entry" /\ raced \in BOOLEAN /\ dropped \in BOOLEAN
    BY <1>1, AtPlace
<1>3. PICK done \in BOOLEAN, ok \in BOOLEAN :
          /\ Outcome(CanInsertEntry(Entry(r)), Racing(r), done, ok)
          /\ Effect(done, InsertEntry(Entry(r)))
          /\ Stored(r, ok)
    BY DEF StoreEntry
<1>4. CanInsertEntry(Entry(r)) \in BOOLEAN /\ Racing(r) \in BOOLEAN
    BY DEF CanInsertEntry, Racing
<1>5. RacedOnly /\ (done => CanInsertEntry(Entry(r))) /\ (~raced' => done = ok)
    BY <1>2, <1>3, <1>4, OutcomeIs DEF RacedOnly
<1>6. DbStep(r) /\ entries \subseteq entries' /\ contents' = contents
      /\ (done => Entry(r) \in entries')
    BY <1>1, <1>3, <1>5 DEF Effect, DbStep, StoresEntry, InsertEntry, tableVars
<1>7. /\ r \in Threads /\ th[r] \in ThreadShape /\ Ingests(r) /\ ~th[r].error
      /\ th[r].n \in Nat /\ th'[r].pc \in {"entry", "receive", "leave"}
      /\ th'[r].pc = "leave" => th[r].n = 0
      /\ th'[r].pc # "entry"
      /\ th'[r].stage = th[r].stage /\ th'[r].size = th[r].size /\ th'[r].n = th[r].n
      /\ th'[r].error = ~ok /\ th'[r].closed = th[r].closed /\ th'[r].answer = "none"
      /\ \E y : Set(r, y) /\ th'[r] = y /\ ThreadOK(kind[r], y)
    BY <1>1, <1>3, StoringFields
<1>8. PICK y : Set(r, y) /\ th'[r] = y /\ ThreadOK(kind[r], y)
    BY <1>7
<1>9. kind' = kind /\ \A q \in Threads : q # r => th'[q] = th[q]
    BY <1>7, <1>8, SetMoves DEF RInv
<1>10. ServiceInv' /\ AnswersOnly' /\ waiting_task_ids' \subseteq Tasks /\ \A t : Untouched(t)
    BY <1>1, <1>7, AtWork, ServiceUnchanged, ServiceStepKeeps DEF AnswersOnly
<1>11. TaskPart(r)'
    BY <1>1, <1>2, <1>7, <1>9, StoringTaskPart
<1>12. ~raced' /\ ~th'[r].error =>
           Entry(r) \in entries' /\ \E e \in entries' : e.id = <<r, N_CHUNKS - th[r].n>>
    <2>1. Entry(r).id = <<r, N_CHUNKS - th[r].n>>
        BY DEF Entry, Chunk
    <2>2. ~th'[r].error => ok
        BY <1>7, Zenon
    <2>3. ~raced' /\ ok => done
        BY <1>5, Zenon
    <2>. QED
        BY <1>6, <2>1, <2>2, <2>3
<1>13. Progress(r)'
    <2>1. Progress(r) /\ (~raced' => ~raced)
        BY <1>5, <1>7, AtWork DEF RacedOnly
    <2>2. ASSUME ~raced', ~dropped', ~th'[r].error PROVE StoredChunks(r, N_CHUNKS - th[r].n)'
        <3>1. StoredChunks(r, N_CHUNKS - th[r].n - 1)
            BY <1>1, <1>2, <1>7, <2>1, <2>2 DEF Progress
        <3>2. ASSUME NEW k \in 1..(N_CHUNKS - th[r].n)
              PROVE  k \in 1..(N_CHUNKS - th[r].n - 1) \/ k = N_CHUNKS - th[r].n
            BY <1>7, <3>2, RagConstants
        <3>3. ASSUME NEW k \in 1..(N_CHUNKS - th[r].n)
              PROVE  \E e \in entries' : e.id = <<r, k>>
            BY <1>6, <1>12, <2>2, <3>1, <3>2, <3>3 DEF StoredChunks
        <3>. QED
            BY <1>7, <3>3 DEF StoredChunks
    <2>. QED
        BY <1>2, <1>7, <2>1, <2>2 DEF Progress
<1>14. ASSUME ~raced', ~dropped', NEW c \in contents' PROVE Accounted(c)'
    <2>1. ~raced /\ ~dropped /\ c \in contents
        BY <1>1, <1>5, <1>6, <1>14 DEF RacedOnly
    <2>2. Entry(r).content = Chunk(r)
        BY DEF Entry
    <2>3. th'[r].error \/ \E e \in entries' : e.content = Chunk(r)
        BY <1>12, <1>14, <2>2
    <2>. QED
        BY <1>6, <1>7, <1>9, <2>1, <2>3, StoringAccounts
<1>15. y.answer # th[r].answer => kind[r] # "create" /\ y.answer # "exists"
    BY <1>7, <1>8 DEF Ingests
<1>. QED
    BY <1>5, <1>6, <1>7, <1>8, <1>10, <1>11, <1>13, <1>14, <1>15, MoveKeeps

-----------------------------------------------------------------------------
(* Steps of the task server, and those that only the connection or the     *)
(* process takes.                                                          *)

LEMMA IdleSides ==
    ASSUME RInv, UNCHANGED <<tableVars, raced, kind, th, dropped>>
    PROVE  /\ DbInv' /\ ThreadsOK' /\ StoreSide'
           /\ (\A r : DbStep(r)) /\ \A r \in Threads : AnswersTruly(r)
<1>1. UNCHANGED <<tables, documents, contents, entries>>
    BY DEF tableVars
<1>2. DbInv'
    BY <1>1 DEF RInv, DbInv
<1>3. ThreadsOK' /\ Threads' = Threads
    BY DEF RInv, ThreadsOK, Threads
<1>4. ASSUME NEW q \in Threads PROVE Progress(q)'
    BY <1>1, OtherProgress DEF RInv, StoreSide
<1>5. ASSUME NEW c, Accounted(c) PROVE Accounted(c)'
    BY <1>1, <1>3, <1>5 DEF Accounted, Ingests, Chunk
<1>6. StoreSide'
    BY <1>1, <1>3, <1>4, <1>5 DEF RInv, StoreSide
<1>. QED
    BY <1>2, <1>3, <1>6 DEF DbStep, AnswersTruly

LEMMA IdleKeeps ==
    ASSUME RInv, UNCHANGED <<serviceVars, tableVars, raced, kind, th, dropped>>, NEW r
    PROVE  Kept(r)
<1>1. /\ DbInv' /\ ThreadsOK' /\ StoreSide'
      /\ DbStep(r) /\ \A q \in Threads : AnswersTruly(q)
    BY IdleSides
<1>2. /\ UNCHANGED <<fresh, posted, queue_results, waiting_task_ids>>
      /\ \A t : Untouched(t)
    BY ServiceUnchanged
<1>3. ASSUME NEW q \in Threads PROVE TaskPart(q)'
    BY <1>2, OtherTaskPart DEF RInv, TaskSide, TaskPart, SameStage
<1>4. ServiceInv'
    BY ServiceStepKeeps DEF RInv, TaskSide
<1>5. TaskSide'
    BY <1>2, <1>3, <1>4 DEF RInv, TaskSide, TaskPart, AnswersOnly, Threads
<1>. QED
    BY <1>1, <1>5 DEF RInv, Kept

LEMMA ServerKeeps ==
    ASSUME RInv, NEW t \in Tasks, ServeTask(t) \/ DropTask(t), NEW r
    PROVE  Kept(r)
<1>1. UNCHANGED <<tableVars, raced, kind, th, dropped>>
    BY DEF ServeTask, DropTask, dbVars
<1>2. /\ DbInv' /\ ThreadsOK' /\ StoreSide'
      /\ DbStep(r) /\ \A q \in Threads : AnswersTruly(q)
    BY <1>1, IdleSides
<1>3. /\ ServiceInv /\ AnswersOnly /\ waiting_task_ids \subseteq Tasks
      /\ queue_results \in Seq(TaskResult) /\ \A q \in Threads : TaskPart(q)
    BY DEF RInv, TaskSide, TaskPart, ServiceInv, ServiceTypeOK
<1>4. /\ t \in posted /\ posted' = posted \ {t} /\ fresh' = fresh
      /\ waiting_task_ids' = waiting_task_ids
      /\ ServiceInv' /\ AnswersOnly'
      /\ \A u : HasResult(u)' <=> HasResult(u) \/ (u = t /\ t \in waiting_task_ids)
    <2>1. ASSUME NEW k \in {"final", "error"}, AnswerWith(t, <<>>, k)
          PROVE  /\ t \in posted /\ posted' = posted \ {t} /\ fresh' = fresh
                 /\ waiting_task_ids' = waiting_task_ids
                 /\ ServiceInv' /\ AnswersOnly'
                 /\ \A u : HasResult(u)' <=> HasResult(u) \/ (u = t /\ t \in waiting_task_ids)
        <3>1. /\ t \in posted /\ posted' = posted \ {t} /\ fresh' = fresh
              /\ Send(<<>> \o <<Result(t, k)>>)
            BY <2>1 DEF AnswerWith
        <3>2. ServiceInv'
            <4>1. Answer(t)
                BY <2>1 DEF Answer
            <4>2. ServiceNext
                BY <4>1 DEF ServiceNext, Serve
            <4>. QED
                BY <1>3, <4>2, ServiceStepKeeps
        <3>3. waiting_task_ids' = waiting_task_ids
            BY <3>1 DEF Send
        <3>4. /\ AnswersOnly'
              /\ \A u : HasResult(u)' <=> HasResult(u) \/ (u = t /\ t \in waiting_task_ids)
            BY <1>3, <3>1, ResultSent
        <3>. QED
            BY <3>1, <3>2, <3>3, <3>4
    <2>2. CASE DropTask(t)
        <3>1. /\ Drop(t) /\ t \in posted /\ t \notin waiting_task_ids /\ posted' = posted \ {t}
              /\ fresh' = fresh /\ UNCHANGED <<queue_results, waiting_task_ids>>
            BY <2>2 DEF DropTask, Drop, responseVars
        <3>2. ServiceInv'
            BY <1>3, <3>1, ServiceStepKeeps DEF ServiceNext, Serve
        <3>. QED
            BY <1>3, <3>1, <3>2 DEF AnswersOnly, HasResult
    <2>. QED
        BY <2>1, <2>2 DEF ServeTask
<1>5. ASSUME NEW q \in Threads PROVE TaskPart(q)'
    <2>1. SameStage(q) /\ TaskPart(q) /\ kind' = kind
        BY <1>1, <1>3 DEF SameStage
    <2>2. CASE t[1] # q
        <3>1. \A u \in Tasks : u[1] = q => Untouched(u)
            BY <1>4, <2>2 DEF Untouched
        <3>. QED
            BY <1>3, <1>4, <2>1, <3>1, OtherTaskPart
    <2>3. CASE t[1] = q
        <3>1. /\ Ids(q)' = Ids(q) /\ Active(q)' = Active(q) /\ th' = th
              /\ \A s : TasksAt(q, s)' = TasksAt(q, s)
            BY <1>1 DEF Ids, TasksAt, Active
        <3>2. NewTasks(q)'
            BY <1>1, <1>4, <2>1, <3>1 DEF TaskPart, NewTasks, Unsubmitted, Ingests
        <3>3. WaitsFor(q)'
            BY <1>4, <2>1, <3>1 DEF TaskPart, WaitsFor
        <3>4. t \in waiting_task_ids => Active(q) /\ t \in Ids(q)
            BY <1>4, <2>1, <2>3 DEF TaskPart, Settled, Clean
        <3>5. Active(q) /\ t \in Ids(q) => t \in waiting_task_ids
            BY <2>1 DEF TaskPart, Expects
        <3>6. Active(q) => Outstanding(q)' = Outstanding(q)
            BY <1>4, <3>1, <3>5 DEF Outstanding
        <3>7. Expects(q)'
            BY <1>4, <2>1, <3>1, <3>6 DEF TaskPart, Expects
        <3>8. ASSUME NEW u \in Tasks, u[1] = q, Clean(u)
              PROVE  Clean(u)' \/ (Active(q) /\ u \in Ids(q))
            BY <1>4, <3>4, <3>8 DEF Clean
        <3>9. Settled(q)'
            BY <2>1, <3>1, <3>8 DEF TaskPart, Settled
        <3>. QED
            BY <3>2, <3>3, <3>7, <3>9 DEF TaskPart
    <2>. QED
        BY <2>2, <2>3
<1>6. TaskSide'
    BY <1>1, <1>3, <1>4, <1>5 DEF TaskSide, TaskPart, Threads
<1>. QED
    BY <1>2, <1>6 DEF RInv, Kept

-----------------------------------------------------------------------------
(* The theorems.                                                           *)

LEMMA RagInitHolds == Init => RInv
<1> SUFFICES ASSUME Init PROVE RInv
    OBVIOUS
<1>1. /\ ServiceInit /\ tables \in {{}, Schema} /\ documents = {} /\ contents = {}
      /\ entries = {} /\ raced = FALSE /\ dropped = FALSE /\ kind \in Mixes
      /\ th = [r \in Threads |-> NewThread(kind[r])]
    BY DEF Init
<1>2. DbInv
    BY <1>1 DEF DbInv, Schema
<1>3. PICK R \in SUBSET Requests : kind \in [R -> Kinds]
    BY <1>1, RagAssumption
<1>4. Threads = R /\ kind \in [Threads -> Kinds] /\ Threads \subseteq Requests
    BY <1>3 DEF Threads
<1>5. ASSUME NEW r \in Threads
      PROVE  /\ th[r] = NewThread(kind[r]) /\ ThreadOK(kind[r], th[r])
             /\ th[r].pc \in {"submit", "connect"} /\ th[r].stage = "embed"
             /\ th[r].answer = "none" /\ th[r].error = FALSE
             /\ Ingests(r) => th[r].pc = "connect"
    <2>1. th[r] = NewThread(kind[r]) /\ kind[r] \in Kinds
        BY <1>1, <1>4
    <2>2. /\ th[r].pc = IF kind[r] \in {"ask", "ask_reranked"} THEN "submit" ELSE "connect"
          /\ th[r].stage = "embed"
          /\ th[r].size = IF kind[r] \in {"ingest", "ingest_by_id"} THEN N_CHUNKS ELSE 1
          /\ th[r].n = 0 /\ th[r].todo = <<>> /\ th[r].error = FALSE /\ th[r].closed = FALSE
          /\ th[r].answer = "none"
        BY <2>1 DEF NewThread
    <2>3. th[r] \in ThreadShape
        <3>1. /\ N_CHUNKS \in 1..(N_CHUNKS + N_RETRIEVALS) /\ 1 \in 1..(N_CHUNKS + N_RETRIEVALS)
              /\ 0 \in Nat /\ <<>> \in Seq(Schema)
            BY RagConstants
        <3>. QED
            BY <2>1, <3>1 DEF NewThread, ThreadShape, Pcs, Stages, Answers
    <2>4. ThreadOK(kind[r], th[r])
        BY <2>1, <2>2, <2>3 DEF ThreadOK, Role, Course, Todo, Answered
    <2>. QED
        BY <2>1, <2>2, <2>4 DEF Ingests
<1>6. ThreadsOK
    <2>1. th \in [Threads -> ThreadShape]
        BY <1>1, <1>5 DEF ThreadOK
    <2>. QED
        BY <1>4, <1>5, <2>1 DEF ThreadsOK
<1>7. fresh = Tasks /\ posted = {} /\ waiting_task_ids = {} /\ queue_results = <<>>
    BY <1>1 DEF ServiceInit, ResponseInit
<1>8. DOMAIN queue_results = {}
    BY <1>7
<1>9. TaskSide
    <2>1. ServiceInv
        BY <1>1, ServiceInitHolds
    <2>2. AnswersOnly /\ waiting_task_ids \subseteq Tasks /\ \A t : ~HasResult(t)
        BY <1>7, <1>8 DEF AnswersOnly, HasResult
    <2>3. ASSUME NEW r \in Threads PROVE NewTasks(r) /\ Expects(r) /\ Settled(r) /\ WaitsFor(r)
        <3>1. \A s : TasksAt(r, s) \subseteq fresh
            BY <1>7 DEF TasksAt
        <3>2. ~Active(r)
            BY <1>5 DEF Active
        <3>. QED
            BY <1>7, <2>2, <3>1, <3>2 DEF NewTasks, Expects, Settled, WaitsFor, Clean
    <2>. QED
        BY <2>1, <2>2, <2>3 DEF TaskSide
<1>10. StoreSide
    BY <1>1, <1>5 DEF StoreSide, Progress
<1>. QED
    BY <1>2, <1>6, <1>9, <1>10 DEF RInv

\* Every step keeps the invariant, takes the database a step that DbStep allows, and
\* answers about the schema truly.
LEMMA RagStepKeeps ==
    ASSUME RInv, [Next]_vars
    PROVE  \E r : Kept(r)
<1>1. ASSUME NEW r \in Requests, Step(r) \/ DialFails(r) PROVE Kept(r)
    <2>1. CASE Connect(r) \/ Dial(r) \/ DialFails(r)
        BY <2>1, ConnectIsLocal, LocalStepKeeps
    <2>2. CASE SelectDocument(r) \/ InsertDoc(r) \/ DeleteDocument(r)
        BY <2>2, SelectIsLocal, InsertIsLocal, DeleteIsLocal, LocalStepKeeps
    <2>3. CASE CreateObject(r) \/ DestroySchema(r) \/ DropObject(r) \/ CheckTable(r)
        BY <2>3, CreateIsLocal, DestroyIsLocal, DropIsLocal, CheckIsLocal, LocalStepKeeps
    <2>4. CASE Search(r) \/ Disconnect(r)
        BY <2>4, SearchIsLocal, DisconnectIsLocal, LocalStepKeeps
    <2>5. CASE Submit(r) \/ ReceiveFinal(r) \/ ReceiveError(r) \/ ReceiveClosed(r) \/ Leave(r)
        BY <2>5, SubmitKeeps, FinalKeeps, ErrorKeeps, ClosedKeeps, LeaveKeeps
    <2>6. CASE StoreContent(r) \/ StoreEntry(r)
        BY <2>6, ContentKeeps, EntryKeeps
    <2>. QED
        BY <1>1, <2>1, <2>2, <2>3, <2>4, <2>5, <2>6 DEF Step
<1>2. ASSUME NEW r \in Requests, CloseConnection(r) PROVE Kept(r)
    BY <1>2, CloseKeeps
<1>3. ASSUME NEW t \in Tasks, ServeTask(t) \/ DropTask(t) PROVE \E r : Kept(r)
    BY <1>3, ServerKeeps
<1>4. CASE \/ \E r \in Requests : Crash(r)
           \/ LoseConnection \/ Stopped \/ UNCHANGED vars
    <2>1. UNCHANGED <<serviceVars, tableVars, raced, kind, th, dropped>>
        BY <1>4 DEF Crash, LoseConnection, Stopped, vars, dbVars
    <2>. QED
        BY <2>1, IdleKeeps
<1>. QED
    BY <1>1, <1>2, <1>3, <1>4 DEF Next

\* RagServer: the invariant that the following theorems rest on holds for every mix of
\* requests, every number of chunks and retrievals and every loss of the connection.
THEOREM RagInvariant == Spec => []RInv
<1>1. RInv /\ [Next]_vars => RInv'
    BY RagStepKeeps DEF Kept
<1>. QED
    BY <1>1, RagInitHolds, PTL DEF Spec

\* handle_chunking: an ingestion that is answered without an error, to a client that
\* is still there, has stored all its chunks, however the statements of the other
\* threads fall between its own (IngestedOnSuccess).
THEOREM IngestionIsComplete == Spec => []IngestedOnSuccess
<1>1. RInv => IngestedOnSuccess
    <2> SUFFICES ASSUME RInv, NEW r \in Threads,
                        Ingests(r), th[r].answer = "ok", ~th[r].closed, ~raced, ~dropped
                 PROVE  \A k \in 1..N_CHUNKS : \E e \in Found : e.id = <<r, k>>
        BY DEF IngestedOnSuccess
    <2>1. ~th[r].error
        BY DEF RInv, ThreadsOK, ThreadOK, Answered, Ingests
    <2>2. StoredChunks(r, N_CHUNKS)
        BY <2>1 DEF RInv, StoreSide, Progress
    <2>3. Found = entries
        BY AllFound DEF RInv
    <2>. QED
        BY <2>2, <2>3 DEF StoredChunks
<1>. QED
    BY <1>1, RagInvariant, PTL

\* insertRagEntry: a content that no entry refers to belongs to an ingestion that
\* failed or that is about to store the entry (NoOrphanContents).
THEOREM ContentsAreAccounted == Spec => []NoOrphanContents
<1>1. RInv => NoOrphanContents
    BY DEF RInv, StoreSide, Accounted, NoOrphanContents
<1>. QED
    BY <1>1, RagInvariant, PTL

\* handle_chunking, handle_completions_impl_with_rag: a request that has ended has no
\* result in the queue, and no announced id but those of its reranking (NothingLeft).
THEOREM EndedRequestsLeaveNothing == Spec => []NothingLeft
<1>1. RInv => NothingLeft
    <2> SUFFICES ASSUME RInv, NEW r \in Threads, th[r].pc = "done"
                 PROVE  /\ \A i \in DOMAIN queue_results : queue_results[i].id[1] # r
                        /\ \A t \in waiting_task_ids : t[1] = r => t[2] = "rerank"
        BY DEF NothingLeft
    <2>1. TaskPart(r) /\ queue_results \in Seq(TaskResult) /\ ~Active(r)
        BY AtWork DEF Active
    <2>2. \A t \in waiting_task_ids : t[1] = r => t[2] = "rerank"
        BY <2>1 DEF TaskPart, WaitsFor
    <2>3. ASSUME NEW i \in DOMAIN queue_results PROVE queue_results[i].id[1] # r
        <3>1. queue_results[i] \in TaskResult
            BY <2>1, <2>3
        <3>2. queue_results[i].id \in Tasks
            BY <3>1 DEF TaskResult
        <3>. QED
            BY <2>1, <3>2 DEF TaskPart, Settled, Clean, HasResult
    <2>. QED
        BY <2>2, <2>3
<1>. QED
    BY <1>1, RagInvariant, PTL

\* handle_rag_db_admin: "exists" and the success of "create" are true when they are
\* answered (SchemaAnswersTrue).
THEOREM SchemaAnswersAreTrue == Spec => SchemaAnswersTrue
<1> DEFINE Truly ==
        \A r \in Threads :
            th[r].answer # th'[r].answer /\ ~raced'
               /\ (th'[r].answer = "exists" \/ (kind[r] = "create" /\ th'[r].answer = "ok"))
            => tables' = Schema
<1>1. RInv /\ [Next]_vars => [Truly]_vars
    <2>1. RInv /\ [Next]_vars => Truly
        BY RagStepKeeps DEF Kept, AnswersTruly
    <2>. QED
        BY <2>1
<1>. QED
    BY <1>1, RagInvariant, PTL DEF Spec, SchemaAnswersTrue

\* postgres_client: whatever the threads do, and in whatever order their statements
\* come, the database is a store of chunks of known documents (ImplementsRagStore).
THEOREM DatabaseIsRagStore == Spec => ImplementsRagStore
<1>1. Init => Store!StoreInit
    BY DEF Init, Store!StoreInit, Found
<1>2. RInv /\ [Next]_vars => [Store!StoreNext]_<<documents, Found>>
    <2> SUFFICES ASSUME RInv, [Next]_vars
                 PROVE  Store!StoreNext \/ UNCHANGED <<documents, Found>>
        OBVIOUS
    <2>1. PICK r : DbStep(r)
        BY RagStepKeeps DEF Kept
    <2>. QED
        BY <2>1, DbStepStores DEF RInv
<1>. QED
    BY <1>1, <1>2, RagInvariant, PTL DEF Spec, ImplementsRagStore, Store!StoreSpec
=============================================================================

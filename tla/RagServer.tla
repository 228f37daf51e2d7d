----------------------------- MODULE RagServer -----------------------------
(***************************************************************************)
(* The HTTP threads of the RAG endpoints, between the task server, which   *)
(* answers as TaskService says, and the database behind the connection     *)
(* that they share: ingestion (handle_chunking), completion with retrieval *)
(* (handle_completions_impl_with_rag) and handle_rag_db_admin.             *)
(*                                                                         *)
(* All requests name the same database and, where they name one, the same  *)
(* document.  The windows of an ingestion are the subject of RagChunking:  *)
(* here each result gives one entry, the k-th to arrive the k-th content.  *)
(* Completions are not streamed.  A submission and a cancellation are one  *)
(* step each; LlamaServer has their interleavings.                         *)
(***************************************************************************)
EXTENDS TaskService, PostgresClient

CONSTANTS
    Requests,       \* HTTP requests
    Mixes,          \* which of them there may be, and of which kind
    N_CHUNKS,       \* streams of an ingestion
    N_RETRIEVALS,   \* n_rag_chunks of a completion
    MayDisconnect,  \* requests whose client may close the connection
    TaskMayFail,    \* a task may end with an error
    DbMayFail       \* the database may refuse or lose the connection

Admin == {"create", "drop", "exists", "create_document", "delete_document"}
Kinds == {"ingest", "ingest_by_id", "ask", "ask_reranked"} \cup Admin
Stages == {"embed", "rerank", "complete"}

ASSUME RagAssumption ==
    /\ Tasks = Requests \X Stages \X (1..(N_CHUNKS + N_RETRIEVALS))
    /\ Mixes \subseteq UNION {[R -> Kinds] : R \in SUBSET Requests}
    /\ N_CHUNKS \in Nat \ {0} /\ N_RETRIEVALS \in Nat \ {0}
    /\ MayDisconnect \subseteq Requests
    /\ {TaskMayFail, DbMayFail} \subseteq BOOLEAN

VARIABLES
    kind,       \* what each request is
    th,         \* the thread of each request
    alive,      \* whether the process lives
    dropped     \* history: whether the RAG table was ever dropped

dbVars == <<conn, tableVars, raced>>
vars == <<serviceVars, dbVars, kind, th, alive, dropped>>

Threads == DOMAIN kind
Doc == CHOOSE d \in Documents : TRUE
Ingests(r) == kind[r] \in {"ingest", "ingest_by_id"}
Asks(r)    == kind[r] \in {"ask", "ask_reranked"}

\* todo: objects of the schema still to be seen to.  n: results still to be received.
\* size: tasks of the stage.  error: an error was answered.
NewThread(k) ==
    [pc |-> IF k \in {"ask", "ask_reranked"} THEN "submit" ELSE "connect",
     stage |-> "embed", size |-> IF k \in {"ingest", "ingest_by_id"} THEN N_CHUNKS ELSE 1,
     n |-> 0, todo |-> <<>>, error |-> FALSE, closed |-> FALSE, answer |-> "none"]

Init ==
    /\ ServiceInit
    /\ conn = "null"
    /\ tables \in {{}, Schema}
    /\ documents = {} /\ contents = {} /\ entries = {}
    /\ raced = FALSE
    /\ kind \in Mixes
    /\ th = [r \in Threads |-> NewThread(kind[r])]
    /\ alive = TRUE
    /\ dropped = FALSE

-----------------------------------------------------------------------------
Runs(r) == alive /\ r \in Threads
At(r, pc) == Runs(r) /\ th[r].pc = pc
Set(r, t) == th' = [th EXCEPT ![r] = t] /\ UNCHANGED <<kind, alive>>
Goto(r, pc) == Set(r, [th[r] EXCEPT !.pc = pc])
End(r, answer) == Set(r, [th[r] EXCEPT !.pc = "done", !.answer = answer])

\* Steps that use the connection.  Of two threads that are at such a step one may be
\* done before the other begins, or not.
Statements == {"select", "insert", "content", "entry", "search", "create", "drop",
               "check", "delete", "disconnect"}
Racing(r) == \E q \in Threads \ {r} : th[q].pc \in Statements

\* A thread uses the connection while another does: the process may not survive it.
Crash(r) ==
    /\ Runs(r) /\ th[r].pc \in Statements /\ Racing(r) /\ conn # "null"
    /\ alive' = FALSE
    /\ UNCHANGED <<serviceVars, dbVars, kind, th, dropped>>

-----------------------------------------------------------------------------
(* Connecting.                                                             *)

AfterConnect(r) ==
    CASE kind[r] \in {"ingest", "create_document"} -> [th[r] EXCEPT !.pc = "select"]
      [] kind[r] = "ingest_by_id"    -> [th[r] EXCEPT !.pc = "submit"]
      [] Asks(r)                     -> [th[r] EXCEPT !.pc = "search"]
      [] kind[r] = "delete_document" -> [th[r] EXCEPT !.pc = "delete"]
      [] kind[r] = "create" -> [th[r] EXCEPT !.pc = "create", !.todo = createSchema]
      [] kind[r] = "drop"   -> [th[r] EXCEPT !.pc = "destroy", !.todo = destroySchema]
      [] kind[r] = "exists" -> [th[r] EXCEPT !.pc = "check", !.todo = hasSchema]

\* A connection that is there, lost or not, is used; otherwise one is made, which
\* replaces the one that another thread may have made in the meantime.
Connect(r) ==
    /\ At(r, "connect")
    /\ IF conn = "null" THEN Goto(r, "dial") ELSE Set(r, AfterConnect(r))
    /\ UNCHANGED <<serviceVars, dbVars, dropped>>

Dial(r) ==
    /\ At(r, "dial")
    /\ connect(TRUE)
    /\ Set(r, AfterConnect(r))
    /\ UNCHANGED <<serviceVars, tableVars, raced, dropped>>

DialFails(r) ==
    /\ DbMayFail
    /\ At(r, "dial")
    /\ connect(FALSE)
    /\ End(r, "error")
    /\ UNCHANGED <<serviceVars, tableVars, raced, dropped>>

\* The database goes away, or restarts: the client does not notice.
LoseConnection ==
    /\ DbMayFail /\ alive
    /\ conn = "open"
    /\ conn' = "bad"
    /\ UNCHANGED <<serviceVars, tableVars, raced, kind, th, alive, dropped>>

-----------------------------------------------------------------------------
(* The methods of the client, statement by statement.                      *)

Executes(r, pc) == At(r, pc) /\ UNCHANGED <<serviceVars, conn>>
Effect(done, effect) == IF done THEN effect ELSE UNCHANGED tableVars

\* createOrRetrieveDocument; what it throws is answered, here or by the HTTP library.
AfterDocument(r) == IF kind[r] = "ingest" THEN Goto(r, "submit") ELSE End(r, "ok")

SelectDocument(r) ==
    /\ Executes(r, "select")
    /\ \E ok, row \in BOOLEAN :
          /\ ReadOutcome("documents" \in tables, Racing(r), ok, row = (Doc \in documents))
          /\ CASE ok /\ row  -> AfterDocument(r)
               [] ok /\ ~row -> Goto(r, "insert")
               [] ~ok        -> End(r, "error")
    /\ UNCHANGED <<tableVars, dropped>>

InsertDoc(r) ==
    /\ Executes(r, "insert")
    /\ \E done, ok \in BOOLEAN :
          /\ Outcome(CanInsertDocument(Doc), Racing(r), done, ok)
          /\ Effect(done, InsertDocument(Doc))
          /\ IF ok THEN AfterDocument(r) ELSE End(r, "error")
    /\ UNCHANGED dropped

DeleteDocument(r) ==
    /\ Executes(r, "delete")
    /\ \E done, ok \in BOOLEAN :
          /\ Outcome(CanDelete(Doc), Racing(r), done, ok)
          /\ Effect(done, Delete(Doc))
          /\ End(r, IF ok THEN "ok" ELSE "error")
    /\ UNCHANGED dropped

\* The statements of createSchema up to the first that fails, ...
CreateObject(r) ==
    LET t == Head(th[r].todo)
        rest == Tail(th[r].todo)
    IN  /\ Executes(r, "create")
        /\ \E done, ok \in BOOLEAN :
              /\ Outcome(CanCreate(t), Racing(r), done, ok)
              /\ Effect(done, CreateTable(t))
              /\ CASE ~ok                -> End(r, "error")
                   [] ok /\ rest = <<>>  -> End(r, "ok")
                   [] ok /\ rest # <<>>  -> Set(r, [th[r] EXCEPT !.todo = rest])
        /\ UNCHANGED dropped

\* ... those of destroySchema, if there is a connection at first, whether they fail
\* or not, ...
DestroySchema(r) ==
    /\ At(r, "destroy")
    /\ IF conn = "null" THEN End(r, "error") ELSE Goto(r, "drop")
    /\ UNCHANGED <<serviceVars, dbVars, dropped>>

DropObject(r) ==
    LET t == Head(th[r].todo)
        rest == Tail(th[r].todo)
    IN  /\ Executes(r, "drop")
        /\ \E done, ok \in BOOLEAN :
              /\ Outcome(CanDrop(t), Racing(r), done, ok)
              /\ Effect(done, DropTable(t))
              /\ dropped' = (dropped \/ (done /\ t = "entries"))
        /\ IF rest = <<>> THEN End(r, "ok") ELSE Set(r, [th[r] EXCEPT !.todo = rest])

\* Plausible bug: the same table is looked for again.
CheckTableAgain(r) ==
    LET t == Head(th[r].todo)
        rest == Tail(th[r].todo)
    IN  /\ Executes(r, "check")
        /\ \E ok, there \in BOOLEAN :
              /\ ReadOutcome(TRUE, Racing(r), ok, there = (t \in tables))
              /\ CASE ~ok \/ ~there              -> End(r, "absent")
                   [] ok /\ there /\ rest = <<>> -> End(r, "exists")
                   [] ok /\ there /\ rest # <<>> -> UNCHANGED <<th, kind, alive>>
        /\ UNCHANGED <<tableVars, dropped>>

\* ... and of hasSchema up to the first table that is not there.
CheckTable(r) ==
    LET t == Head(th[r].todo)
        rest == Tail(th[r].todo)
    IN  /\ Executes(r, "check")
        /\ \E ok, there \in BOOLEAN :
              /\ ReadOutcome(TRUE, Racing(r), ok, there = (t \in tables))
              /\ CASE ~ok \/ ~there              -> End(r, "absent")
                   [] ok /\ there /\ rest = <<>> -> End(r, "exists")
                   [] ok /\ there /\ rest # <<>> -> Set(r, [th[r] EXCEPT !.todo = rest])
        /\ UNCHANGED <<tableVars, dropped>>

-----------------------------------------------------------------------------
(* Tasks: submitted and received stage by stage.                           *)

TasksAt(r, stage) == {t \in Tasks : t[1] = r /\ t[2] = stage}
Ids(r) == {t \in TasksAt(r, th[r].stage) : t[3] <= th[r].size}

\* Announced and posted; LlamaServer has what may happen in between.
Submit(r) ==
    /\ At(r, "submit")
    /\ AddWaiting(Ids(r))
    /\ fresh' = fresh \ Ids(r)
    /\ posted' = posted \cup Ids(r)
    /\ Set(r, [th[r] EXCEPT !.pc = "receive", !.n = th[r].size])
    /\ UNCHANGED <<dbVars, dropped>>

\* Where a thread goes when its results are in: reranking does not remove its ids.
Received(r) == IF th[r].stage = "rerank" THEN "disconnect" ELSE "leave"

\* An ingestion stores the result, unless there was an error before.
ReceiveFinal(r) ==
    LET n == th[r].n - 1
    IN  /\ At(r, "receive") /\ ~th[r].closed
        /\ \E i \in Matches(Ids(r)) :
              /\ IsFirstFor(i, Ids(r))
              /\ queue_results[i].kind = "final"
              /\ TakeResult(i)
        /\ Set(r, [th[r] EXCEPT !.n = n,
                      !.pc = CASE Ingests(r) /\ ~th[r].error -> "content"
                               [] n = 0 /\ (~Ingests(r) \/ th[r].error) -> Received(r)
                               [] OTHER -> "receive"])
        /\ UNCHANGED <<fresh, posted, dbVars, dropped>>

\* An error result, or a connection that is found closed, cancels all tasks of the
\* stage; after an error reranking ends the request at once.
CancelTasks(r) == RemoveAndPurge(Ids(r)) /\ UNCHANGED <<fresh, posted, dbVars, dropped>>

ReceiveError(r) ==
    /\ At(r, "receive") /\ ~th[r].closed
    /\ \E i \in Matches(Ids(r)) : IsFirstFor(i, Ids(r)) /\ queue_results[i].kind = "error"
    /\ CancelTasks(r)
    /\ IF th[r].stage = "rerank" THEN End(r, "error")
       ELSE Set(r, [th[r] EXCEPT !.pc = "leave", !.error = TRUE])

ReceiveClosed(r) ==
    /\ At(r, "receive") /\ th[r].closed
    /\ CancelTasks(r)
    /\ Goto(r, Received(r))

\* remove_waiting_task_ids, and what comes after: an error or, for a completion that
\* has its embedding, the search.
\* Plausible bug: the ids of the embedding stay.
LeaveAnnounced(r) ==
    /\ At(r, "leave")
    /\ IF th[r].stage = "embed" /\ Asks(r) THEN UNCHANGED responseVars
       ELSE RemoveWaiting(Ids(r))
    /\ CASE th[r].error -> End(r, "error")
         [] ~th[r].error /\ Asks(r) /\ th[r].stage = "embed" ->
               IF th[r].n > 0 THEN End(r, "error") ELSE Goto(r, "connect")
         [] OTHER -> End(r, "ok")
    /\ UNCHANGED <<fresh, posted, dbVars, dropped>>

Leave(r) ==
    /\ At(r, "leave")
    /\ RemoveWaiting(Ids(r))
    /\ CASE th[r].error -> End(r, "error")
         [] ~th[r].error /\ Asks(r) /\ th[r].stage = "embed" ->
               IF th[r].n > 0 THEN End(r, "error") ELSE Goto(r, "connect")
         [] OTHER -> End(r, "ok")
    /\ UNCHANGED <<fresh, posted, dbVars, dropped>>

CloseConnection(r) ==
    /\ Runs(r) /\ r \in MayDisconnect
    /\ ~th[r].closed /\ th[r].pc # "done"
    /\ Set(r, [th[r] EXCEPT !.closed = TRUE])
    /\ UNCHANGED <<serviceVars, dbVars, dropped>>

-----------------------------------------------------------------------------
(* insertRagEntry: a content and the entry that refers to it.              *)

Chunk(r) == N_CHUNKS - th[r].n
Entry(r) == [id |-> <<r, Chunk(r)>>, doc |-> Doc, content |-> Chunk(r)]

\* After an entry or a failure the remaining results are received.
Stored(r, ok) ==
    Set(r, [th[r] EXCEPT !.error = ~ok, !.pc = IF th[r].n = 0 THEN "leave" ELSE "receive"])

StoreContent(r) ==
    /\ Executes(r, "content")
    /\ \E done, ok \in BOOLEAN :
          /\ Outcome(CanInsertContent, Racing(r), done, ok)
          /\ Effect(done, InsertContent(Chunk(r)))
          /\ IF ok THEN Goto(r, "entry") ELSE Stored(r, FALSE)
    /\ UNCHANGED dropped

\* Plausible bug: the result of the second statement is not looked at.
StoreEntryUnchecked(r) ==
    /\ Executes(r, "entry")
    /\ \E done, ok \in BOOLEAN :
          /\ Outcome(CanInsertEntry(Entry(r)), Racing(r), done, ok)
          /\ Effect(done, InsertEntry(Entry(r)))
          /\ Stored(r, TRUE)
    /\ UNCHANGED dropped

StoreEntry(r) ==
    /\ Executes(r, "entry")
    /\ \E done, ok \in BOOLEAN :
          /\ Outcome(CanInsertEntry(Entry(r)), Racing(r), done, ok)
          /\ Effect(done, InsertEntry(Entry(r)))
          /\ Stored(r, ok)
    /\ UNCHANGED dropped

-----------------------------------------------------------------------------
(* Retrieval.                                                              *)

Limited(n) == IF n <= N_RETRIEVALS THEN n ELSE N_RETRIEVALS

\* The chunks that are found are reranked, one task for each, if that is asked for.
Search(r) ==
    /\ Executes(r, "search")
    /\ \E ok \in BOOLEAN, rows \in 0..N_RETRIEVALS :
          /\ ReadOutcome("entries" \in tables, Racing(r), ok, rows = Limited(Cardinality(Found)))
          /\ CASE ~ok -> End(r, "error")
               [] ok /\ kind[r] = "ask_reranked" /\ rows > 0 ->
                     Set(r, [th[r] EXCEPT !.pc = "submit", !.stage = "rerank", !.size = rows])
               [] OTHER -> Goto(r, "disconnect")
    /\ UNCHANGED <<tableVars, dropped>>

\* The prompt is augmented, the connection closed, and the completion asked for.
Disconnect(r) ==
    /\ At(r, "disconnect")
    /\ disconnect
    /\ \/ UNCHANGED raced
       \/ Racing(r) /\ conn # "null" /\ raced' = TRUE
    /\ Set(r, [th[r] EXCEPT !.pc = "submit", !.stage = "complete", !.size = 1])
    /\ UNCHANGED <<serviceVars, tableVars, dropped>>

-----------------------------------------------------------------------------
\* The task server: a final result or an error, or nothing if nobody waits.
ServeTask(t) ==
    /\ alive
    /\ \/ AnswerWith(t, <<>>, "final")
       \/ TaskMayFail /\ AnswerWith(t, <<>>, "error")
    /\ UNCHANGED <<dbVars, kind, th, alive, dropped>>

DropTask(t) ==
    /\ alive
    /\ Drop(t)
    /\ UNCHANGED <<dbVars, kind, th, alive, dropped>>

Step(r) ==
    \/ Connect(r) \/ Dial(r)
    \/ SelectDocument(r) \/ InsertDoc(r) \/ DeleteDocument(r)
    \/ CreateObject(r) \/ DestroySchema(r) \/ DropObject(r) \/ CheckTable(r)
    \/ Submit(r) \/ ReceiveFinal(r) \/ ReceiveError(r)
    \/ ReceiveClosed(r) \/ Leave(r)
    \/ StoreContent(r) \/ StoreEntry(r) \/ Search(r) \/ Disconnect(r)

Stopped ==
    /\ ~alive \/ \A r \in Threads : th[r].pc = "done"
    /\ UNCHANGED vars

Next ==
    \/ \E r \in Requests : Step(r) \/ DialFails(r) \/ CloseConnection(r) \/ Crash(r)
    \/ \E t \in Tasks : ServeTask(t) \/ DropTask(t)
    \/ LoseConnection
    \/ Stopped

Spec == Init /\ [][Next]_vars

\* Threads run, and the task server answers (LlamaServer, ServiceAnswers).
FairSpec ==
    /\ Spec
    /\ \A r \in Requests : WF_vars(Step(r))
    /\ \A t \in Tasks : WF_vars(ServeTask(t))

-----------------------------------------------------------------------------
(* Properties.                                                             *)

\* An ingestion that is answered without an error, to a client that is still there,
\* has stored all its chunks, and a search finds them until the schema is dropped:
\* whatever the other threads do to the connection between its statements, short of
\* using it at the same moment.
IngestedOnSuccess ==
    \A r \in Threads :
        Ingests(r) /\ th[r].answer = "ok" /\ ~th[r].closed /\ ~raced /\ ~dropped =>
            \A k \in 1..N_CHUNKS : \E e \in Found : e.id = <<r, k>>

\* A content that no entry refers to, which no search finds and nothing deletes, is
\* left only by an ingestion that answered an error (or is at work on it).
NoOrphanContents ==
    \A c \in contents : ~raced /\ ~dropped =>
        \/ \E e \in entries : e.content = c
        \/ \E r \in Threads : Ingests(r) /\ (th[r].pc = "entry" \/ th[r].error)

\* "exists" and the success of "create" are true when they are answered: all tables
\* are there at that moment, although they are looked for or made one by one while
\* other threads drop them.
SchemaAnswersTrue ==
    [][\A r \in Threads :
          th[r].answer # th'[r].answer /\ ~raced'
             /\ (th'[r].answer = "exists" \/ (kind[r] = "create" /\ th'[r].answer = "ok"))
          => tables' = Schema]_vars

\* A request that has ended leaves no result behind, and no announced id but those of
\* its reranking, which the code never removes unless they were cancelled.
NothingLeft ==
    \A r \in Threads : th[r].pc = "done" =>
        /\ \A i \in DOMAIN queue_results : queue_results[i].id[1] # r
        /\ \A t \in waiting_task_ids : t[1] = r => t[2] = "rerank"

\* The database is a store of chunks whose documents are known.
Store == INSTANCE RagStore WITH docs <- documents, chunks <- Found
ImplementsRagStore == Store!StoreSpec

\* Every request is answered or its client gone, or the process is.
RequestEnds == <>(~alive \/ \A r \in Threads : th[r].pc = "done")
=============================================================================

--------------------------- MODULE PostgresClient ---------------------------
(***************************************************************************)
(* postgres_client: the one connection that all HTTP threads share, and    *)
(* what its statements do to the database.  A method is a sequence of      *)
(* statements outside any transaction, so that each statement is a step of *)
(* its own; the steps are put together in RagServer.  A statement is       *)
(* described by a condition (CanX), without which the database refuses it, *)
(* and by its effect (X).                                                  *)
(***************************************************************************)
EXTENDS Naturals, Sequences, FiniteSets

CONSTANT Documents

ASSUME DocumentsAssumption == Documents # {}

VARIABLES
    conn,           \* conn_: "null", "open" or "bad", that is lost and not noticed
    tables,         \* the objects of the schema that exist
    documents,      \* rows of the document table
    contents,       \* rows of the content table
    entries,        \* rows of the RAG table
    raced           \* whether two threads have been in the connection at once

tableVars == <<tables, documents, contents, entries>>

Schema == {"vector", "documents", "contents", "entries"}
createSchema == <<"vector", "documents", "contents", "entries">>
destroySchema == <<"entries", "contents", "documents", "vector">>
\* Plausible bug: the table that needs the others is looked for first.
hasSchemaReversed == <<"entries", "contents", "documents">>
hasSchema == <<"documents", "contents", "entries">>

\* The RAG table has a vector column, and references the other two.
Needs(t) == IF t = "entries" THEN Schema \ {"entries"} ELSE {}

CanCreate(t) == Needs(t) \subseteq tables
CreateTable(t) == tables' = tables \cup {t} /\ UNCHANGED <<documents, contents, entries>>

\* What another object needs is not dropped; what is not there, is.
CanDrop(t) == \A u \in tables : t \notin Needs(u)
DropTable(t) ==
    /\ tables' = tables \ {t}
    /\ documents' = IF t = "documents" THEN {} ELSE documents
    /\ contents'  = IF t = "contents"  THEN {} ELSE contents
    /\ entries'   = IF t = "entries"   THEN {} ELSE entries

CanInsertDocument(d) == "documents" \in tables /\ d \notin documents
InsertDocument(d) == documents' = documents \cup {d} /\ UNCHANGED <<tables, contents, entries>>

\* Plausible bug: the RAG table does not reference the documents.
CanDeleteReferenced(d) == "documents" \in tables
CanDelete(d) == "documents" \in tables /\ \A e \in entries : e.doc # d
Delete(d) == documents' = documents \ {d} /\ UNCHANGED <<tables, contents, entries>>

\* ON CONFLICT (hash) DO NOTHING
CanInsertContent == "contents" \in tables
InsertContent(c) == contents' = contents \cup {c} /\ UNCHANGED <<tables, documents, entries>>

CanInsertEntry(e) == "entries" \in tables /\ e.doc \in documents /\ e.content \in contents
InsertEntry(e) == entries' = entries \cup {e} /\ UNCHANGED <<tables, documents, contents>>

\* The rows of searchNearest: entries joined with their document and content.
Found == {e \in entries : e.doc \in documents /\ e.content \in contents}

\* How a statement may turn out: whether it is done, and whether it is reported as
\* done.  With no connection or a lost one it fails.  If another thread is in the
\* connection at the same time, it may be done or not, and the answer that is read
\* may be the other's.
Outcome(can, racing, done, ok) ==
    \/ /\ done = ok /\ ok = (conn = "open" /\ can)
       /\ UNCHANGED raced
    \/ /\ racing /\ conn # "null"
       /\ done => conn = "open" /\ can
       /\ raced' = TRUE

\* The same for a statement that only reads, right saying that what is read is true.
ReadOutcome(can, racing, ok, right) ==
    \/ /\ ok = (conn = "open" /\ can)
       /\ ok => right
       /\ UNCHANGED raced
    \/ /\ racing /\ conn # "null"
       /\ raced' = TRUE

connect(ok) == conn' = IF ok THEN "open" ELSE "null"
disconnect  == conn' = "null"
=============================================================================

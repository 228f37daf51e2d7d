---------------------------- MODULE MCRagServer ----------------------------
(* Two or three requests to the RAG endpoints, in the mixes that can get in    *)
(* each other's way.                                                           *)
EXTENDS RagServer

MCRequests == {"p", "q", "r"}
MCTasks == MCRequests \X Stages \X (1..(N_CHUNKS + N_RETRIEVALS))

Two(a, b) == [x \in {"p", "q"} |-> IF x = "p" THEN a ELSE b]
Three(a, b, c) == [x \in MCRequests |-> CASE x = "p" -> a [] x = "q" -> b [] x = "r" -> c]

\* Ingestions of one document, with searches, deletions and changes of the schema.
MCMixes == {
    Two("ingest", "ingest_by_id"), Two("ingest", "ask"), Two("ask_reranked", "ingest"),
    Two("ingest", "delete_document"), Two("ingest", "drop"),
    Three("create", "drop", "exists"), Three("create_document", "delete_document", "ask")}
=============================================================================

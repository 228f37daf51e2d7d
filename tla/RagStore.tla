------------------------------ MODULE RagStore ------------------------------
(***************************************************************************)
(* What the RAG database promises to those who search it, whatever order   *)
(* the statements of several threads come in: chunks of known documents,   *)
(* which stay until the schema is dropped, and documents, which stay as    *)
(* long as they have chunks.                                               *)
(***************************************************************************)
CONSTANT Documents

VARIABLES docs, chunks      \* documents, and the chunks that a search may find

StoreInit == docs = {} /\ chunks = {}

AddDocument(d) == docs' = docs \cup {d} /\ UNCHANGED chunks

AddChunk(d) ==
    /\ d \in docs
    /\ \E c \in chunks' \ chunks : c.doc = d /\ chunks' = chunks \cup {c}
    /\ UNCHANGED docs

DeleteDocument(d) ==
    /\ \A c \in chunks : c.doc # d
    /\ docs' = docs \ {d}
    /\ UNCHANGED chunks

\* The schema goes in two steps, the chunks before the documents.
DropChunks == chunks' = {} /\ UNCHANGED docs
DropDocuments == chunks = {} /\ docs' = {} /\ UNCHANGED chunks

StoreNext ==
    \/ \E d \in Documents : AddDocument(d) \/ AddChunk(d) \/ DeleteDocument(d)
    \/ DropChunks \/ DropDocuments

StoreSpec == StoreInit /\ [][StoreNext]_<<docs, chunks>>
=============================================================================

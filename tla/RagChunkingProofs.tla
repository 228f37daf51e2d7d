------------------------- MODULE RagChunkingProofs -------------------------
(***************************************************************************)
(* What handle_chunking stores, for inputs, streams and windows of any     *)
(* size.                                                                   *)
(*                                                                         *)
(* SplitInv says which tokens the streams cut so far cover; WindowInv      *)
(* ties the entries to the windows that the response lists.  Both hold in  *)
(* whatever order results arrive.  CountInv adds that every row received   *)
(* was passed or is still held, which is what makes an ingestion answered  *)
(* without an error complete; it counts the rows of the streams received,  *)
(* whichever they are.  OrderInv holds as long as no result overtook that  *)
(* of an earlier task.                                                     *)
(***************************************************************************)
EXTENDS RagChunking, DequeTheorems

-----------------------------------------------------------------------------
(* FlattenSeq, by induction over the sequence: the smallest length for     *)
(* which a fact fails is no length.                                        *)

\* What the recursive function inside FlattenSeq(s) is, up to n.
IsFlatten(f, s, n) ==
    f = [i \in 1..n |-> IF i = 1 THEN s[i] ELSE f[i-1] \o s[i]]

LEMMA FlattenStep ==
    ASSUME NEW s, NEW n \in Nat, NEW f, IsFlatten(f, s, n)
    PROVE  \E g : IsFlatten(g, s, n + 1)
<1> DEFINE g == [i \in 1..(n + 1) |->
                    IF i <= n THEN f[i] ELSE IF i = 1 THEN s[i] ELSE f[i-1] \o s[i]]
<1>1. \A i \in 1..n : f[i] = IF i = 1 THEN s[i] ELSE f[i-1] \o s[i]
    BY DEF IsFlatten
<1>2. \A i \in 1..(n + 1) : g[i] = IF i = 1 THEN s[i] ELSE g[i-1] \o s[i]
    <2> TAKE i \in 1..(n + 1)
    <2>1. CASE i = 1
        BY <1>1, <2>1
    <2>2. CASE i # 1
        <3>1. i - 1 \in 1..n
            BY <2>2
        <3>2. g[i - 1] = f[i - 1]
            BY <3>1
        <3>3. g[i] = f[i - 1] \o s[i]
            <4>1. CASE i <= n
                <5>1. i \in 1..n
                    BY <4>1
                <5>2. f[i] = f[i - 1] \o s[i]
                    BY <1>1, <2>2, <5>1, Zenon
                <5>. QED
                    BY <4>1, <5>2
            <4>2. CASE ~(i <= n)
                BY <2>2, <4>2
            <4>. QED
                BY <4>1, <4>2
        <3>. QED
            BY <2>2, <3>2, <3>3
    <2>. QED
        BY <2>1, <2>2
<1>3. g = [i \in 1..(n + 1) |-> IF i = 1 THEN s[i] ELSE g[i-1] \o s[i]]
    BY <1>2
<1>4. IsFlatten(g, s, n + 1)
    BY <1>3 DEF IsFlatten
<1>. QED
    BY <1>4

LEMMA FlattenExists ==
    ASSUME NEW s, NEW n \in Nat
    PROVE  \E f : IsFlatten(f, s, n)
<1> DEFINE M == {m \in Nat : ~\E f : IsFlatten(f, s, m)}
<1>1. SUFFICES ASSUME M # {} PROVE FALSE
    OBVIOUS
<1>2. PICK m \in M : \A k \in M : m <= k
    BY <1>1, SmallestElement
<1>3. CASE m = 0
    <2>1. IsFlatten([i \in 1..0 |-> 0], s, 0)
        BY DEF IsFlatten
    <2>. QED
        BY <1>2, <1>3, <2>1
<1>4. CASE m # 0
    <2>1. m - 1 \in Nat /\ m - 1 \notin M
        BY <1>2, <1>4
    <2>2. PICK f : IsFlatten(f, s, m - 1)
        BY <2>1
    <2>3. \E g : IsFlatten(g, s, (m - 1) + 1)
        BY <2>1, <2>2, FlattenStep
    <2>4. (m - 1) + 1 = m
        OBVIOUS
    <2>. QED
        BY <1>2, <2>3, <2>4
<1>. QED
    BY <1>3, <1>4

LEMMA FlattenDef ==
    ASSUME NEW s, Len(s) \in Nat, Len(s) # 0
    PROVE  \E f : IsFlatten(f, s, Len(s)) /\ FlattenSeq(s) = f[Len(s)]
<1> DEFINE F == CHOOSE f : IsFlatten(f, s, Len(s))
<1>1. IsFlatten(F, s, Len(s))
    BY FlattenExists
<1>2. FlattenSeq(s) = F[Len(s)]
    BY DEF FlattenSeq, IsFlatten
<1>. QED
    BY <1>1, <1>2

\* Two of these functions agree as far as the sequences do.
LEMMA FlattenAgree ==
    ASSUME NEW s, NEW t, NEW n \in Nat, NEW f, NEW g,
           IsFlatten(f, s, n), IsFlatten(g, t, n + 1),
           \A i \in 1..n : s[i] = t[i]
    PROVE  \A i \in 1..n : f[i] = g[i]
<1> DEFINE M == {i \in 1..n : f[i] # g[i]}
<1>1. SUFFICES ASSUME M # {} PROVE FALSE
    OBVIOUS
<1>2. PICK i \in M : \A j \in M : i <= j
    <2>1. M \in SUBSET Nat
        OBVIOUS
    <2>. QED
        BY <1>1, <2>1, SmallestElement
<1>3. i \in 1..n /\ i \in 1..(n + 1) /\ s[i] = t[i]
    OBVIOUS
<1>4. f[i] = IF i = 1 THEN s[i] ELSE f[i-1] \o s[i]
    BY <1>3 DEF IsFlatten
<1>5. g[i] = IF i = 1 THEN t[i] ELSE g[i-1] \o t[i]
    BY <1>3 DEF IsFlatten
<1>6. CASE i = 1
    BY <1>3, <1>4, <1>5, <1>6
<1>7. CASE i # 1
    <2>1. i - 1 \in 1..n /\ i - 1 \notin M
        BY <1>2, <1>7
    <2>2. f[i - 1] = g[i - 1]
        BY <2>1
    <2>. QED
        BY <1>3, <1>4, <1>5, <1>7, <2>2
<1>. QED
    BY <1>6, <1>7

\* The equations of FlattenSeq.
LEMMA FlattenEmpty == FlattenSeq(<<>>) = <<>>
    BY DEF FlattenSeq

LEMMA FlattenOne ==
    ASSUME NEW T, NEW e \in Seq(T)
    PROVE  FlattenSeq(<<e>>) = e
<1>1. Len(<<e>>) = 1 /\ <<e>>[1] = e
    OBVIOUS
<1>2. PICK f : IsFlatten(f, <<e>>, 1) /\ FlattenSeq(<<e>>) = f[1]
    <2>1. Len(<<e>>) \in Nat /\ Len(<<e>>) # 0
        BY <1>1
    <2>2. PICK f : IsFlatten(f, <<e>>, Len(<<e>>)) /\ FlattenSeq(<<e>>) = f[Len(<<e>>)]
        BY <2>1, FlattenDef, Zenon
    <2>. QED
        BY <1>1, <2>2
<1>. QED
    BY <1>1, <1>2 DEF IsFlatten

LEMMA FlattenAppendNonEmpty ==
    ASSUME NEW T, NEW s \in Seq(Seq(T)), s # <<>>, NEW e \in Seq(T)
    PROVE  FlattenSeq(Append(s, e)) = FlattenSeq(s) \o e
<1> DEFINE t == Append(s, e)
           n == Len(s)
<1>1. /\ n \in Nat \ {0} /\ Len(t) = n + 1 /\ t[n + 1] = e
      /\ \A i \in 1..n : t[i] = s[i]
    BY AppendProperties, EmptySeq
<1> HIDE DEF t, n
<1>2. PICK f : IsFlatten(f, s, n) /\ FlattenSeq(s) = f[n]
    BY <1>1, FlattenDef DEF n
<1>3. PICK g : IsFlatten(g, t, n + 1) /\ FlattenSeq(t) = g[n + 1]
    BY <1>1, FlattenDef
<1>4. f[n] = g[n]
    <2>1. \A i \in 1..n : f[i] = g[i]
        <3>1. n \in Nat
            BY <1>1
        <3>2. \A i \in 1..n : s[i] = t[i]
            BY <1>1
        <3>. QED
            BY <1>2, <1>3, <3>1, <3>2, FlattenAgree
    <2>. QED
        BY <1>1, <2>1
<1>5. g[n + 1] = g[n] \o e
    <2>1. n + 1 \in 1..(n + 1) /\ n + 1 # 1 /\ (n + 1) - 1 = n
        BY <1>1
    <2>2. g[n + 1] = g[(n + 1) - 1] \o t[n + 1]
        BY <1>3, <2>1 DEF IsFlatten
    <2>. QED
        BY <1>1, <2>1, <2>2
<1>. QED
    BY <1>2, <1>3, <1>4, <1>5 DEF t

LEMMA FlattenAppend ==
    ASSUME NEW T, NEW s \in Seq(Seq(T)), NEW e \in Seq(T)
    PROVE  FlattenSeq(Append(s, e)) = FlattenSeq(s) \o e
<1>1. CASE s = <<>>
    <2>1. Append(s, e) = <<e>>
        BY <1>1
    <2>2. <<>> \o e = e
        BY ConcatEmptySeq
    <2>. QED
        BY <1>1, <2>1, <2>2, FlattenOne, FlattenEmpty
<1>2. CASE s # <<>>
    BY <1>2, FlattenAppendNonEmpty
<1>. QED
    BY <1>1, <1>2

\* A sequence is empty, or something appended to its beginning.
LEMMA FrontAndLast ==
    ASSUME NEW S, NEW s \in Seq(S), NEW n \in 1..Len(s)
    PROVE  /\ SubSeq(s, 1, n - 1) \in Seq(S) /\ s[n] \in S
           /\ SubSeq(s, 1, n) = Append(SubSeq(s, 1, n - 1), s[n])
<1>1. s[n] \in S /\ \A i \in 1..Len(s) : s[i] \in S
    BY ElementOfSeq
<1>2. SubSeq(s, 1, n - 1) \in Seq(S)
    BY <1>1, SubSeqProperties
<1>3. SubSeq(s, 1, n) = SubSeq(s, 1, n - 1) \o <<s[n]>>
    <2>1. 1 \in 1..Len(s) /\ n \in 1..Len(s)
        BY LenProperties
    <2>. QED
        BY <2>1, SubSeqRecursiveSecond
<1>. QED
    BY <1>1, <1>2, <1>3, AppendIsConcat

LEMMA FlattenType ==
    ASSUME NEW T, NEW s \in Seq(Seq(T))
    PROVE  FlattenSeq(s) \in Seq(T)
<1> DEFINE M == {n \in 0..Len(s) : FlattenSeq(SubSeq(s, 1, n)) \notin Seq(T)}
<1>1. M = {}
    <2>1. SUFFICES ASSUME M # {} PROVE FALSE
        OBVIOUS
    <2>2. PICK n \in M : \A k \in M : n <= k
        <3>1. M \in SUBSET Nat
            OBVIOUS
        <3>. QED
            BY <2>1, <3>1, SmallestElement
    <2>3. CASE n = 0
        <3>1. SubSeq(s, 1, 0) = <<>>
            BY SubSeqEmpty
        <3>. QED
            BY <2>2, <2>3, <3>1, FlattenEmpty, EmptySeq
    <2>4. CASE n # 0
        <3>1. n \in 1..Len(s) /\ n - 1 \in 0..Len(s) /\ n - 1 \notin M
            BY <2>2, <2>4
        <3>2. FlattenSeq(SubSeq(s, 1, n - 1)) \in Seq(T)
            BY <3>1
        <3>3. FlattenSeq(SubSeq(s, 1, n)) = FlattenSeq(SubSeq(s, 1, n - 1)) \o s[n]
            <4>1. /\ SubSeq(s, 1, n - 1) \in Seq(Seq(T)) /\ s[n] \in Seq(T)
                  /\ SubSeq(s, 1, n) = Append(SubSeq(s, 1, n - 1), s[n])
                BY <3>1, FrontAndLast
            <4>. QED
                BY <4>1, FlattenAppend, Zenon
        <3>4. s[n] \in Seq(T)
            BY <3>1, FrontAndLast
        <3>. QED
            BY <2>2, <3>2, <3>3, <3>4, ConcatProperties
    <2>. QED
        BY <2>3, <2>4
<1>2. Len(s) \in 0..Len(s) /\ SubSeq(s, 1, Len(s)) = s
    BY SubSeqFull, LenProperties
<1>. QED
    BY <1>1, <1>2

\* Concatenation is associative, for sequences of sequences too.
LEMMA Associative ==
    ASSUME NEW S, NEW a \in Seq(S), NEW b \in Seq(S), NEW c \in Seq(S)
    PROVE  (a \o b) \o c = a \o (b \o c)
    OBVIOUS

LEMMA FlattenConcatStep ==
    ASSUME NEW T, NEW s \in Seq(Seq(T)), NEW u \in Seq(Seq(T)), NEW e \in Seq(T),
           FlattenSeq(s \o u) = FlattenSeq(s) \o FlattenSeq(u)
    PROVE  FlattenSeq(s \o Append(u, e)) = FlattenSeq(s) \o FlattenSeq(Append(u, e))
<1>1. s \o u \in Seq(Seq(T)) /\ s \o Append(u, e) = Append(s \o u, e)
    OBVIOUS
<1>2. FlattenSeq(s \o Append(u, e)) = FlattenSeq(s \o u) \o e
    BY <1>1, FlattenAppend
<1>3. FlattenSeq(Append(u, e)) = FlattenSeq(u) \o e
    BY FlattenAppend
<1> DEFINE a == FlattenSeq(s)
           b == FlattenSeq(u)
<1>4. a \in Seq(T) /\ b \in Seq(T)
    BY FlattenType
<1>5. (a \o b) \o e = a \o (b \o e)
    <2> HIDE DEF a, b
    <2>. QED
        BY <1>4, Associative
<1>. QED
    BY <1>2, <1>3, <1>5

LEMMA FlattenConcat ==
    ASSUME NEW T, NEW s \in Seq(Seq(T)), NEW t \in Seq(Seq(T))
    PROVE  FlattenSeq(s \o t) = FlattenSeq(s) \o FlattenSeq(t)
<1> DEFINE U(n) == SubSeq(t, 1, n)
           M == {n \in 0..Len(t) : FlattenSeq(s \o U(n)) # FlattenSeq(s) \o FlattenSeq(U(n))}
<1>0. FlattenSeq(s) \in Seq(T)
    BY FlattenType
<1>1. M = {}
    <2>1. SUFFICES ASSUME M # {} PROVE FALSE
        OBVIOUS
    <2>2. PICK n \in M : \A k \in M : n <= k
        <3>1. M \in SUBSET Nat
            OBVIOUS
        <3>. QED
            BY <2>1, <3>1, SmallestElement
    <2>3. CASE n = 0
        <3>1. U(0) = <<>>
            BY SubSeqEmpty
        <3>2. s \o <<>> = s /\ FlattenSeq(s) \o <<>> = FlattenSeq(s)
            BY <1>0, ConcatEmptySeq
        <3>. QED
            BY <2>2, <2>3, <3>1, <3>2, FlattenEmpty
    <2>4. CASE n # 0
        <3>1. n \in 1..Len(t) /\ n - 1 \in 0..Len(t) /\ n - 1 \notin M
            BY <2>2, <2>4
        <3>2. /\ U(n - 1) \in Seq(Seq(T)) /\ t[n] \in Seq(T)
              /\ U(n) = Append(U(n - 1), t[n])
            BY <3>1, FrontAndLast
        <3>3. FlattenSeq(s \o U(n - 1)) = FlattenSeq(s) \o FlattenSeq(U(n - 1))
            BY <3>1
        <3>4. FlattenSeq(s \o U(n)) = FlattenSeq(s) \o FlattenSeq(U(n))
            BY <3>2, <3>3, FlattenConcatStep, Zenon
        <3>. QED
            BY <2>2, <3>4
    <2>. QED
        BY <2>3, <2>4
<1>2. Len(t) \in 0..Len(t) /\ U(Len(t)) = t
    BY SubSeqFull, LenProperties
<1>. QED
    BY <1>1, <1>2
-----------------------------------------------------------------------------
(* The invariant.                                                          *)

Tok == Nat \X Nat
Stream == {s \in Seq(Tok) : Len(s) \in 1..IDEAL}
PromptsOf(sizes, n) == [p \in 1..n |-> Span(p, 0, sizes[p])]

\* The streams cover the prompts up to n_split, and the end of the next one that is
\* behind last_chunk_pos.
SplitInv ==
    /\ pc \in {"split", "post", "receive", "store", "done"}
    /\ input \in Inputs
    /\ n_split \in 0..Len(input) /\ last_chunk_pos \in Nat
    /\ current_chunks \in Seq(Stream) /\ embedding_chunks \in Seq(Stream)
    /\ FlattenSeq(embedding_chunks) = FlattenSeq(PromptsOf(input, n_split))
    /\ last_chunk_pos = 0 => current_chunks = <<>>
    /\ last_chunk_pos > 0 =>
          /\ n_split < Len(input) /\ input[NextPrompt] > IDEAL
          /\ last_chunk_pos <= input[NextPrompt]
          /\ FlattenSeq(Reverse(current_chunks)) =
                Span(NextPrompt, last_chunk_pos, input[NextPrompt])
    /\ n_split = 0 => embedding_chunks = <<>>
    /\ n_split = 1 /\ input[1] <= IDEAL => Len(embedding_chunks) = 1
    /\ pc # "split" => n_split = Len(input)

\* The window has moved on from the last entry, or the last entry is the end of a
\* prompt embedded by one task.
Moved == responses[Len(responses)] = <<position - STEP, CHUNK>>
Ended == /\ entries # <<>>
         /\ responses[Len(responses)] = <<position, Len(all_embedding)>>
         /\ pending = {} /\ pc \in {"receive", "done"}

\* An entry has the text of the window that the response lists; windows follow each
\* other by STEP, and all but the last are full.
EntriesOK ==
    /\ entries \in Seq([vector : Seq(Tok), contents : Seq(Tok)])
    /\ responses \in Seq(Nat \X (Nat \ {0}))
    /\ Len(responses) = Len(entries)
    /\ \A i \in 1..Len(entries) :
          /\ responses[i][1] + responses[i][2] <= input[1]
          /\ entries[i].contents = Span(1, responses[i][1], responses[i][1] + responses[i][2])
          /\ i > 1 => responses[i][1] = responses[i - 1][1] + STEP /\ responses[i - 1][2] = CHUNK

WindowInv ==
    /\ pending \subseteq DOMAIN embedding_chunks
    /\ all_embedding \in Seq(Tok)
    /\ position \in 0..input[1] /\ all_prompt = Span(1, position, input[1])
    /\ EntriesOK
    /\ entries = <<>> => position = 0
    /\ entries # <<>> => Moved \/ Ended
    /\ pc \in {"split", "post"} =>
          pending = {} /\ all_embedding = <<>> /\ entries = <<>> /\ error = FALSE /\ closed = FALSE
    /\ pc = "store" =>
          /\ Len(all_embedding) <= Len(all_prompt) /\ chunk_sz(all_embedding) > 0
          /\ error = FALSE
          /\ Len(embedding_chunks) = 1 => pending = {}

\* The streams of c, those that are not in S left empty.
Those(c, S) == [i \in DOMAIN c |-> IF i \in S THEN c[i] ELSE <<>>]
Got == FlattenSeq(Those(embedding_chunks, DOMAIN embedding_chunks \ pending))

\* The handler has taken all results there were, without an error.
Listening == (pc \in {"receive", "store"} \/ (pc = "done" /\ closed = FALSE)) /\ error = FALSE

\* Rows received are passed or in all_embedding; no entry is left to be stored when
\* the handler waits.
CountInv ==
    /\ {error, closed} \subseteq BOOLEAN
    /\ Listening =>
          /\ position + Len(all_embedding) = Len(Got)
          /\ pc # "store" /\ Len(all_embedding) <= Len(all_prompt) =>
                chunk_sz(all_embedding) = 0 \/ Ended
          /\ pc = "done" => pending = {}

\* Results arrived in order, k of them, so that the rows of the first prompt are those
\* of the tokens from position on.
InOrder(k) ==
    /\ pending = (k + 1)..Len(embedding_chunks)
    /\ position + Len(all_embedding) = Len(FlattenSeq(SubSeq(embedding_chunks, 1, k)))
    /\ \A i \in 1..Len(all_embedding) :
          position + i <= input[1] => all_embedding[i] = <<1, position + i - 1>>

\* So it is until a result overtakes that of an earlier task.
OrderInv ==
    /\ pc \in {"receive", "store"} /\ error = FALSE =>
          \E k \in 0..Len(embedding_chunks) : InOrder(k)
    /\ VectorOfContents

-----------------------------------------------------------------------------
(* Windows, spans and streams.                                             *)

LEMMA Sizes ==
    /\ CHUNK \in Nat /\ IDEAL \in Nat
    /\ OVERLAP \in Nat /\ OVERLAP > 0 /\ STEP \in Nat /\ STEP > OVERLAP - 1
    /\ STEP < CHUNK /\ CHUNK = STEP + OVERLAP /\ CHUNK <= IDEAL
<1>1. /\ CHUNK \in Nat /\ IDEAL \in Nat
      /\ OVERLAP > 0 /\ CHUNK <= IDEAL
    BY ChunkingAssumption
<1>2. OVERLAP \in Nat /\ 3 * OVERLAP <= CHUNK
    BY <1>1 DEF OVERLAP
<1>. QED
    BY <1>1, <1>2 DEF STEP

LEMMA FunctionIsSeq ==
    ASSUME NEW S, NEW n \in Nat, NEW f \in [1..n -> S]
    PROVE  f \in Seq(S) /\ Len(f) = n
    OBVIOUS

LEMMA SpanType ==
    ASSUME NEW p \in Nat, NEW a \in Nat, NEW b \in Nat, a <= b
    PROVE  /\ Span(p, a, b) \in Seq(Tok)
           /\ Len(Span(p, a, b)) = b - a
           /\ \A i \in 1..(b - a) : Span(p, a, b)[i] = <<p, a + i - 1>>
<1>1. \A i \in 1..(b - a) : <<p, a + i - 1>> \in Tok
    BY DEF Tok
<1> DEFINE n == b - a
           f == [i \in 1..n |-> <<p, a + i - 1>>]
<1>2. n \in Nat /\ f \in [1..n -> Tok]
    <2>1. n \in Nat
        OBVIOUS
    <2>2. \A i \in 1..n : <<p, a + i - 1>> \in Tok
        BY <1>1
    <2> HIDE DEF n
    <2>. QED
        BY <2>1, <2>2, Zenon
<1>3. f \in Seq(Tok) /\ Len(f) = n
    <2> HIDE DEF n, f
    <2>. QED
        BY <1>2, FunctionIsSeq
<1>4. Span(p, a, b) = f
    BY DEF Span
<1>5. \A i \in 1..n : f[i] = <<p, a + i - 1>>
    OBVIOUS
<1>. QED
    BY <1>3, <1>4, <1>5, Zenon

LEMMA SpanConcat ==
    ASSUME NEW p \in Nat, NEW a \in Nat, NEW b \in Nat, NEW c \in Nat, a <= b, b <= c
    PROVE  Span(p, a, b) \o Span(p, b, c) = Span(p, a, c)
<1> DEFINE x == Span(p, a, b)
           y == Span(p, b, c)
           z == Span(p, a, c)
<1>1. /\ x \in Seq(Tok) /\ y \in Seq(Tok) /\ z \in Seq(Tok)
      /\ Len(x) = b - a /\ Len(y) = c - b /\ Len(z) = c - a
      /\ \A i \in 1..(b - a) : x[i] = <<p, a + i - 1>>
      /\ \A i \in 1..(c - b) : y[i] = <<p, b + i - 1>>
      /\ \A i \in 1..(c - a) : z[i] = <<p, a + i - 1>>
    <2>1. a <= c
        OBVIOUS
    <2>2. x \in Seq(Tok) /\ Len(x) = b - a /\ \A i \in 1..(b - a) : x[i] = <<p, a + i - 1>>
        BY SpanType, Zenon
    <2>3. y \in Seq(Tok) /\ Len(y) = c - b /\ \A i \in 1..(c - b) : y[i] = <<p, b + i - 1>>
        BY SpanType, Zenon
    <2>4. z \in Seq(Tok) /\ Len(z) = c - a /\ \A i \in 1..(c - a) : z[i] = <<p, a + i - 1>>
        BY <2>1, SpanType, Zenon
    <2> HIDE DEF x, y, z
    <2>. QED
        BY <2>2, <2>3, <2>4, Zenon
<1> HIDE DEF x, y, z
<1>2. /\ x \o y \in Seq(Tok) /\ Len(x \o y) = c - a
      /\ \A i \in 1..(c - a) : (x \o y)[i] = IF i <= b - a THEN x[i] ELSE y[i - (b - a)]
    <2>1. /\ x \o y \in Seq(Tok) /\ Len(x \o y) = Len(x) + Len(y)
          /\ \A i \in 1..(Len(x) + Len(y)) :
                (x \o y)[i] = IF i <= Len(x) THEN x[i] ELSE y[i - Len(x)]
        <3>1. x \in Seq(Tok) /\ y \in Seq(Tok)
            BY <1>1
        <3>. QED
            BY <3>1, ConcatProperties, Zenon
    <2>2. Len(x) = b - a /\ Len(x) + Len(y) = c - a
        BY <1>1
    <2>. QED
        BY <2>1, <2>2, Zenon
<1>3. \A i \in 1..(c - a) : (x \o y)[i] = z[i]
    <2> TAKE i \in 1..(c - a)
    <2>1. CASE i <= b - a
        <3>1. i \in 1..(b - a)
            BY <2>1
        <3>2. (x \o y)[i] = x[i]
            BY <1>2, <2>1
        <3>. QED
            BY <1>1, <3>1, <3>2, Zenon
    <2>2. CASE ~(i <= b - a)
        <3>1. i - (b - a) \in 1..(c - b) /\ b + (i - (b - a)) - 1 = a + i - 1
            BY <2>2
        <3>2. y[i - (b - a)] = <<p, b + (i - (b - a)) - 1>>
            BY <1>1, <3>1
        <3>3. (x \o y)[i] = y[i - (b - a)] /\ z[i] = <<p, a + i - 1>>
            BY <1>1, <1>2, <2>2
        <3>. QED
            BY <3>1, <3>2, <3>3
    <2>. QED
        BY <2>1, <2>2
<1>4. x \o y = z
    BY <1>1, <1>2, <1>3, SeqEqual
<1>. QED
    BY <1>4 DEF x, y, z

\* A part of a span is a span.
IsPart(p, a, b, c, d, m, n) ==
    /\ {p, a, b, c, d, m, n} \subseteq Nat /\ a <= c /\ c <= d /\ d <= b
    /\ m = c - a + 1 /\ n = d - a

LEMMA SpanPart ==
    ASSUME NEW p, NEW a, NEW b, NEW c, NEW d, NEW m, NEW n, IsPart(p, a, b, c, d, m, n)
    PROVE  SubSeq(Span(p, a, b), m, n) = Span(p, c, d)
<1> DEFINE x == Span(p, a, b)
           y == Span(p, c, d)
           z == SubSeq(x, m, n)
<1>10. /\ p \in Nat /\ a \in Nat /\ b \in Nat /\ c \in Nat /\ d \in Nat /\ m \in Nat /\ n \in Nat
       /\ a <= c /\ c <= d /\ d <= b /\ m = c - a + 1 /\ n = d - a
    BY DEF IsPart
<1>0. a <= b /\ n - m + 1 = d - c /\ n <= b - a /\ (m <= n <=> d - c > 0) /\ d - c \in Nat
    BY <1>10
<1>1. /\ x \in Seq(Tok) /\ Len(x) = b - a
      /\ \A i \in 1..(b - a) : x[i] = <<p, a + i - 1>>
    <2>1. p \in Nat /\ a \in Nat /\ b \in Nat /\ a <= b
        BY <1>10, <1>0
    <2>. QED
        BY <2>1, SpanType, Zenon
<1>2. /\ y \in Seq(Tok) /\ Len(y) = d - c
      /\ \A i \in 1..(d - c) : y[i] = <<p, c + i - 1>>
    <2>1. p \in Nat /\ c \in Nat /\ d \in Nat /\ c <= d
        BY <1>10
    <2>. QED
        BY <2>1, SpanType, Zenon
<1> HIDE DEF x, y
<1>3. \A i \in m..n : x[i] \in Tok
    <2> TAKE i \in m..n
    <2>1. i \in 1..Len(x)
        BY <1>10, <1>0, <1>1
    <2>. QED
        BY <1>1, <2>1, ElementOfSeq
<1>4. /\ z \in Seq(Tok) /\ Len(z) = d - c
      /\ \A i \in 1..(d - c) : z[i] = x[m + i - 1]
    <2>1. m \in Int /\ n \in Int
        BY <1>10
    <2>2. /\ z \in Seq(Tok) /\ Len(z) = IF m <= n THEN n - m + 1 ELSE 0
          /\ \A i \in 1..(n - m + 1) : z[i] = x[m + i - 1]
        BY <1>3, <2>1, SubSeqProperties
    <2> HIDE DEF z
    <2>. QED
        BY <1>0, <2>2
<1> HIDE DEF z
<1>5. \A i \in 1..(d - c) : z[i] = y[i]
    <2> TAKE i \in 1..(d - c)
    <2>1. m + i - 1 \in 1..(b - a) /\ a + (m + i - 1) - 1 = c + i - 1
        BY <1>10
    <2>2. x[m + i - 1] = <<p, a + (m + i - 1) - 1>>
        BY <1>1, <2>1, Zenon
    <2>. QED
        BY <1>2, <1>4, <2>1, <2>2, Zenon
<1>6. z = y
    BY <1>2, <1>4, <1>5, SeqEqual
<1>. QED
    BY <1>6 DEF x, y, z

\* Streams are texts.
LEMMA StreamsType ==
    ASSUME NEW c \in Seq(Stream)
    PROVE  /\ c \in Seq(Seq(Tok)) /\ FlattenSeq(c) \in Seq(Tok) /\ Len(c) \in Nat
           /\ DOMAIN c = 1..Len(c)
           /\ \A i \in 1..Len(c) : c[i] \in Seq(Tok) /\ Len(c[i]) \in 1..IDEAL
<1>1. Stream \subseteq Seq(Tok)
    BY DEF Stream
<1>2. c \in Seq(Seq(Tok))
    BY <1>1, SeqMonotonic
<1>3. \A i \in 1..Len(c) : c[i] \in Stream
    BY ElementOfSeq
<1>. QED
    BY <1>2, <1>3, FlattenType, LenProperties DEF Stream

\* The last stream comes first.
LEMMA ReverseAppend ==
    ASSUME NEW S, NEW s \in Seq(S), NEW e \in S
    PROVE  /\ Reverse(s) \in Seq(S) /\ Reverse(Append(s, e)) \in Seq(S)
           /\ Reverse(Append(s, e)) = <<e>> \o Reverse(s)
<1> DEFINE n == Len(s)
           a == Append(s, e)
           r == Reverse(s)
           x == Reverse(a)
           y == <<e>> \o r
<1>1. /\ n \in Nat /\ a \in Seq(S) /\ Len(a) = n + 1 /\ a[n + 1] = e
      /\ \A i \in 1..n : a[i] = s[i] /\ s[i] \in S
    BY AppendProperties, ElementOfSeq, LenProperties
<1>2. r \in Seq(S) /\ Len(r) = n /\ \A i \in 1..n : r[i] = s[n - i + 1]
    <2>1. r = [i \in 1..n |-> s[(n - i) + 1]]
        BY DEF Reverse
    <2>2. \A i \in 1..n : s[(n - i) + 1] \in S
        BY <1>1
    <2> HIDE DEF n, r
    <2>. QED
        BY <1>1, <2>1, <2>2
<1>3. x \in Seq(S) /\ Len(x) = n + 1 /\ \A i \in 1..(n + 1) : x[i] = a[(n + 1) - i + 1]
    <2>1. x = [i \in 1..Len(a) |-> a[(Len(a) - i) + 1]]
        BY DEF Reverse
    <2>2. \A i \in 1..(n + 1) : a[((n + 1) - i) + 1] \in S
        BY <1>1, ElementOfSeq
    <2> HIDE DEF n, a, x
    <2>. QED
        BY <1>1, <2>1, <2>2
<1> HIDE DEF n, a, r, x
<1>4. y \in Seq(S) /\ Len(y) = n + 1 /\ y[1] = e /\ \A i \in 2..(n + 1) : y[i] = r[i - 1]
    BY <1>1, <1>2
<1> HIDE DEF y
<1>5. \A i \in 1..(n + 1) : x[i] = y[i]
    <2> TAKE i \in 1..(n + 1)
    <2>1. CASE i = 1
        BY <1>1, <1>3, <1>4, <2>1
    <2>2. CASE i # 1
        <3>1. i - 1 \in 1..n /\ (n + 1) - i + 1 \in 1..n /\ n - (i - 1) + 1 = (n + 1) - i + 1
            BY <1>1, <2>2
        <3>2. y[i] = s[(n + 1) - i + 1]
            BY <1>2, <1>4, <2>2, <3>1
        <3>3. x[i] = s[(n + 1) - i + 1]
            BY <1>1, <1>3, <3>1
        <3>. QED
            BY <3>2, <3>3
    <2>. QED
        BY <2>1, <2>2
<1>6. x = y
    BY <1>3, <1>4, <1>5, SeqEqual
<1>. QED
    BY <1>2, <1>3, <1>6 DEF a, r, x, y

LEMMA FlattenReverse ==
    ASSUME NEW T, NEW s \in Seq(Seq(T)), NEW e \in Seq(T)
    PROVE  FlattenSeq(Reverse(Append(s, e))) = e \o FlattenSeq(Reverse(s))
<1>1. /\ Reverse(s) \in Seq(Seq(T))
      /\ Reverse(Append(s, e)) = <<e>> \o Reverse(s)
    BY ReverseAppend
<1>2. <<e>> \in Seq(Seq(T))
    OBVIOUS
<1>3. FlattenSeq(<<e>> \o Reverse(s)) = FlattenSeq(<<e>>) \o FlattenSeq(Reverse(s))
    BY <1>1, <1>2, FlattenConcat
<1>. QED
    BY <1>1, <1>3, FlattenOne

\* The prompts, one more at a time.
LEMMA PromptsStep ==
    ASSUME NEW sizes \in Seq(Nat \ {0}), NEW n \in 0..(Len(sizes) - 1)
    PROVE  /\ PromptsOf(sizes, n) \in Seq(Seq(Tok))
           /\ sizes[n + 1] \in Nat \ {0}
           /\ Span(n + 1, 0, sizes[n + 1]) \in Seq(Tok)
           /\ FlattenSeq(PromptsOf(sizes, n + 1)) =
                 FlattenSeq(PromptsOf(sizes, n)) \o Span(n + 1, 0, sizes[n + 1])
<1>1. \A p \in 1..(n + 1) : p \in Nat /\ sizes[p] \in Nat \ {0}
    BY ElementOfSeq, LenProperties
<1>2. \A p \in 1..(n + 1) : Span(p, 0, sizes[p]) \in Seq(Tok)
    <2> TAKE p \in 1..(n + 1)
    <2>1. p \in Nat /\ sizes[p] \in Nat /\ 0 \in Nat /\ 0 <= sizes[p]
        BY <1>1
    <2>. QED
        BY <2>1, SpanType, Zenon
<1>3. n \in Nat /\ n + 1 \in 1..(n + 1)
    BY LenProperties
<1> DEFINE a == PromptsOf(sizes, n)
           e == Span(n + 1, 0, sizes[n + 1])
           b == PromptsOf(sizes, n + 1)
<1>4. a \in Seq(Seq(Tok)) /\ Len(a) = n /\ \A p \in 1..n : a[p] = Span(p, 0, sizes[p])
    BY <1>2, <1>3 DEF PromptsOf
<1>5. /\ b \in Seq(Seq(Tok)) /\ Len(b) = n + 1
      /\ \A p \in 1..(n + 1) : b[p] = Span(p, 0, sizes[p])
    BY <1>2, <1>3 DEF PromptsOf
<1>6. e \in Seq(Tok) /\ e = b[n + 1]
    BY <1>2, <1>3, <1>5
<1>7. b = Append(a, e)
    <2> HIDE DEF a, b, e
    <2>1. /\ Append(a, e) \in Seq(Seq(Tok)) /\ Len(Append(a, e)) = n + 1
          /\ Append(a, e)[n + 1] = e /\ \A p \in 1..n : Append(a, e)[p] = a[p]
        BY <1>4, <1>6, AppendProperties
    <2>2. \A p \in 1..(n + 1) : Append(a, e)[p] = b[p]
        BY <1>3, <1>4, <1>5, <1>6, <2>1
    <2>. QED
        BY <1>5, <2>1, <2>2, SeqEqual
<1>8. FlattenSeq(Append(a, e)) = FlattenSeq(a) \o e
    BY <1>4, <1>6, FlattenAppend
<1>. QED
    BY <1>1, <1>3, <1>4, <1>6, <1>7, <1>8

-----------------------------------------------------------------------------
(* Cutting the prompts.                                                    *)

LEMMA InputFacts ==
    ASSUME input \in Inputs
    PROVE  /\ input \in Seq(Nat \ {0}) /\ Len(input) \in Nat \ {0} /\ DOMAIN input = 1..Len(input)
           /\ \A p \in 1..Len(input) : input[p] \in Nat \ {0}
<1>1. input \in Seq(Nat \ {0}) /\ input # <<>>
    BY ChunkingAssumption
<1>. QED
    BY <1>1, EmptySeq, LenProperties, ElementOfSeq

LEMMA SplitInit ==
    ASSUME Init PROVE SplitInv
<1>1. input \in Inputs /\ Len(input) \in Nat
    BY InputFacts DEF Init
<1>2. <<>> \in Seq(Stream)
    BY EmptySeq
<1>3. PromptsOf(input, 0) = <<>>
    BY DEF PromptsOf
<1>. QED
    BY <1>1, <1>2, <1>3 DEF Init, SplitInv

LEMMA SplitKept ==
    ASSUME SplitInv, UNCHANGED <<input, splitVars>>,
           pc' \in {"split", "post", "receive", "store", "done"},
           pc' # "split" => n_split = Len(input)
    PROVE  SplitInv'
    BY DEF SplitInv, splitVars, NextPrompt

LEMMA SplitShort ==
    ASSUME SplitInv, ShortPrompt PROVE SplitInv'
<1> DEFINE e == Span(n_split + 1, 0, input[n_split + 1])
           c == embedding_chunks
<1>0. /\ input \in Inputs /\ n_split \in 0..Len(input) /\ n_split < Len(input)
      /\ input[n_split + 1] <= IDEAL /\ c \in Seq(Stream)
      /\ FlattenSeq(c) = FlattenSeq(PromptsOf(input, n_split))
      /\ embedding_chunks' = Append(c, e) /\ n_split' = n_split + 1
      /\ UNCHANGED <<input, pc, last_chunk_pos, current_chunks>>
      /\ last_chunk_pos = 0 /\ current_chunks = <<>> /\ pc = "split"
      /\ n_split = 0 => c = <<>>
    BY DEF SplitInv, ShortPrompt, Splitting, NextPrompt, Prompt
<1>1. input \in Seq(Nat \ {0}) /\ Len(input) \in Nat /\ n_split \in 0..(Len(input) - 1)
    BY <1>0, InputFacts
<1>2. /\ input[n_split + 1] \in Nat \ {0} /\ e \in Seq(Tok)
      /\ FlattenSeq(PromptsOf(input, n_split + 1)) = FlattenSeq(PromptsOf(input, n_split)) \o e
    BY <1>1, PromptsStep
<1>3. Len(e) = input[n_split + 1]
    <2>1. n_split + 1 \in Nat /\ 0 \in Nat /\ input[n_split + 1] \in Nat /\ 0 <= input[n_split + 1]
        BY <1>1, <1>2
    <2>2. Len(e) = input[n_split + 1] - 0
        BY <2>1, SpanType
    <2>. QED
        BY <2>1, <2>2
<1>4. e \in Stream
    BY <1>0, <1>2, <1>3, Sizes DEF Stream
<1> HIDE DEF e
<1>5. FlattenSeq(embedding_chunks') = FlattenSeq(PromptsOf(input', n_split'))
    <2>1. c \in Seq(Seq(Tok))
        BY <1>0, StreamsType
    <2>2. FlattenSeq(Append(c, e)) = FlattenSeq(c) \o e
        BY <1>2, <2>1, FlattenAppend
    <2>. QED
        BY <1>0, <1>2, <2>2
<1>6. embedding_chunks' \in Seq(Stream) /\ Len(embedding_chunks') = Len(c) + 1
    BY <1>0, <1>4, AppendProperties
<1>7. n_split' \in 1..Len(input') /\ n_split' # 0 /\ (n_split' = 1 => Len(embedding_chunks') = 1)
    BY <1>0, <1>1, <1>6
<1>. QED
    BY <1>0, <1>5, <1>6, <1>7 DEF SplitInv

LEMMA SplitTail ==
    ASSUME SplitInv, CutTail PROVE SplitInv'
<1> DEFINE q == n_split + 1
           n == input[q]
           r == (n - CHUNK) % OVERLAP
           e == Span(q, n - r, n)
<1>0. /\ input \in Inputs /\ n_split \in 0..Len(input) /\ n_split < Len(input) /\ n > IDEAL
      /\ current_chunks' = (IF r = 0 THEN <<>> ELSE <<e>>)
      /\ last_chunk_pos' = n - r /\ UNCHANGED <<input, pc, n_split, embedding_chunks>>
      /\ pc = "split"
    BY DEF SplitInv, CutTail, Splitting, NextPrompt
<1>1. Len(input) \in Nat /\ q \in Nat /\ n \in Nat
    BY <1>0, InputFacts
<1>2. r \in Nat /\ r < OVERLAP
    <2>0. n \in Nat /\ n > IDEAL
        BY <1>0, <1>1
    <2> HIDE DEF n, e
    <2>1. n - CHUNK \in Nat /\ OVERLAP \in Nat \ {0}
        <3> HIDE DEF r
        <3>. QED
            BY <2>0, Sizes
    <2>. QED
        BY <2>1
<1> HIDE DEF n, r, q
<1>3. n - r \in Nat /\ n - r > 0 /\ n - r <= n
    BY <1>0, <1>1, <1>2, Sizes
<1>4. e \in Seq(Tok) /\ Len(e) = n - (n - r)
    BY <1>1, <1>3, SpanType
<1>5. n - (n - r) = r
    BY <1>1, <1>2
<1> HIDE DEF e
<1>6. CASE r = 0
    <2>1. current_chunks' = <<>> /\ e = <<>>
        BY <1>0, <1>4, <1>5, <1>6, EmptySeq
    <2>2. Reverse(<<>>) = <<>>
        BY DEF Reverse
    <2>3. FlattenSeq(Reverse(current_chunks')) = e
        BY <2>1, <2>2, FlattenEmpty
    <2>4. current_chunks' \in Seq(Stream)
        BY <2>1, EmptySeq
    <2>. QED
        BY <1>0, <1>1, <1>3, <2>3, <2>4 DEF SplitInv, NextPrompt, n, e, q
<1>7. CASE r # 0
    <2>1. e \in Stream
        BY <1>2, <1>4, <1>5, <1>7, Sizes DEF Stream
    <2>2. current_chunks' = <<e>> /\ current_chunks' \in Seq(Stream)
        BY <1>0, <1>7, <2>1
    <2>3. Reverse(<<e>>) = <<e>>
        BY DEF Reverse
    <2>4. FlattenSeq(Reverse(current_chunks')) = e
        BY <1>4, <2>2, <2>3, FlattenOne
    <2>. QED
        BY <1>0, <1>1, <1>3, <2>2, <2>4 DEF SplitInv, NextPrompt, n, e, q
<1>. QED
    BY <1>6, <1>7

LEMMA SplitStep ==
    ASSUME SplitInv, CutStep PROVE SplitInv'
<1> DEFINE q == n_split + 1
           n == input[q]
           l == last_chunk_pos
           e == Span(q, l - STEP, l)
<1>0. /\ input \in Inputs /\ n_split \in 0..Len(input) /\ n_split < Len(input) /\ n > IDEAL
      /\ l \in Nat /\ l > IDEAL /\ l <= n
      /\ current_chunks \in Seq(Stream)
      /\ FlattenSeq(Reverse(current_chunks)) = Span(q, l, n)
      /\ current_chunks' = Append(current_chunks, e)
      /\ last_chunk_pos' = l - STEP /\ UNCHANGED <<input, pc, n_split, embedding_chunks>>
      /\ pc = "split"
    BY Sizes DEF SplitInv, CutStep, Splitting, NextPrompt
<1>1. Len(input) \in Nat /\ q \in Nat /\ n \in Nat
    BY <1>0, InputFacts
<1> HIDE DEF q, n, l
<1>2. l - STEP \in Nat /\ l - STEP > 0 /\ l - STEP <= l /\ l - (l - STEP) = STEP
    BY <1>0, Sizes
<1>3. e \in Seq(Tok) /\ Len(e) = l - (l - STEP)
    BY <1>0, <1>1, <1>2, SpanType
<1>4. e \in Stream
    BY <1>2, <1>3, Sizes DEF Stream
<1>5. e \o Span(q, l, n) = Span(q, l - STEP, n)
    <2>1. q \in Nat /\ l - STEP \in Nat /\ l \in Nat /\ n \in Nat /\ l - STEP <= l /\ l <= n
        BY <1>0, <1>1, <1>2
    <2>. QED
        BY <2>1, SpanConcat, Zenon
<1> HIDE DEF e
<1>6. FlattenSeq(Reverse(current_chunks')) = e \o FlattenSeq(Reverse(current_chunks))
    <2>1. current_chunks \in Seq(Seq(Tok))
        BY <1>0, StreamsType
    <2>. QED
        BY <1>0, <1>3, <2>1, FlattenReverse
<1>7. current_chunks' \in Seq(Stream)
    BY <1>0, <1>4, AppendProperties
<1>8. l - STEP <= n
    BY <1>0, <1>1, <1>2
<1>. QED
    BY <1>0, <1>2, <1>5, <1>6, <1>7, <1>8 DEF SplitInv, NextPrompt, n, q

LEMMA SplitHead ==
    ASSUME SplitInv, CutHead PROVE SplitInv'
<1> DEFINE q == n_split + 1
           n == input[q]
           l == last_chunk_pos
           e == Span(q, 0, l)
           c == embedding_chunks
           d == Reverse(Append(current_chunks, e))
<1>0. /\ input \in Inputs /\ n_split \in 0..Len(input) /\ n_split < Len(input) /\ n > IDEAL
      /\ l \in 1..IDEAL /\ l <= n
      /\ current_chunks \in Seq(Stream) /\ c \in Seq(Stream)
      /\ FlattenSeq(Reverse(current_chunks)) = Span(q, l, n)
      /\ FlattenSeq(c) = FlattenSeq(PromptsOf(input, n_split))
      /\ embedding_chunks' = c \o d
      /\ current_chunks' = <<>> /\ last_chunk_pos' = 0 /\ n_split' = q
      /\ UNCHANGED <<input, pc>> /\ pc = "split"
    BY Sizes DEF SplitInv, CutHead, Splitting, NextPrompt
<1>1. /\ input \in Seq(Nat \ {0}) /\ Len(input) \in Nat /\ q \in Nat /\ n \in Nat
      /\ n_split \in 0..(Len(input) - 1)
    BY <1>0, InputFacts
<1>2. /\ Span(q, 0, n) \in Seq(Tok)
      /\ FlattenSeq(PromptsOf(input, q)) = FlattenSeq(PromptsOf(input, n_split)) \o Span(q, 0, n)
    BY <1>1, PromptsStep
<1>3. l \in Nat /\ 0 <= l /\ l - 0 = l
    BY <1>0, Sizes
<1>4. e \in Seq(Tok) /\ Len(e) = l
    BY <1>1, <1>3, SpanType
<1>5. e \in Stream
    BY <1>0, <1>4 DEF Stream
<1>6. e \o Span(q, l, n) = Span(q, 0, n)
    BY <1>0, <1>1, <1>3, SpanConcat
<1> HIDE DEF e
<1>7. current_chunks \in Seq(Seq(Tok)) /\ c \in Seq(Seq(Tok))
    BY <1>0, StreamsType
<1>8. FlattenSeq(d) = Span(q, 0, n)
    BY <1>0, <1>4, <1>6, <1>7, FlattenReverse
<1>9. d \in Seq(Stream)
    BY <1>0, <1>5, ReverseAppend
<1>10. d \in Seq(Seq(Tok))
    BY <1>9, StreamsType
<1> HIDE DEF d
<1>11. FlattenSeq(c \o d) = FlattenSeq(c) \o FlattenSeq(d)
    BY <1>7, <1>10, FlattenConcat
<1>12. FlattenSeq(embedding_chunks') = FlattenSeq(PromptsOf(input', n_split'))
    BY <1>0, <1>2, <1>8, <1>11
<1>13. embedding_chunks' \in Seq(Stream)
    BY <1>0, <1>9, ConcatProperties
<1>14. n_split' \in 0..Len(input') /\ n_split' # 0 /\ (n_split' = 1 => ~(input'[1] <= IDEAL))
    BY <1>0, <1>1, Sizes
<1>15. <<>> \in Seq(Stream)
    BY EmptySeq
<1>. QED
    BY <1>0, <1>12, <1>13, <1>14, <1>15 DEF SplitInv

LEMMA SplitNext ==
    ASSUME SplitInv, [Next]_vars PROVE SplitInv'
<1>0. pc \in {"split", "post", "receive", "store", "done"} /\ (pc # "split" => n_split = Len(input))
    BY DEF SplitInv
<1>1. CASE UNCHANGED vars \/ Finished
    BY <1>0, <1>1, SplitKept DEF vars, Finished
<1>2. CASE ShortPrompt \/ CutTail \/ CutStep \/ CutHead
    BY <1>2, SplitShort, SplitTail, SplitStep, SplitHead
<1>3. CASE PostTasks \/ Posted \/ ReceiveClosed \/ Respond
    BY <1>0, <1>3, SplitKept DEF PostTasks, Splitting, Posted, ReceiveClosed, Respond
<1>4. CASE \E t \in pending : ReceiveRows(t)
    <2>1. PICK t \in pending : ReceiveRows(t)
        BY <1>4
    <2>. QED
        BY <1>0, <2>1, SplitKept DEF ReceiveRows
<1>5. CASE InsertEntry
    BY <1>0, <1>5, SplitKept DEF InsertEntry
<1>6. CASE Faults
    BY <1>0, <1>6, SplitKept DEF Faults, ReceiveError, InsertFails, Disconnect
<1>. QED
    BY <1>1, <1>2, <1>3, <1>4, <1>5, <1>6 DEF Next, Work

\* The streams of any input are its prompts: every token is embedded once and in order,
\* and no task gets more tokens than it can embed.
THEOREM StreamsCoverPrompts == Spec => []StreamsArePrompts
<1>1. SplitInv => StreamsArePrompts
    <2> SUFFICES ASSUME SplitInv, pc # "split"
                 PROVE  /\ FlattenSeq(embedding_chunks) =
                              FlattenSeq([p \in DOMAIN input |-> Prompt(p)])
                        /\ \A i \in DOMAIN embedding_chunks : Len(embedding_chunks[i]) \in 1..IDEAL
        BY DEF StreamsArePrompts
    <2>1. embedding_chunks \in Seq(Stream) /\ input \in Inputs /\ n_split = Len(input)
        BY DEF SplitInv
    <2>2. DOMAIN input = 1..Len(input)
        BY <2>1, InputFacts
    <2>3. [p \in DOMAIN input |-> Prompt(p)] = PromptsOf(input, n_split)
        BY <2>1, <2>2 DEF PromptsOf, Prompt
    <2>. QED
        BY <2>1, <2>3, StreamsType DEF SplitInv
<1>. QED
    BY <1>1, SplitInit, SplitNext, PTL DEF Spec

-----------------------------------------------------------------------------
(* The windows.                                                            *)

LEMMA ChunkSize ==
    ASSUME NEW rows \in Seq(Tok)
    PROVE  /\ chunk_sz(rows) \in Nat /\ Len(rows) \in Nat /\ chunk_sz(rows) <= Len(rows)
           /\ Len(rows) >= CHUNK => chunk_sz(rows) = CHUNK
           /\ Len(rows) < CHUNK /\ chunk_sz(rows) > 0 =>
                 Len(embedding_chunks) = 1 /\ chunk_sz(rows) = Len(rows)
           /\ Len(embedding_chunks) = 1 /\ chunk_sz(rows) = 0 => Len(rows) = 0
    BY Sizes, LenProperties DEF chunk_sz

LEMMA WindowInit ==
    ASSUME Init PROVE WindowInv
<1>1. input[1] \in Nat /\ 0 \in 0..input[1]
    BY InputFacts DEF Init
<1>2. \A S : <<>> \in Seq(S) /\ Len(<<>>) = 0
    BY EmptySeq
<1>3. EntriesOK
    BY <1>2 DEF Init, EntriesOK
<1>4. all_prompt = Span(1, 0, input[1])
    BY DEF Init, Prompt
<1>. QED
    BY <1>1, <1>2, <1>3, <1>4 DEF Init, WindowInv

LEMMA Placed ==
    ASSUME SplitInv, WindowInv
    PROVE  /\ input[1] \in Nat \ {0} /\ position \in Nat /\ position <= input[1]
           /\ all_prompt \in Seq(Tok) /\ Len(all_prompt) = input[1] - position
<1>1. input[1] \in Nat \ {0}
    <2>1. input \in Inputs
        BY DEF SplitInv
    <2>2. 1 \in 1..Len(input)
        BY <2>1, InputFacts
    <2>. QED
        BY <2>1, <2>2, InputFacts
<1>2. position \in Nat /\ position <= input[1]
    BY <1>1 DEF WindowInv
<1>3. 1 \in Nat /\ input[1] \in Nat
    BY <1>1
<1>4. /\ Span(1, position, input[1]) \in Seq(Tok)
      /\ Len(Span(1, position, input[1])) = input[1] - position
    BY <1>2, <1>3, SpanType, Zenon
<1>. QED
    BY <1>1, <1>2, <1>4 DEF WindowInv

\* One more entry, for the window at position.
LEMMA EntriesAppended ==
    ASSUME EntriesOK, input' = input, input[1] \in Nat, position \in Nat,
           NEW sz \in Nat, sz > 0, position + sz <= input[1],
           NEW e \in [vector : Seq(Tok), contents : Seq(Tok)],
           e.contents = Span(1, position, position + sz),
           entries # <<>> => Moved,
           entries' = Append(entries, e), responses' = Append(responses, <<position, sz>>)
    PROVE  EntriesOK'
<1> DEFINE n == Len(entries)
           E == [vector : Seq(Tok), contents : Seq(Tok)]
           W == Nat \X (Nat \ {0})
           w == <<position, sz>>
<1>1. /\ entries \in Seq(E) /\ responses \in Seq(W) /\ Len(responses) = n /\ n \in Nat
      /\ w \in W
    BY LenProperties DEF EntriesOK
<1>2. /\ entries' \in Seq(E) /\ Len(entries') = n + 1 /\ entries'[n + 1] = e
      /\ \A i \in 1..n : entries'[i] = entries[i]
    BY <1>1, AppendProperties
<1>3. /\ responses' \in Seq(W) /\ Len(responses') = n + 1 /\ responses'[n + 1] = w
      /\ \A i \in 1..n : responses'[i] = responses[i]
    BY <1>1, AppendProperties
<1>4. w[1] = position /\ w[2] = sz
    OBVIOUS
<1>5. n > 0 => responses[n] = <<position - STEP, CHUNK>>
    BY <1>1, EmptySeq DEF Moved
<1> HIDE DEF n, w, E, W
<1>6. ASSUME NEW i \in 1..(n + 1)
      PROVE  /\ responses'[i][1] + responses'[i][2] <= input'[1]
             /\ entries'[i].contents =
                   Span(1, responses'[i][1], responses'[i][1] + responses'[i][2])
             /\ i > 1 => /\ responses'[i][1] = responses'[i - 1][1] + STEP
                         /\ responses'[i - 1][2] = CHUNK
    <2>1. CASE i \in 1..n
        <3>1. /\ responses[i][1] + responses[i][2] <= input[1]
              /\ entries[i].contents = Span(1, responses[i][1], responses[i][1] + responses[i][2])
              /\ i > 1 => /\ responses[i][1] = responses[i - 1][1] + STEP
                          /\ responses[i - 1][2] = CHUNK
            BY <2>1 DEF EntriesOK, n
        <3>2. i > 1 => i - 1 \in 1..n
            BY <1>1, <2>1
        <3>. QED
            BY <1>2, <1>3, <2>1, <3>1, <3>2
    <2>2. CASE i = n + 1
        <3>1. /\ responses'[i][1] + responses'[i][2] <= input'[1]
              /\ entries'[i].contents =
                   Span(1, responses'[i][1], responses'[i][1] + responses'[i][2])
            BY <1>2, <1>3, <1>4, <2>2
        <3>2. ASSUME i > 1
              PROVE  responses'[i][1] = responses'[i - 1][1] + STEP /\ responses'[i - 1][2] = CHUNK
            <4>1. n > 0 /\ i - 1 = n /\ n \in 1..n
                BY <1>1, <2>2, <3>2
            <4>2. responses'[i - 1] = <<position - STEP, CHUNK>>
                BY <1>3, <1>5, <4>1
            <4>3. (position - STEP) + STEP = position
                BY Sizes
            <4> DEFINE v == <<position - STEP, CHUNK>>
            <4>4. responses'[i - 1][1] = position - STEP /\ responses'[i - 1][2] = CHUNK
                <5>1. v[1] = position - STEP /\ v[2] = CHUNK /\ responses'[i - 1] = v
                    BY <4>2
                <5> HIDE DEF v
                <5>. QED
                    BY <5>1, Zenon
            <4>5. responses'[i][1] = position
                BY <1>3, <1>4, <2>2
            <4>. QED
                BY <4>3, <4>4, <4>5
        <3>. QED
            BY <3>1, <3>2
    <2>3. i \in 1..n \/ i = n + 1
        BY <1>1
    <2>. QED
        BY <2>1, <2>2, <2>3
<1>7. Len(responses') = Len(entries') /\ Len(entries') = n + 1
    BY <1>2, <1>3
<1>. QED
    BY <1>2, <1>3, <1>6, <1>7 DEF EntriesOK, E, W

LEMMA EntriesSame ==
    ASSUME EntriesOK, UNCHANGED <<input, entries, responses>>
    PROVE  EntriesOK'
    BY DEF EntriesOK

\* Nothing is stored, and the handler does not begin to store.
LEMMA WindowSame ==
    ASSUME WindowInv, UNCHANGED <<input, windowVars, embedding_chunks>>,
           pending' \subseteq pending, pc' \in {"receive", "done"}, pc \notin {"split", "post"}
    PROVE  WindowInv'
<1>1. EntriesOK'
    BY EntriesSame DEF WindowInv, windowVars
<1>2. entries # <<>> => (Moved \/ Ended)'
    BY DEF WindowInv, Moved, Ended, windowVars
<1>. QED
    BY <1>1, <1>2 DEF WindowInv, windowVars

LEMMA WindowSplit ==
    ASSUME WindowInv, pc = "split", pc' \in {"split", "post"},
           UNCHANGED <<input, pending, windowVars, error, closed>>
    PROVE  WindowInv'
<1>1. EntriesOK'
    BY EntriesSame DEF WindowInv, windowVars
<1>. QED
    BY <1>1 DEF WindowInv, windowVars

LEMMA WindowPosted ==
    ASSUME WindowInv, Posted PROVE WindowInv'
<1>1. EntriesOK'
    BY EntriesSame DEF WindowInv, windowVars, Posted
<1>. QED
    BY <1>1 DEF WindowInv, windowVars, splitVars, Posted

LEMMA WindowDisconnect ==
    ASSUME WindowInv, Disconnect PROVE WindowInv'
<1>1. EntriesOK'
    BY EntriesSame DEF WindowInv, windowVars, Disconnect
<1>2. entries # <<>> => (Moved \/ Ended)'
    BY DEF WindowInv, Moved, Ended, windowVars, Disconnect
<1>. QED
    BY <1>1, <1>2 DEF WindowInv, windowVars, splitVars, Disconnect, chunk_sz

LEMMA WindowRows ==
    ASSUME SplitInv, WindowInv, NEW t \in pending, ReceiveRows(t)
    PROVE  WindowInv'
<1> DEFINE rows == all_embedding \o embedding_chunks[t]
<1>1. EntriesOK'
    BY EntriesSame DEF WindowInv, ReceiveRows
<1>2. t \in 1..Len(embedding_chunks) /\ embedding_chunks[t] \in Seq(Tok) /\ Len(embedding_chunks) \in Nat
    <2>1. embedding_chunks \in Seq(Stream)
        BY DEF SplitInv
    <2>. QED
        BY <2>1, StreamsType DEF WindowInv
<1>3. all_embedding' \in Seq(Tok)
    BY <1>2, ConcatProperties DEF WindowInv, ReceiveRows
<1>4. entries # <<>> => Moved'
    BY DEF WindowInv, Moved, Ended, ReceiveRows
<1>5. pc' = "store" =>
          /\ all_embedding' = rows /\ error' = FALSE
          /\ Len(rows) <= Len(all_prompt) /\ chunk_sz(rows) # 0
    <2>1. all_prompt \in Seq(Tok) /\ rows \in Seq(Tok)
        <3>1. input[1] \in Nat /\ position \in Nat /\ position <= input[1]
            BY Placed
        <3>2. 1 \in Nat
            OBVIOUS
        <3>3. Span(1, position, input[1]) \in Seq(Tok)
            BY <3>1, <3>2, SpanType, Zenon
        <3>. QED
            BY <1>2, <3>3, ConcatProperties DEF WindowInv
    <2>. QED
        BY <2>1, LenProperties DEF ReceiveRows
<1>6. Len(embedding_chunks) = 1 => pending' = {}
    BY <1>2 DEF WindowInv, ReceiveRows, SplitInv
<1>7. /\ UNCHANGED <<input, embedding_chunks, position, all_prompt, entries>>
      /\ pending' \subseteq pending /\ pc' \in {"receive", "store"}
    BY DEF ReceiveRows, splitVars
<1>8. pc' = "store" => Len(all_embedding') <= Len(all_prompt') /\ chunk_sz(all_embedding)' > 0
    <2> SUFFICES ASSUME pc' = "store"
                 PROVE  Len(all_embedding') <= Len(all_prompt') /\ chunk_sz(all_embedding)' > 0
        OBVIOUS
    <2>1. chunk_sz(rows) > 0
        <3>1. rows \in Seq(Tok) /\ chunk_sz(rows) # 0
            BY <1>3, <1>5
        <3> HIDE DEF rows
        <3>2. chunk_sz(rows) \in Nat
            BY <3>1, ChunkSize
        <3>. QED
            BY <3>1, <3>2
    <2>2. chunk_sz(all_embedding)' = chunk_sz(rows)
        BY <1>5, <1>7 DEF chunk_sz
    <2>. QED
        BY <1>5, <1>7, <2>1, <2>2
<1> HIDE DEF rows
<1>. QED
    BY <1>1, <1>3, <1>4, <1>5, <1>6, <1>7, <1>8 DEF WindowInv

\* What InsertEntry stores: the first tokens of all_prompt, and as many rows.
LEMMA EntryFacts ==
    ASSUME SplitInv, WindowInv, pc = "store"
    PROVE  LET sz == chunk_sz(all_embedding)
           IN  /\ sz \in Nat /\ sz > 0 /\ sz <= Len(all_embedding) /\ position + sz <= input[1]
               /\ Len(all_embedding) \in Nat
               /\ Entry \in [vector : Seq(Tok), contents : Seq(Tok)]
               /\ Entry.contents = Span(1, position, position + sz)
               /\ Entry.vector = SubSeq(all_embedding, 1, sz)
<1> DEFINE sz == chunk_sz(all_embedding)
<1>1. /\ all_embedding \in Seq(Tok) /\ sz > 0 /\ Len(all_embedding) <= Len(all_prompt)
      /\ all_prompt = Span(1, position, input[1])
    BY DEF WindowInv
<1>2. sz \in Nat /\ Len(all_embedding) \in Nat /\ sz <= Len(all_embedding)
    BY <1>1, ChunkSize
<1> HIDE DEF sz
<1>3. /\ input[1] \in Nat /\ position \in Nat /\ position <= input[1]
      /\ Len(all_prompt) = input[1] - position
    BY Placed
<1>4. position + sz <= input[1] /\ position + sz \in Nat /\ sz <= input[1] - position
    BY <1>1, <1>2, <1>3
<1>5. SubSeq(all_prompt, 1, sz) = Span(1, position, position + sz)
    <2>1. IsPart(1, position, input[1], position, position + sz, 1, sz)
        BY <1>2, <1>3, <1>4 DEF IsPart
    <2>2. SubSeq(Span(1, position, input[1]), 1, sz) = Span(1, position, position + sz)
        BY <2>1, SpanPart
    <2>. QED
        BY <1>1, <2>2, Zenon
<1>6. Span(1, position, position + sz) \in Seq(Tok)
    <2>1. 1 \in Nat /\ position <= position + sz
        BY <1>2, <1>3
    <2>. QED
        BY <1>3, <1>4, <2>1, SpanType, Zenon
<1>7. SubSeq(all_embedding, 1, sz) \in Seq(Tok)
    <2>1. \A i \in 1..sz : all_embedding[i] \in Tok
        BY <1>1, <1>2, ElementOfSeq
    <2>. QED
        BY <1>2, <2>1, SubSeqProperties
<1>8. Entry = [vector |-> SubSeq(all_embedding, 1, sz), contents |-> SubSeq(all_prompt, 1, sz)]
    BY DEF Entry, sz
<1>9. /\ Entry \in [vector : Seq(Tok), contents : Seq(Tok)]
      /\ Entry.contents = Span(1, position, position + sz)
      /\ Entry.vector = SubSeq(all_embedding, 1, sz)
    BY <1>5, <1>6, <1>7, <1>8
<1>. QED
    BY <1>1, <1>2, <1>4, <1>9 DEF sz

LEMMA WindowInsert ==
    ASSUME SplitInv, WindowInv, InsertEntry
    PROVE  WindowInv'
<1> DEFINE sz == chunk_sz(all_embedding)
           L == Len(all_embedding)
<1>1. /\ pc = "store" /\ input' = input /\ embedding_chunks' = embedding_chunks
      /\ pending' = pending /\ error' = error /\ error = FALSE
      /\ entries' = Append(entries, Entry) /\ responses' = Append(responses, <<position, sz>>)
      /\ all_embedding \in Seq(Tok) /\ all_prompt = Span(1, position, input[1])
      /\ L <= Len(all_prompt) /\ EntriesOK /\ pending \subseteq DOMAIN embedding_chunks
      /\ Len(embedding_chunks) = 1 => pending = {}
      /\ entries # <<>> => Moved
    BY DEF InsertEntry, Stored, WindowInv, Ended, splitVars
<1>2. /\ sz \in Nat /\ sz > 0 /\ sz <= L /\ position + sz <= input[1] /\ L \in Nat
      /\ Entry \in [vector : Seq(Tok), contents : Seq(Tok)]
      /\ Entry.contents = Span(1, position, position + sz)
    BY <1>1, EntryFacts
<1>3. /\ input[1] \in Nat /\ position \in Nat /\ position <= input[1]
      /\ Len(all_prompt) = input[1] - position
    BY Placed
<1>4. EntriesOK'
    BY <1>1, <1>2, <1>3, EntriesAppended
<1>5. responses'[Len(responses')] = <<position, sz>> /\ entries' # <<>>
    <2>1. responses \in Seq(Nat \X (Nat \ {0})) /\ <<position, sz>> \in Nat \X (Nat \ {0})
        BY <1>1, <1>2, <1>3 DEF EntriesOK
    <2>2. entries \in Seq([vector : Seq(Tok), contents : Seq(Tok)])
        BY <1>1 DEF EntriesOK
    <2>. QED
        BY <1>1, <1>2, <2>1, <2>2, AppendProperties
<1>6. CASE is_last_block
    <2>1. L < CHUNK
        BY <1>6 DEF is_last_block
    <2>2. pending = {} /\ sz = L
        BY <1>1, <1>2, <2>1, ChunkSize
    <2>3. pc' = "receive" /\ UNCHANGED <<all_prompt, all_embedding, position>>
        BY <1>6 DEF InsertEntry
    <2>4. Ended'
        BY <1>1, <1>5, <2>2, <2>3 DEF Ended
    <2>. QED
        BY <1>1, <1>3, <1>4, <1>5, <2>3, <2>4 DEF WindowInv
<1>7. CASE ~is_last_block
    <2>1. L >= CHUNK
        BY <1>2, <1>7, Sizes DEF is_last_block
    <2>2. sz = CHUNK
        BY <1>1, <2>1, ChunkSize
    <2>3. /\ position' = position + STEP
          /\ all_embedding' = SubSeq(all_embedding, STEP + 1, L)
          /\ all_prompt' = SubSeq(all_prompt, STEP + 1, Len(all_prompt))
          /\ pc' = IF chunk_sz(all_embedding') = 0 THEN "receive" ELSE "store"
        BY <1>7 DEF InsertEntry, Advance
    <2>4. all_embedding' \in Seq(Tok) /\ Len(all_embedding') = L - STEP
        <3>1. \A i \in (STEP + 1)..L : all_embedding[i] \in Tok
            BY <1>1, Sizes, ElementOfSeq
        <3>2. STEP + 1 \in Int /\ L \in Int /\ STEP + 1 <= L /\ L - (STEP + 1) + 1 = L - STEP
            BY <1>2, <2>1, Sizes
        <3>. QED
            BY <2>3, <3>1, <3>2, SubSeqProperties
    <2>5. position' \in Nat /\ position' <= input[1]
        BY <1>2, <1>3, <2>2, <2>3, Sizes
    <2>6. all_prompt' = Span(1, position', input[1])
        <3>1. IsPart(1, position, input[1], position + STEP, input[1], STEP + 1, input[1] - position)
            BY <1>3, <2>3, <2>5, Sizes DEF IsPart
        <3>2. SubSeq(Span(1, position, input[1]), STEP + 1, input[1] - position) =
                  Span(1, position + STEP, input[1])
            BY <3>1, SpanPart
        <3>. QED
            BY <1>1, <1>3, <2>3, <3>2, Zenon
    <2>7. Len(all_prompt') = input[1] - position'
        BY <1>3, <2>5, <2>6, SpanType
    <2>8. pc' = "store" => Len(all_embedding') <= Len(all_prompt') /\ chunk_sz(all_embedding)' > 0
        <3>1. Len(all_embedding') <= Len(all_prompt')
            <4>1. L - STEP <= input[1] - (position + STEP)
                <5> HIDE DEF L
                <5>. QED
                    BY <1>1, <1>2, <1>3, Sizes
            <4>. QED
                BY <2>3, <2>4, <2>7, <4>1
        <3>2. chunk_sz(all_embedding)' = chunk_sz(all_embedding') /\ chunk_sz(all_embedding') \in Nat
            <4>1. chunk_sz(all_embedding)' = chunk_sz(all_embedding')
                BY <1>1 DEF chunk_sz
            <4>2. \A rows \in Seq(Tok) : chunk_sz(rows) \in Nat
                BY ChunkSize
            <4>. QED
                BY <2>4, <4>1, <4>2
        <3>3. pc' = "store" => chunk_sz(all_embedding') # 0
            BY <2>3
        <3> DEFINE k == chunk_sz(all_embedding')
        <3>4. k \in Nat /\ k # 0 => k > 0
            <4> HIDE DEF k
            <4>. QED
                OBVIOUS
        <3>. QED
            BY <3>1, <3>2, <3>3, <3>4, Zenon
    <2>9. Moved'
        <3>1. (position + STEP) - STEP = position
            BY <1>3, Sizes
        <3>. QED
            BY <1>5, <2>2, <2>3, <3>1 DEF Moved
    <2>10. pc' \in {"receive", "store"} /\ position' \in 0..input'[1]
        BY <1>1, <1>3, <2>3, <2>5
    <2>. QED
        BY <1>1, <1>4, <1>5, <2>4, <2>6, <2>8, <2>9, <2>10 DEF WindowInv
<1>. QED
    BY <1>6, <1>7

LEMMA WindowNext ==
    ASSUME SplitInv, WindowInv, [Next]_vars PROVE WindowInv'
<1>1. CASE UNCHANGED vars \/ Finished
    BY <1>1 DEF vars, windowVars, splitVars, Finished, WindowInv, EntriesOK, Moved, Ended, chunk_sz
<1>2. CASE ShortPrompt \/ CutTail \/ CutStep \/ CutHead \/ PostTasks
    BY <1>2, WindowSplit DEF ShortPrompt, CutTail, CutStep, CutHead, PostTasks, Splitting
<1>3. CASE Posted \/ Disconnect \/ InsertEntry
    BY <1>3, WindowPosted, WindowDisconnect, WindowInsert
<1>4. CASE \E t \in pending : ReceiveRows(t)
    BY <1>4, WindowRows
<1>5. CASE ReceiveClosed \/ Respond \/ InsertFails \/ \E t \in pending : ReceiveError(t)
    BY <1>5, WindowSame DEF ReceiveClosed, Respond, InsertFails, ReceiveError, splitVars
<1>. QED
    BY <1>1, <1>2, <1>3, <1>4, <1>5 DEF Next, Work, Faults

\* The windows, their texts and the list in the response agree at every point of an
\* ingestion, in whatever order results arrive.
THEOREM ChunkingInvariant == Spec => [](SplitInv /\ WindowInv)
    BY SplitInit, SplitNext, WindowInit, WindowNext, PTL DEF Spec

\* The first and the last token of an entry's text.
LEMMA EntryEnds ==
    ASSUME EntriesOK, NEW i \in 1..Len(entries)
    PROVE  /\ entries[i].contents # <<>>
           /\ responses[i][1] \in Nat /\ responses[i][2] \in Nat /\ responses[i][2] > 0
           /\ responses[i] = <<responses[i][1], responses[i][2]>>
           /\ Head(entries[i].contents)[2] = responses[i][1]
           /\ Last(entries[i].contents)[2] = responses[i][1] + responses[i][2] - 1
           /\ Len(entries[i].contents) = responses[i][2]
<1> DEFINE a == responses[i][1]
           n == responses[i][2]
           s == entries[i].contents
<1>1. responses[i] \in Nat \X (Nat \ {0})
    BY ElementOfSeq DEF EntriesOK
<1>2. a \in Nat /\ n \in Nat /\ n > 0 /\ responses[i] = <<a, n>>
    BY <1>1
<1>3. s = Span(1, a, a + n)
    BY DEF EntriesOK
<1> HIDE DEF a, n, s
<1>4. s \in Seq(Tok) /\ Len(s) = n /\ \A k \in 1..n : s[k] = <<1, a + k - 1>>
    <2>1. 1 \in Nat /\ a + n \in Nat /\ a <= a + n /\ (a + n) - a = n
        BY <1>2
    <2>2. s \in Seq(Tok)
        BY <1>2, <1>3, <2>1, SpanType, Zenon
    <2>3. Len(s) = n
        BY <1>2, <1>3, <2>1, SpanType
    <2>4. ASSUME NEW k \in 1..n PROVE s[k] = <<1, a + k - 1>>
        BY <1>2, <1>3, <2>1 DEF Span
    <2>. QED
        BY <2>2, <2>3, <2>4
<1>5. Head(s) = s[1] /\ Last(s) = s[n] /\ s # <<>>
    BY <1>2, <1>4, EmptySeq DEF Last
<1>6. Head(s)[2] = a /\ Last(s)[2] = a + n - 1
    <2>1. s[1] = <<1, a + 1 - 1>> /\ s[n] = <<1, a + n - 1>> /\ a + 1 - 1 = a
        BY <1>2, <1>4
    <2>. QED
        BY <1>5, <2>1
<1>. QED
    BY <1>2, <1>4, <1>5, <1>6 DEF a, n, s

\* The windows leave no gap in the text of a prompt, for any sizes of prompts, streams
\* and windows, and in whatever order the results arrive.
THEOREM WindowsLeaveNoGap == Spec => []WindowsOverlap
<1>1. SplitInv /\ WindowInv => WindowsOverlap
    <2> SUFFICES ASSUME WindowInv, NEW i \in DOMAIN entries
                 PROVE  /\ entries[i].contents # <<>>
                        /\ i > 1 => Head(entries[i].contents)[2] \in
                               (Head(entries[i - 1].contents)[2] + 1)..
                                   (Last(entries[i - 1].contents)[2] + 1)
        BY DEF WindowsOverlap
    <2>1. EntriesOK /\ i \in 1..Len(entries) /\ Len(entries) \in Nat
        BY LenProperties DEF WindowInv, EntriesOK
    <2>2. entries[i].contents # <<>>
        BY <2>1, EntryEnds
    <2>3. ASSUME i > 1
          PROVE  Head(entries[i].contents)[2] \in
                     (Head(entries[i - 1].contents)[2] + 1)..(Last(entries[i - 1].contents)[2] + 1)
        <3>1. i - 1 \in 1..Len(entries)
            BY <2>1, <2>3
        <3>2. responses[i][1] = responses[i - 1][1] + STEP /\ responses[i - 1][2] = CHUNK
            BY <2>1, <2>3 DEF EntriesOK
        <3>3. /\ Head(entries[i].contents)[2] = responses[i][1]
              /\ Head(entries[i - 1].contents)[2] = responses[i - 1][1]
              /\ Last(entries[i - 1].contents)[2] = responses[i - 1][1] + responses[i - 1][2] - 1
              /\ responses[i - 1][1] \in Nat
            BY <2>1, <3>1, EntryEnds
        <3>. QED
            BY <3>2, <3>3, Sizes
    <2>. QED
        BY <2>2, <2>3
<1>. QED
    BY <1>1, ChunkingInvariant, PTL

-----------------------------------------------------------------------------
(* How many rows there are.                                                *)

LEMMA FlattenLen ==
    ASSUME NEW T, NEW s \in Seq(Seq(T)), NEW n \in 1..Len(s)
    PROVE  /\ Len(FlattenSeq(SubSeq(s, 1, n - 1))) \in Nat
           /\ Len(FlattenSeq(SubSeq(s, 1, n))) \in Nat /\ Len(s[n]) \in Nat
           /\ Len(FlattenSeq(SubSeq(s, 1, n))) =
                 Len(FlattenSeq(SubSeq(s, 1, n - 1))) + Len(s[n])
<1> DEFINE a == SubSeq(s, 1, n - 1)
           e == s[n]
<1>1. a \in Seq(Seq(T)) /\ e \in Seq(T) /\ SubSeq(s, 1, n) = Append(a, e)
    BY FrontAndLast
<1> HIDE DEF a, e
<1>2. FlattenSeq(a) \in Seq(T) /\ FlattenSeq(Append(a, e)) = FlattenSeq(a) \o e
    BY <1>1, FlattenType, FlattenAppend
<1>3. /\ Len(FlattenSeq(a)) \in Nat /\ Len(e) \in Nat
      /\ Len(FlattenSeq(a) \o e) = Len(FlattenSeq(a)) + Len(e)
    BY <1>1, <1>2, ConcatProperties, LenProperties
<1>4. FlattenSeq(SubSeq(s, 1, n)) = FlattenSeq(a) \o e
    BY <1>1, <1>2, Zenon
<1>5. /\ Len(FlattenSeq(a)) \in Nat /\ Len(FlattenSeq(SubSeq(s, 1, n))) \in Nat /\ Len(e) \in Nat
      /\ Len(FlattenSeq(SubSeq(s, 1, n))) = Len(FlattenSeq(a)) + Len(e)
    <2> DEFINE f == FlattenSeq(a)
               g == FlattenSeq(SubSeq(s, 1, n))
    <2> HIDE DEF f, g
    <2>1. Len(f) \in Nat /\ Len(e) \in Nat /\ Len(g) = Len(f) + Len(e)
        BY <1>3, <1>4, Zenon DEF f, g
    <2>2. Len(g) \in Nat
        BY <2>1
    <2>. QED
        BY <2>1, <2>2, Zenon DEF f, g
<1>. QED
    BY <1>5, Zenon DEF a, e

LEMMA FlattenNone ==
    ASSUME NEW T, NEW s \in Seq(T)
    PROVE  Len(FlattenSeq(SubSeq(s, 1, 0))) = 0
<1>1. SubSeq(s, 1, 0) = <<>>
    BY SubSeqEmpty
<1>2. FlattenSeq(SubSeq(s, 1, 0)) = <<>>
    BY <1>1, FlattenEmpty, Zenon
<1>. QED
    BY <1>2

\* Two sequences of texts that differ in one text only.
LEMMA FlattenDiffer ==
    ASSUME NEW T, NEW a \in Seq(Seq(T)), NEW b \in Seq(Seq(T)), Len(a) = Len(b),
           NEW t \in 1..Len(a), NEW k \in Nat, Len(a[t]) = Len(b[t]) + k,
           \A i \in 1..Len(a) : i # t => a[i] = b[i]
    PROVE  Len(FlattenSeq(a)) = Len(FlattenSeq(b)) + k
<1> DEFINE A(n) == Len(FlattenSeq(SubSeq(a, 1, n)))
           B(n) == Len(FlattenSeq(SubSeq(b, 1, n)))
           M == {n \in 0..Len(a) : ~(IF n < t THEN A(n) = B(n) ELSE A(n) = B(n) + k)}
<1>1. Len(a) \in Nat /\ t \in Nat /\ t > 0
    BY LenProperties
<1>2. A(0) = 0 /\ B(0) = 0
    BY FlattenNone, Zenon
<1>3. ASSUME NEW n \in 1..Len(a)
      PROVE  /\ A(n - 1) \in Nat /\ Len(a[n]) \in Nat /\ A(n) = A(n - 1) + Len(a[n])
             /\ B(n - 1) \in Nat /\ Len(b[n]) \in Nat /\ B(n) = B(n - 1) + Len(b[n])
    <2>1. /\ A(n - 1) \in Nat /\ Len(a[n]) \in Nat /\ A(n) = A(n - 1) + Len(a[n])
        BY FlattenLen
    <2>2. /\ B(n - 1) \in Nat /\ Len(b[n]) \in Nat /\ B(n) = B(n - 1) + Len(b[n])
        BY FlattenLen
    <2>. QED
        BY <2>1, <2>2
<1> HIDE DEF A, B
<1>4. M = {}
    <2>1. SUFFICES ASSUME M # {} PROVE FALSE
        OBVIOUS
    <2>2. PICK n \in M : \A j \in M : n <= j
        <3>1. M \in SUBSET Nat
            BY <1>1
        <3>. QED
            BY <2>1, <3>1, SmallestElement
    <2>3. CASE n = 0
        BY <1>1, <1>2, <2>2, <2>3
    <2>4. CASE n # 0
        <3>1. n \in 1..Len(a) /\ n - 1 \in 0..Len(a) /\ n - 1 \notin M
            BY <1>1, <2>2, <2>4
        <3>2. /\ A(n - 1) \in Nat /\ Len(a[n]) \in Nat /\ A(n) = A(n - 1) + Len(a[n])
              /\ B(n - 1) \in Nat /\ Len(b[n]) \in Nat /\ B(n) = B(n - 1) + Len(b[n])
            BY <1>3, <3>1
        <3>3. IF n - 1 < t THEN A(n - 1) = B(n - 1) ELSE A(n - 1) = B(n - 1) + k
            BY <3>1
        <3>4. CASE n < t
            <4>1. Len(a[n]) = Len(b[n]) /\ A(n - 1) = B(n - 1)
                BY <1>1, <3>1, <3>3, <3>4
            <4>2. A(n) = B(n)
                BY <3>2, <4>1
            <4>. QED
                BY <2>2, <3>4, <4>2
        <3>5. CASE n = t
            <4>1. Len(a[n]) = Len(b[n]) + k /\ A(n - 1) = B(n - 1)
                BY <1>1, <3>1, <3>3, <3>5
            <4>2. A(n) = B(n) + k
                BY <3>2, <4>1
            <4>. QED
                BY <1>1, <2>2, <3>5, <4>2
        <3>6. CASE n > t
            <4>1. Len(a[n]) = Len(b[n]) /\ A(n - 1) = B(n - 1) + k
                BY <1>1, <3>1, <3>3, <3>6
            <4>2. A(n) = B(n) + k
                BY <3>2, <4>1
            <4>. QED
                BY <1>1, <2>2, <3>1, <3>6, <4>2
        <3>. QED
            BY <1>1, <3>1, <3>4, <3>5, <3>6
    <2>. QED
        BY <2>3, <2>4
<1>5. A(Len(a)) = B(Len(a)) + k
    <2>1. Len(a) \in 0..Len(a) /\ ~(Len(a) < t)
        BY <1>1
    <2>2. Len(a) \notin M
        BY <1>4
    <2>. QED
        BY <2>1, <2>2
<1>6. SubSeq(a, 1, Len(a)) = a /\ SubSeq(b, 1, Len(a)) = b
    BY SubSeqFull
<1>. QED
    BY <1>5, <1>6 DEF A, B

LEMMA FlattenNothing ==
    ASSUME NEW T, NEW s \in Seq(Seq(T)), \A i \in 1..Len(s) : s[i] = <<>>
    PROVE  Len(FlattenSeq(s)) = 0
<1> DEFINE A(n) == Len(FlattenSeq(SubSeq(s, 1, n)))
           M == {n \in 0..Len(s) : A(n) # 0}
<1>1. Len(s) \in Nat
    BY LenProperties
<1>2. A(0) = 0
    BY FlattenNone, Zenon
<1>3. ASSUME NEW n \in 1..Len(s) PROVE A(n - 1) \in Nat /\ A(n) = A(n - 1)
    <2>1. /\ A(n - 1) \in Nat /\ A(n) = A(n - 1) + Len(s[n])
        BY FlattenLen
    <2>2. Len(s[n]) = 0
        BY EmptySeq
    <2> HIDE DEF A
    <2>. QED
        BY <2>1, <2>2
<1> HIDE DEF A
<1>4. M = {}
    <2>1. SUFFICES ASSUME M # {} PROVE FALSE
        OBVIOUS
    <2>2. PICK n \in M : \A j \in M : n <= j
        <3>1. M \in SUBSET Nat
            BY <1>1
        <3>. QED
            BY <2>1, <3>1, SmallestElement
    <2>3. CASE n = 0
        BY <1>2, <2>2, <2>3
    <2>4. CASE n # 0
        <3>1. n \in 1..Len(s) /\ n - 1 \in 0..Len(s) /\ n - 1 \notin M
            BY <1>1, <2>2, <2>4
        <3>. QED
            BY <1>3, <2>2, <3>1
    <2>. QED
        BY <2>3, <2>4
<1>5. A(Len(s)) = 0
    BY <1>1, <1>4
<1>6. SubSeq(s, 1, Len(s)) = s
    BY SubSeqFull
<1>. QED
    BY <1>5, <1>6 DEF A

\* The streams that were received.
LEMMA ThoseType ==
    ASSUME NEW c \in Seq(Stream), NEW S
    PROVE  /\ Those(c, S) \in Seq(Seq(Tok)) /\ Len(Those(c, S)) = Len(c) /\ Len(c) \in Nat
           /\ \A i \in 1..Len(c) : Those(c, S)[i] = IF i \in S THEN c[i] ELSE <<>>
<1>1. /\ Len(c) \in Nat /\ DOMAIN c = 1..Len(c)
      /\ \A i \in 1..Len(c) : c[i] \in Seq(Tok)
    BY StreamsType
<1> DEFINE n == Len(c)
           f == Those(c, S)
<1>2. f = [i \in 1..n |-> IF i \in S THEN c[i] ELSE <<>>]
    BY <1>1 DEF Those
<1>3. <<>> \in Seq(Tok)
    BY EmptySeq
<1>4. n \in Nat /\ \A i \in 1..n : c[i] \in Seq(Tok)
    BY <1>1
<1> HIDE DEF f, n
<1>5. f \in [1..n -> Seq(Tok)]
    BY <1>2, <1>3, <1>4
<1>6. f \in Seq(Seq(Tok)) /\ Len(f) = n
    BY <1>4, <1>5, FunctionIsSeq
<1>. QED
    BY <1>2, <1>4, <1>6 DEF f, n

LEMMA ThoseOneMore ==
    ASSUME NEW c \in Seq(Stream), NEW S, NEW t \in 1..Len(c), t \notin S
    PROVE  /\ Len(FlattenSeq(Those(c, S))) \in Nat /\ Len(c[t]) \in Nat
           /\ Len(FlattenSeq(Those(c, S \cup {t}))) = Len(FlattenSeq(Those(c, S))) + Len(c[t])
<1> DEFINE a == Those(c, S \cup {t})
           b == Those(c, S)
           k == Len(c[t])
<1>1. /\ a \in Seq(Seq(Tok)) /\ Len(a) = Len(c)
      /\ \A i \in 1..Len(c) : a[i] = IF i \in S \cup {t} THEN c[i] ELSE <<>>
    BY ThoseType
<1>2. /\ b \in Seq(Seq(Tok)) /\ Len(b) = Len(c)
      /\ \A i \in 1..Len(c) : b[i] = IF i \in S THEN c[i] ELSE <<>>
    BY ThoseType
<1>3. k \in Nat
    BY StreamsType, Sizes
<1> HIDE DEF a, b, k
<1>4. a[t] = c[t] /\ b[t] = <<>> /\ Len(<<>>) = 0
    BY <1>1, <1>2, EmptySeq
<1>5. Len(a[t]) = Len(b[t]) + k
    BY <1>3, <1>4 DEF k
<1>6. \A i \in 1..Len(a) : i # t => a[i] = b[i]
    BY <1>1, <1>2
<1>7. Len(FlattenSeq(a)) = Len(FlattenSeq(b)) + k
    <2>1. a \in Seq(Seq(Tok)) /\ b \in Seq(Seq(Tok)) /\ Len(a) = Len(b) /\ t \in 1..Len(a)
        BY <1>1, <1>2, Zenon
    <2>. QED
        BY <1>3, <1>5, <1>6, <2>1, FlattenDiffer, Zenon
<1>8. FlattenSeq(b) \in Seq(Tok)
    BY <1>2, FlattenType
<1>9. Len(FlattenSeq(b)) \in Nat
    BY <1>8, LenProperties
<1>. QED
    BY <1>3, <1>7, <1>9 DEF a, b, k

LEMMA ThoseNone ==
    ASSUME NEW c \in Seq(Stream)
    PROVE  Len(FlattenSeq(Those(c, {}))) = 0
<1>1. /\ Those(c, {}) \in Seq(Seq(Tok)) /\ Len(Those(c, {})) = Len(c)
      /\ \A i \in 1..Len(c) : Those(c, {})[i] = <<>>
    BY ThoseType
<1>. QED
    BY <1>1, FlattenNothing

LEMMA ThoseAll ==
    ASSUME NEW c \in Seq(Stream)
    PROVE  Those(c, DOMAIN c) = c
    BY StreamsType DEF Those

-----------------------------------------------------------------------------
(* All rows are used.                                                      *)

LEMMA CountInit ==
    ASSUME Init PROVE CountInv
    BY DEF Init, CountInv, Listening

LEMMA CountPosted ==
    ASSUME SplitInv, WindowInv, CountInv, Posted PROVE CountInv'
<1>1. /\ pc = "post" /\ pc' = "receive" /\ pending' = DOMAIN embedding_chunks
      /\ UNCHANGED <<embedding_chunks, position, all_embedding, all_prompt, error, closed>>
    BY DEF Posted, splitVars, windowVars
<1>2. all_embedding = <<>> /\ position = 0 /\ embedding_chunks \in Seq(Stream)
    BY <1>1 DEF WindowInv, SplitInv
<1>3. Len(Got') = 0
    <2>1. DOMAIN embedding_chunks' \ pending' = {}
        BY <1>1
    <2>2. Got' = FlattenSeq(Those(embedding_chunks, {}))
        BY <1>1, <2>1 DEF Got, Those
    <2>. QED
        BY <1>2, <2>2, ThoseNone
<1>4. chunk_sz(all_embedding)' = 0 /\ Len(all_embedding') = 0
    <2>1. Len(all_embedding') = 0
        BY <1>1, <1>2, EmptySeq
    <2>. QED
        BY <2>1, Sizes DEF chunk_sz
<1>5. position' + Len(all_embedding') = 0
    BY <1>1, <1>2, <1>4
<1>. QED
    BY <1>1, <1>3, <1>4, <1>5 DEF CountInv

\* A result that is received counts once.
LEMMA CountRows ==
    ASSUME SplitInv, WindowInv, CountInv, NEW t \in pending, ReceiveRows(t)
    PROVE  CountInv'
<1> DEFINE c == embedding_chunks
           rows == all_embedding \o c[t]
           S == DOMAIN c \ pending
<1>1. /\ pc = "receive" /\ pending' = pending \ {t}
      /\ UNCHANGED <<embedding_chunks, position, all_prompt, error, closed>>
      /\ error = FALSE => all_embedding' = rows
    BY DEF ReceiveRows, splitVars
<1>2. c \in Seq(Stream) /\ t \in 1..Len(c) /\ t \notin S /\ c[t] \in Seq(Tok)
    <2>1. c \in Seq(Stream)
        BY DEF SplitInv
    <2>. QED
        BY <2>1, StreamsType DEF WindowInv
<1>3. pc' \in {"receive", "store"}
    BY DEF ReceiveRows
<1>4. SUFFICES ASSUME Listening'
               PROVE  /\ position' + Len(all_embedding') = Len(Got')
                      /\ pc' # "store" /\ Len(all_embedding') <= Len(all_prompt') =>
                            chunk_sz(all_embedding)' = 0
    BY <1>1, <1>3 DEF CountInv
<1>5. error = FALSE /\ Listening /\ all_embedding' = rows
    BY <1>1, <1>4 DEF Listening
<1>6. position + Len(all_embedding) = Len(FlattenSeq(Those(c, S)))
    BY <1>5 DEF CountInv, Got
<1>7. Len(Got') = Len(FlattenSeq(Those(c, S))) + Len(c[t]) /\ Len(c[t]) \in Nat
    <2>1. DOMAIN embedding_chunks' \ pending' = S \cup {t}
        BY <1>1, <1>2, StreamsType
    <2>2. Got' = FlattenSeq(Those(c, S \cup {t}))
        BY <1>1, <2>1 DEF Got, Those
    <2> HIDE DEF c, S
    <2>. QED
        BY <1>2, <2>2, ThoseOneMore
<1>8. Len(rows) = Len(all_embedding) + Len(c[t]) /\ Len(all_embedding) \in Nat
    BY <1>2, ConcatProperties, LenProperties DEF WindowInv
<1>9. position' + Len(all_embedding') = Len(Got')
    <2>1. position \in Nat
        BY Placed
    <2>2. position' + Len(all_embedding') = position + Len(rows)
        BY <1>1, <1>5
    <2> HIDE DEF rows, c, S
    <2>. QED
        BY <1>6, <1>7, <1>8, <2>1, <2>2
<1>10. pc' # "store" /\ Len(all_embedding') <= Len(all_prompt') => chunk_sz(all_embedding)' = 0
    <2>1. chunk_sz(all_embedding)' = chunk_sz(rows)
        BY <1>1, <1>5 DEF chunk_sz
    <2>2. Len(rows) \in Nat /\ Len(all_prompt) \in Nat
        BY <1>2, Placed, ConcatProperties, LenProperties DEF WindowInv
    <2>3. pc' # "store" /\ Len(rows) <= Len(all_prompt) => chunk_sz(rows) = 0
        BY <1>5, <2>2 DEF ReceiveRows
    <2>. QED
        BY <1>1, <1>5, <2>1, <2>3
<1>. QED
    BY <1>9, <1>10

\* What the store loop passes leaves all_embedding and counts in position.
LEMMA CountInsert ==
    ASSUME SplitInv, WindowInv, WindowInv', CountInv, InsertEntry PROVE CountInv'
<1>1. /\ pc = "store" /\ UNCHANGED <<embedding_chunks, pending, error, closed>>
      /\ error = FALSE /\ Listening /\ pc' \in {"receive", "store"}
    BY DEF InsertEntry, WindowInv, splitVars, Listening
<1>2. position + Len(all_embedding) = Len(Got) /\ Got' = Got
    BY <1>1 DEF CountInv, Got, Those
<1>3. Len(all_embedding) \in Nat /\ position \in Nat /\ all_embedding \in Seq(Tok)
    BY Placed, LenProperties DEF WindowInv
<1>4. CASE is_last_block
    <2>1. pc' = "receive" /\ UNCHANGED <<all_prompt, all_embedding, position>>
        BY <1>4 DEF InsertEntry
    <2>2. Len(all_embedding) < CHUNK
        BY <1>4 DEF is_last_block
    <2>3. pending = {} /\ chunk_sz(all_embedding) = Len(all_embedding)
        BY <1>1, <1>3, <2>2, ChunkSize DEF WindowInv
    <2>4. Ended'
        <3>1. responses \in Seq(Nat \X (Nat \ {0})) /\ Len(responses) \in Nat
            BY LenProperties DEF WindowInv, EntriesOK
        <3>2. responses' = Append(responses, <<position, chunk_sz(all_embedding)>>)
            BY DEF InsertEntry, Stored
        <3>3. entries' # <<>> /\ responses'[Len(responses')] = <<position, chunk_sz(all_embedding)>>
            <4>1. /\ entries' = Append(entries, Entry)
                  /\ entries \in Seq([vector : Seq(Tok), contents : Seq(Tok)])
                BY DEF InsertEntry, Stored, WindowInv, EntriesOK
            <4>2. /\ chunk_sz(all_embedding) \in Nat /\ chunk_sz(all_embedding) > 0
                  /\ Entry \in [vector : Seq(Tok), contents : Seq(Tok)]
                BY <1>1, EntryFacts
            <4>3. entries' # <<>>
                <5> DEFINE E == [vector : Seq(Tok), contents : Seq(Tok)]
                <5>1. entries \in Seq(E) /\ Entry \in E
                    BY <4>1, <4>2
                <5> HIDE DEF E
                <5>2. Len(entries) \in Nat /\ Len(entries') = Len(entries) + 1
                    BY <4>1, <5>1, AppendProperties, LenProperties
                <5>3. Len(entries') # 0 /\ Len(<<>>) = 0
                    BY <5>2
                <5>. QED
                    BY <5>3
            <4> DEFINE w == <<position, chunk_sz(all_embedding)>>
            <4>4. w \in Nat \X (Nat \ {0})
                BY <1>3, <4>2
            <4> HIDE DEF w
            <4>5. responses' = Append(responses, w)
                BY <3>2 DEF w
            <4>6. responses'[Len(responses')] = w
                BY <3>1, <4>4, <4>5, AppendProperties
            <4>. QED
                BY <4>3, <4>6 DEF w
        <3>. QED
            BY <1>1, <2>1, <2>3, <3>3 DEF Ended
    <2>. QED
        BY <1>1, <1>2, <2>1, <2>4 DEF CountInv
<1>5. CASE ~is_last_block
    <2>1. /\ position' = position + STEP
          /\ all_embedding' = SubSeq(all_embedding, STEP + 1, Len(all_embedding))
          /\ pc' = IF chunk_sz(all_embedding') = 0 THEN "receive" ELSE "store"
        BY <1>5 DEF InsertEntry, Advance
    <2>2. Len(all_embedding) >= CHUNK
        BY <1>3, <1>5, Sizes DEF is_last_block
    <2>3. Len(all_embedding') = Len(all_embedding) - STEP
        <3> DEFINE L == Len(all_embedding)
        <3>1. \A i \in (STEP + 1)..L : all_embedding[i] \in Tok
            BY <1>3, Sizes, ElementOfSeq
        <3>2. STEP + 1 \in Int /\ L \in Int /\ STEP + 1 <= L /\ L - (STEP + 1) + 1 = L - STEP
            BY <1>3, <2>2, Sizes
        <3>. QED
            BY <2>1, <3>1, <3>2, SubSeqProperties
    <2>4. position' + Len(all_embedding') = position + Len(all_embedding)
        <3> DEFINE L == Len(all_embedding)
        <3> HIDE DEF L
        <3>1. (position + STEP) + (L - STEP) = position + L
            BY <1>3, Sizes DEF L
        <3>. QED
            BY <2>1, <2>3, <3>1 DEF L
    <2>5. pc' # "store" => chunk_sz(all_embedding)' = 0
        <3>1. chunk_sz(all_embedding)' = chunk_sz(all_embedding')
            BY <1>1 DEF chunk_sz
        <3>. QED
            BY <2>1, <3>1
    <2>. QED
        BY <1>1, <1>2, <2>4, <2>5 DEF CountInv
<1>. QED
    BY <1>4, <1>5

LEMMA CountNext ==
    ASSUME SplitInv, WindowInv, WindowInv', CountInv, [Next]_vars PROVE CountInv'
<1>1. CASE UNCHANGED vars \/ Finished
    BY <1>1 DEF vars, windowVars, splitVars, Finished, CountInv, Listening, Got, Those, Ended,
                chunk_sz
<1>2. CASE ShortPrompt \/ CutTail \/ CutStep \/ CutHead \/ PostTasks
    BY <1>2 DEF ShortPrompt, CutTail, CutStep, CutHead, PostTasks, Splitting, CountInv, Listening
<1>3. CASE Posted \/ InsertEntry
    BY <1>3, CountPosted, CountInsert
<1>4. CASE \E t \in pending : ReceiveRows(t)
    BY <1>4, CountRows
<1>5. CASE ReceiveClosed \/ InsertFails \/ \E t \in pending : ReceiveError(t)
    <2>0. error \in BOOLEAN /\ closed \in BOOLEAN
        BY DEF CountInv
    <2>1. CASE ReceiveClosed
        BY <2>0, <2>1 DEF ReceiveClosed, Listening, CountInv
    <2>2. CASE InsertFails \/ \E t \in pending : ReceiveError(t)
        <3>1. error' = TRUE /\ closed' = closed
            BY <2>2 DEF InsertFails, ReceiveError
        <3>. QED
            BY <2>0, <3>1 DEF Listening, CountInv
    <2>. QED
        BY <1>5, <2>1, <2>2
<1>6. CASE Respond \/ Disconnect
    <2>1. /\ UNCHANGED <<embedding_chunks, pending, error, all_prompt, all_embedding, position>>
          /\ UNCHANGED <<entries, responses>>
          /\ pc' = "store" <=> pc = "store"
          /\ Listening' => Listening
          /\ closed' \in BOOLEAN /\ error' \in BOOLEAN
          /\ pc' = "done" => pending = {}
        BY <1>6 DEF Respond, Disconnect, splitVars, windowVars, Listening, CountInv
    <2>2. Got' = Got /\ chunk_sz(all_embedding)' = chunk_sz(all_embedding)
        BY <2>1 DEF Got, Those, chunk_sz
    <2>3. Ended => Ended'
        BY <1>6, <2>1 DEF Ended, Respond, Disconnect
    <2>. QED
        BY <2>1, <2>2, <2>3 DEF CountInv
<1>. QED
    BY <1>1, <1>2, <1>3, <1>4, <1>5, <1>6 DEF Next, Work, Faults

\* The prompt and its rows, when all results are in and there is one prompt.
LEMMA OnePrompt ==
    ASSUME SplitInv, WindowInv, CountInv, Len(input) = 1, pc = "done", error = FALSE, closed = FALSE
    PROVE  /\ position + Len(all_embedding) = input[1]
           /\ chunk_sz(all_embedding) = 0 \/ Ended
           /\ input[1] <= IDEAL => Len(embedding_chunks) = 1
<1> DEFINE c == embedding_chunks
<1>1. /\ position + Len(all_embedding) = Len(Got) /\ pending = {}
      /\ Len(all_embedding) <= Len(all_prompt) => chunk_sz(all_embedding) = 0 \/ Ended
    BY DEF CountInv, Listening
<1>2. c \in Seq(Stream) /\ n_split = 1 /\ FlattenSeq(c) = FlattenSeq(PromptsOf(input, 1))
    BY DEF SplitInv
<1>3. Got = FlattenSeq(c)
    <2>1. DOMAIN c \ pending = DOMAIN c
        BY <1>1
    <2>. QED
        BY <1>2, <2>1, ThoseAll DEF Got
<1>4. FlattenSeq(PromptsOf(input, 1)) = Span(1, 0, input[1])
    <2>1. input \in Seq(Nat \ {0})
        BY InputFacts DEF SplitInv
    <2>2. 0 \in 0..(Len(input) - 1) /\ 0 + 1 = 1
        OBVIOUS
    <2>3. /\ Span(0 + 1, 0, input[0 + 1]) \in Seq(Tok)
          /\ FlattenSeq(PromptsOf(input, 0 + 1)) =
                FlattenSeq(PromptsOf(input, 0)) \o Span(0 + 1, 0, input[0 + 1])
        BY <2>1, <2>2, PromptsStep
    <2>4. PromptsOf(input, 0) = <<>>
        BY DEF PromptsOf
    <2>5. FlattenSeq(PromptsOf(input, 0)) = <<>>
        BY <2>4, FlattenEmpty, Zenon
    <2>. QED
        BY <2>2, <2>3, <2>5, ConcatEmptySeq
<1>5. /\ input[1] \in Nat /\ position \in Nat /\ position <= input[1]
      /\ Len(all_prompt) = input[1] - position /\ Len(all_embedding) \in Nat
    BY Placed, LenProperties DEF WindowInv
<1>6. Len(Span(1, 0, input[1])) = input[1]
    <2>1. 1 \in Nat /\ 0 \in Nat /\ 0 <= input[1] /\ input[1] - 0 = input[1]
        BY <1>5
    <2>. QED
        BY <1>5, <2>1, SpanType
<1>7. position + Len(all_embedding) = input[1]
    BY <1>1, <1>2, <1>3, <1>4, <1>6
<1>8. Len(all_embedding) <= Len(all_prompt)
    BY <1>5, <1>7
<1>. QED
    BY <1>1, <1>2, <1>7, <1>8 DEF SplitInv

\* An ingestion that is answered without an error stored its prompt, and lists what it
\* stored, for any sizes of prompts, streams and windows, any number of slots and
\* whatever order the results arrived in.
THEOREM WholePromptStored == Spec => []PromptStored
<1>1. SplitInv /\ WindowInv /\ CountInv => PromptStored
    <2> SUFFICES ASSUME SplitInv, WindowInv, CountInv, pc = "done", ~error, ~closed
                 PROVE  /\ responses = [i \in DOMAIN entries |->
                              <<Head(entries[i].contents)[2], Len(entries[i].contents)>>]
                        /\ Len(input) = 1 =>
                              IF input[1] <= IDEAL THEN Covered = input[1]
                              ELSE Covered \in (input[1] - STEP + 1)..input[1]
        BY DEF PromptStored
    <2>1. error = FALSE /\ closed = FALSE
        BY Zenon DEF CountInv
    <2>2. EntriesOK
        BY DEF WindowInv
    <2>3. responses = [i \in DOMAIN entries |->
                          <<Head(entries[i].contents)[2], Len(entries[i].contents)>>]
        <3>1. /\ Len(entries) \in Nat /\ DOMAIN entries = 1..Len(entries)
              /\ DOMAIN responses = 1..Len(entries)
              /\ responses = [i \in DOMAIN responses |-> responses[i]]
            BY <2>2, LenProperties DEF EntriesOK
        <3>2. ASSUME NEW i \in 1..Len(entries)
              PROVE  responses[i] = <<Head(entries[i].contents)[2], Len(entries[i].contents)>>
            BY <2>2, EntryEnds
        <3>. QED
            BY <3>1, <3>2
    <2>4. ASSUME Len(input) = 1
          PROVE  IF input[1] <= IDEAL THEN Covered = input[1]
                 ELSE Covered \in (input[1] - STEP + 1)..input[1]
        <3> DEFINE L == Len(all_embedding)
                   n == Len(entries)
        <3>1. /\ position + L = input[1] /\ (chunk_sz(all_embedding) = 0 \/ Ended)
              /\ input[1] <= IDEAL => Len(embedding_chunks) = 1
            BY <2>1, <2>4, OnePrompt
        <3>2. /\ input[1] \in Nat /\ input[1] > 0 /\ position \in Nat
              /\ all_embedding \in Seq(Tok) /\ L \in Nat
            BY Placed, LenProperties DEF WindowInv
        <3>3. /\ Len(responses) = n /\ n \in Nat /\ (entries # <<>> => n > 0)
              /\ Last(entries) = entries[n]
            BY <2>2, LenProperties, EmptySeq DEF EntriesOK, Last
        <3>4. ASSUME entries # <<>>
              PROVE  /\ Covered = responses[n][1] + responses[n][2]
                     /\ responses[n][1] + responses[n][2] <= input[1]
            <4>1. n \in 1..n
                BY <3>3, <3>4
            <4>2. /\ Last(entries[n].contents)[2] = responses[n][1] + responses[n][2] - 1
                  /\ responses[n][1] \in Nat /\ responses[n][2] \in Nat
                BY <2>2, <4>1, EntryEnds
            <4>3. responses[n][1] + responses[n][2] <= input[1]
                BY <2>2, <4>1 DEF EntriesOK
            <4>4. Covered = (responses[n][1] + responses[n][2] - 1) + 1
                BY <3>3, <3>4, <4>2 DEF Covered
            <4>. QED
                BY <4>2, <4>3, <4>4
        <3>5. CASE Ended
            <4>1. entries # <<>> /\ responses[n] = <<position, L>>
                BY <3>3, <3>5 DEF Ended
            <4>2. responses[n][1] = position /\ responses[n][2] = L
                BY <4>1
            <4>3. Covered = input[1]
                BY <3>1, <3>4, <4>1, <4>2
            <4>. QED
                BY <3>2, <4>3, Sizes
        <3>6. CASE chunk_sz(all_embedding) = 0 /\ ~Ended
            <4>1. /\ L < CHUNK
                  /\ input[1] <= IDEAL => L = 0
                BY <3>1, <3>2, <3>6, ChunkSize, Sizes
            <4>2. entries # <<>>
                <5>1. SUFFICES ASSUME entries = <<>> PROVE FALSE
                    OBVIOUS
                <5>2. position = 0
                    BY <5>1 DEF WindowInv
                <5> HIDE DEF L
                <5>. QED
                    BY <3>1, <3>2, <4>1, <5>2, Sizes
            <4>3. responses[n] = <<position - STEP, CHUNK>>
                BY <3>3, <3>6, <4>2 DEF WindowInv, Moved
            <4>4. responses[n][1] = position - STEP /\ responses[n][2] = CHUNK
                BY <4>3
            <4>5. (position - STEP) + CHUNK = position + OVERLAP
                BY <3>2, Sizes
            <4>6. Covered = position + OVERLAP /\ position + OVERLAP <= input[1]
                BY <3>4, <4>2, <4>4, <4>5
            <4> HIDE DEF L
            <4>. QED
                BY <3>1, <3>2, <4>1, <4>6, Sizes
        <3>. QED
            BY <3>1, <3>5, <3>6
    <2>. QED
        BY <2>3, <2>4
<1>. QED
    BY <1>1, CountInit, CountNext, ChunkingInvariant, PTL DEF Spec

-----------------------------------------------------------------------------
(* One slot: the rows are those of the tokens.                             *)

\* Where the elements of a text are in the texts put together.
LEMMA FlattenAt ==
    ASSUME NEW T, NEW s \in Seq(Seq(T)), NEW n \in 1..Len(s), NEW j \in 1..Len(s[n])
    PROVE  FlattenSeq(s)[Len(FlattenSeq(SubSeq(s, 1, n - 1))) + j] = s[n][j]
<1> DEFINE a == SubSeq(s, 1, n - 1)
           b == SubSeq(s, 1, n)
           r == SubSeq(s, n + 1, Len(s))
           e == s[n]
<1>1. a \in Seq(Seq(T)) /\ e \in Seq(T) /\ b = Append(a, e) /\ Len(s) \in Nat
    BY FrontAndLast, LenProperties
<1>2. b \in Seq(Seq(T)) /\ r \in Seq(Seq(T))
    <2>1. (\A i \in 1..n : s[i] \in Seq(T)) /\ (\A i \in (n + 1)..Len(s) : s[i] \in Seq(T))
        BY <1>1, ElementOfSeq
    <2>. QED
        BY <1>1, <2>1, SubSeqProperties
<1>3. s = b \o r
    <2>1. 1 \in 1..(Len(s) + 1) /\ n \in (1 - 1)..Len(s) /\ Len(s) \in n..Len(s)
        BY <1>1
    <2>2. b \o r = SubSeq(s, 1, Len(s))
        BY <2>1, ConcatAdjacentSubSeq
    <2>. QED
        BY <2>2, SubSeqFull
<1> DEFINE A == FlattenSeq(a)
           B == FlattenSeq(b)
           R == FlattenSeq(r)
<1> HIDE DEF a, b, r, e
<1>4. /\ A \in Seq(T) /\ B \in Seq(T) /\ R \in Seq(T)
      /\ B = A \o e /\ FlattenSeq(s) = B \o R
    BY <1>1, <1>2, <1>3, FlattenType, FlattenAppend, FlattenConcat
<1> HIDE DEF A, B, R
<1>5. /\ Len(A) \in Nat /\ Len(e) \in Nat /\ Len(R) \in Nat /\ Len(B) = Len(A) + Len(e)
    BY <1>1, <1>4, ConcatProperties, LenProperties
<1> DEFINE i == Len(A) + j
<1>6. j \in 1..Len(e)
    BY DEF e
<1>7. /\ i \in 1..(Len(A) + Len(e)) /\ ~(i <= Len(A)) /\ i - Len(A) = j
      /\ i \in 1..(Len(B) + Len(R)) /\ i <= Len(B)
    BY <1>5, <1>6
<1> HIDE DEF i
<1>8. B[i] = e[j]
    BY <1>1, <1>4, <1>7, ConcatProperties
<1>9. FlattenSeq(s)[i] = B[i]
    BY <1>4, <1>7, ConcatProperties
<1>. QED
    BY <1>8, <1>9 DEF i, A, a, e

\* The tokens of the streams that are of the first prompt.
LEMMA PromptToken ==
    ASSUME SplitInv, pc # "split",
           NEW k \in 1..Len(embedding_chunks), NEW j \in 1..Len(embedding_chunks[k]),
           NEW p, p = Len(FlattenSeq(SubSeq(embedding_chunks, 1, k - 1))) + j, p <= input[1]
    PROVE  embedding_chunks[k][j] = <<1, p - 1>>
<1> DEFINE c == embedding_chunks
           P == PromptsOf(input, n_split)
           X == FlattenSeq(c)
<1>1. /\ c \in Seq(Stream) /\ input \in Inputs /\ n_split = Len(input) /\ X = FlattenSeq(P)
    BY DEF SplitInv
<1>2. c \in Seq(Seq(Tok)) /\ input \in Seq(Nat \ {0}) /\ n_split \in Nat \ {0}
    BY <1>1, StreamsType, InputFacts
<1>3. X[p] = c[k][j]
    BY <1>2, FlattenAt
<1>4. /\ P \in Seq(Seq(Tok)) /\ 1 \in 1..Len(P) /\ P[1] = Span(1, 0, input[1])
    <2>1. \A q \in 1..n_split : Span(q, 0, input[q]) \in Seq(Tok)
        <3> TAKE q \in 1..n_split
        <3>1. q \in Nat /\ 0 \in Nat /\ input[q] \in Nat /\ 0 <= input[q]
            BY <1>1, <1>2, InputFacts
        <3>. QED
            BY <3>1, SpanType, Zenon
    <2> DEFINE n == n_split
    <2>2. P \in [1..n -> Seq(Tok)] /\ n \in Nat /\ 1 \in 1..n
        BY <1>2, <2>1 DEF PromptsOf
    <2>3. P[1] = Span(1, 0, input[1])
        BY <2>2 DEF PromptsOf
    <2> HIDE DEF P, n
    <2>4. P \in Seq(Seq(Tok)) /\ Len(P) = n
        BY <2>2, FunctionIsSeq
    <2>. QED
        BY <2>2, <2>3, <2>4
<1>5. input[1] \in Nat /\ p \in 1..input[1]
    <2>1. input[1] \in Nat
        BY <1>1, <1>2, InputFacts
    <2>2. Len(FlattenSeq(SubSeq(c, 1, k - 1))) \in Nat /\ Len(c[k]) \in Nat
        BY <1>2, FlattenLen
    <2> HIDE DEF c
    <2>. QED
        BY <2>1, <2>2 DEF c
<1>6. Len(P[1]) = input[1] /\ P[1][p] = <<1, p - 1>>
    <2>1. 1 \in Nat /\ 0 \in Nat /\ 0 <= input[1] /\ input[1] - 0 = input[1] /\ 0 + p - 1 = p - 1
        BY <1>5
    <2>2. /\ Len(Span(1, 0, input[1])) = input[1] - 0
          /\ \A i \in 1..(input[1] - 0) : Span(1, 0, input[1])[i] = <<1, 0 + i - 1>>
        BY <1>5, <2>1, SpanType
    <2>3. Span(1, 0, input[1])[p] = <<1, 0 + p - 1>>
        BY <1>5, <2>1, <2>2
    <2>. QED
        BY <1>4, <2>1, <2>2, <2>3
<1> HIDE DEF P
<1>7. FlattenSeq(P)[p] = P[1][p]
    <2>1. 1 - 1 = 0 /\ p \in 1..Len(P[1])
        BY <1>5, <1>6
    <2>2. FlattenSeq(P)[Len(FlattenSeq(SubSeq(P, 1, 1 - 1))) + p] = P[1][p]
        BY <1>4, <2>1, FlattenAt
    <2>3. Len(FlattenSeq(SubSeq(P, 1, 0))) = 0
        BY <1>4, FlattenNone
    <2>4. Len(FlattenSeq(SubSeq(P, 1, 1 - 1))) + p = p
        BY <1>5, <2>1, <2>3
    <2>. QED
        BY <2>2, <2>4
<1>. QED
    BY <1>1, <1>3, <1>6, <1>7

\* As long as results arrive in order, the next is that of the first pending task.
LEMMA FirstArrives ==
    ASSUME NEW k \in Nat, NEW n \in Nat, pending = (k + 1)..n, NEW t \in pending,
           ~\E u \in pending : u < t
    PROVE  t = k + 1
<1>1. t \in Nat /\ k + 1 <= t /\ t <= n
    OBVIOUS
<1>2. k + 1 \in pending
    BY <1>1
<1>. QED
    BY <1>1, <1>2

LEMMA OrderRows ==
    ASSUME SplitInv, WindowInv, OrderInv, NEW t \in pending, ReceiveRows(t),
           ~\E u \in pending : u < t
    PROVE  OrderInv'
<1> DEFINE c == embedding_chunks
           L == Len(all_embedding)
           rows == all_embedding \o c[t]
<1>1. /\ pc = "receive" /\ pending' = pending \ {t}
      /\ UNCHANGED <<input, embedding_chunks, position, entries, error>>
      /\ error = FALSE => all_embedding' = rows
    BY DEF ReceiveRows, splitVars
<1>2. VectorOfContents'
    BY <1>1 DEF OrderInv, VectorOfContents
<1>3. SUFFICES ASSUME error = FALSE
               PROVE  \E k \in 0..Len(embedding_chunks') : InOrder(k)'
    BY <1>1, <1>2 DEF OrderInv
<1>4. c \in Seq(Stream) /\ Len(c) \in Nat /\ c \in Seq(Seq(Tok))
    <2>1. c \in Seq(Stream)
        BY DEF SplitInv
    <2>. QED
        BY <2>1, StreamsType
<1>5. PICK k \in 0..Len(c) : InOrder(k)
    BY <1>1, <1>3 DEF OrderInv
<1>6. k \in Nat /\ pending = (k + 1)..Len(c)
    BY <1>4, <1>5 DEF InOrder
<1>7. t = k + 1 /\ t \in 1..Len(c) /\ t - 1 = k
    <2>1. t = k + 1
        BY <1>4, <1>6, FirstArrives
    <2>. QED
        BY <1>4, <1>6, <2>1
<1> DEFINE F == Len(FlattenSeq(SubSeq(c, 1, k)))
           e == c[t]
<1>8. /\ F \in Nat /\ Len(e) \in Nat /\ e \in Seq(Tok)
      /\ Len(FlattenSeq(SubSeq(c, 1, t))) = F + Len(e)
    <2>1. /\ Len(FlattenSeq(SubSeq(c, 1, t - 1))) \in Nat /\ Len(e) \in Nat
          /\ Len(FlattenSeq(SubSeq(c, 1, t))) = Len(FlattenSeq(SubSeq(c, 1, t - 1))) + Len(e)
        BY <1>4, <1>7, FlattenLen
    <2>2. e \in Seq(Tok)
        BY <1>4, <1>7, StreamsType
    <2>. QED
        BY <1>7, <2>1, <2>2
<1>9. /\ position + L = F /\ L \in Nat /\ position \in Nat /\ all_embedding \in Seq(Tok)
      /\ input[1] \in Nat
      /\ \A i \in 1..L : position + i <= input[1] => all_embedding[i] = <<1, position + i - 1>>
    BY <1>5, Placed, LenProperties DEF InOrder, WindowInv
<1>10. ASSUME NEW j \in 1..Len(e), F + j <= input[1]
       PROVE  e[j] = <<1, (F + j) - 1>>
    <2>1. pc # "split"
        BY <1>1
    <2> DEFINE p == F + j
    <2>2. p = Len(FlattenSeq(SubSeq(c, 1, t - 1))) + j
        BY <1>7
    <2>3. p <= input[1]
        BY <1>10
    <2> HIDE DEF p
    <2>4. e[j] = <<1, p - 1>>
        BY <1>7, <2>1, <2>2, <2>3, PromptToken
    <2>. QED
        BY <2>4 DEF p
<1>11. /\ Len(rows) = L + Len(e)
       /\ \A i \in 1..(L + Len(e)) : rows[i] = IF i <= L THEN all_embedding[i] ELSE e[i - L]
    BY <1>8, <1>9, ConcatProperties
<1>12. all_embedding' = rows
    BY <1>1, <1>3
<1> HIDE DEF rows, F, L, e
<1>13. ASSUME NEW i \in 1..Len(all_embedding'), position + i <= input[1]
       PROVE  all_embedding'[i] = <<1, position + i - 1>>
    <2>0. i \in 1..(L + Len(e)) /\ i \in Nat
        BY <1>8, <1>9, <1>11, <1>12
    <2>1. CASE i <= L
        <3>1. i \in 1..L /\ rows[i] = all_embedding[i]
            BY <1>9, <1>11, <2>0, <2>1
        <3>. QED
            BY <1>9, <1>12, <1>13, <3>1
    <2>2. CASE ~(i <= L)
        <3>0. /\ i \in Nat /\ L \in Nat /\ F \in Nat /\ Len(e) \in Nat /\ position \in Nat
              /\ i <= L + Len(e) /\ position + L = F
            BY <1>8, <1>9, <2>0
        <3>1. i - L \in 1..Len(e) /\ F + (i - L) = position + i
            BY <2>2, <3>0
        <3>2. rows[i] = e[i - L]
            BY <1>11, <2>0, <2>2
        <3>3. e[i - L] = <<1, (F + (i - L)) - 1>>
            BY <1>10, <1>13, <3>1
        <3>4. (F + (i - L)) - 1 = position + i - 1
            BY <1>8, <1>9, <2>0
        <3>. QED
            BY <1>12, <3>2, <3>3, <3>4, Zenon
    <2>. QED
        BY <2>1, <2>2
<1>14. position + Len(all_embedding') = Len(FlattenSeq(SubSeq(c, 1, t)))
    BY <1>8, <1>9, <1>11, <1>12
<1>15. pending' = (t + 1)..Len(c) /\ t \in 0..Len(c)
    BY <1>1, <1>4, <1>6, <1>7
<1>16. InOrder(t)'
    BY <1>1, <1>13, <1>14, <1>15 DEF InOrder
<1>. QED
    BY <1>1, <1>15, <1>16

LEMMA OrderInsert ==
    ASSUME SplitInv, WindowInv, OrderInv, InsertEntry
    PROVE  OrderInv'
<1> DEFINE L == Len(all_embedding)
           sz == chunk_sz(all_embedding)
<1>1. /\ pc = "store" /\ error = FALSE /\ UNCHANGED <<input, embedding_chunks, pending, error>>
      /\ entries' = Append(entries, Entry) /\ all_embedding \in Seq(Tok)
      /\ entries \in Seq([vector : Seq(Tok), contents : Seq(Tok)])
    BY DEF InsertEntry, Stored, WindowInv, EntriesOK, splitVars
<1>2. PICK k \in 0..Len(embedding_chunks) : InOrder(k)
    BY <1>1 DEF OrderInv
<1>3. /\ pending = (k + 1)..Len(embedding_chunks)
      /\ position + L = Len(FlattenSeq(SubSeq(embedding_chunks, 1, k)))
      /\ \A i \in 1..L : position + i <= input[1] => all_embedding[i] = <<1, position + i - 1>>
    BY <1>2 DEF InOrder
<1>4. position \in Nat /\ input[1] \in Nat
    BY Placed
<1>5. /\ sz \in Nat /\ sz > 0 /\ sz <= L /\ position + sz <= input[1] /\ L \in Nat
      /\ Entry \in [vector : Seq(Tok), contents : Seq(Tok)]
      /\ Entry.contents = Span(1, position, position + sz)
      /\ Entry.vector = SubSeq(all_embedding, 1, sz)
    BY <1>1, EntryFacts
<1> HIDE DEF L, sz
<1>6. Entry.vector = Entry.contents
    <2> DEFINE v == SubSeq(all_embedding, 1, sz)
               w == Span(1, position, position + sz)
    <2>1. v \in Seq(Tok) /\ Len(v) = sz /\ \A i \in 1..sz : v[i] = all_embedding[i]
        <3>1. 1 \in Int /\ sz \in Int /\ 1 <= sz /\ sz - 1 + 1 = sz
            BY <1>5
        <3>2. \A i \in 1..sz : all_embedding[i] \in Tok
            BY <1>1, <1>5, ElementOfSeq DEF L
        <3>3. /\ v \in Seq(Tok) /\ Len(v) = IF 1 <= sz THEN sz - 1 + 1 ELSE 0
              /\ \A i \in 1..(sz - 1 + 1) : v[i] = all_embedding[1 + i - 1]
            BY <3>1, <3>2, SubSeqProperties
        <3> HIDE DEF v
        <3>. QED
            BY <3>1, <3>3
    <2>2. w \in Seq(Tok) /\ Len(w) = sz
        <3>1. 1 \in Nat /\ position + sz \in Nat /\ position <= position + sz
              /\ (position + sz) - position = sz
            BY <1>4, <1>5
        <3>2. w \in Seq(Tok)
            BY <1>4, <3>1, SpanType
        <3>3. Len(w) = sz
            BY <1>4, <3>1, SpanType
        <3>. QED
            BY <3>2, <3>3
    <2>3. ASSUME NEW i \in 1..sz PROVE v[i] = w[i]
        <3>1. i \in 1..L /\ position + i <= input[1] /\ i \in 1..((position + sz) - position)
            BY <1>4, <1>5
        <3>2. w[i] = <<1, position + i - 1>>
            BY <3>1 DEF Span
        <3>3. all_embedding[i] = <<1, position + i - 1>>
            BY <1>3, <3>1
        <3> HIDE DEF v, w
        <3>. QED
            BY <2>1, <3>2, <3>3, Zenon
    <2> HIDE DEF v, w
    <2>4. v = w
        BY <2>1, <2>2, <2>3, SeqEqual
    <2>. QED
        BY <1>5, <2>4 DEF v, w
<1>7. VectorOfContents'
    <2> DEFINE E == [vector : Seq(Tok), contents : Seq(Tok)]
               n == Len(entries)
    <2>1. entries \in Seq(E) /\ Entry \in E
        BY <1>1, <1>5
    <2> HIDE DEF E
    <2>2. /\ n \in Nat /\ DOMAIN entries = 1..n /\ DOMAIN entries' = 1..(n + 1)
          /\ entries'[n + 1] = Entry /\ \A i \in 1..n : entries'[i] = entries[i]
        BY <1>1, <2>1, AppendProperties, LenProperties
    <2> HIDE DEF n
    <2>3. ASSUME NEW i \in 1..(n + 1) PROVE entries'[i].vector = entries'[i].contents
        <3>1. CASE i \in 1..n
            BY <2>2, <3>1 DEF OrderInv, VectorOfContents
        <3>2. CASE i = n + 1
            BY <1>6, <2>2, <3>2
        <3>. QED
            BY <2>2, <3>1, <3>2
    <2>. QED
        BY <2>2, <2>3 DEF VectorOfContents
<1>8. InOrder(k)'
    <2>1. CASE is_last_block
        <3>1. UNCHANGED <<all_embedding, position>>
            BY <2>1 DEF InsertEntry
        <3>. QED
            BY <1>1, <1>2, <3>1 DEF InOrder
    <2>2. CASE ~is_last_block
        <3>1. position' = position + STEP /\ all_embedding' = SubSeq(all_embedding, STEP + 1, L)
            BY <2>2 DEF InsertEntry, Advance, L
        <3>2. STEP + 1 <= L /\ STEP \in Nat
            BY <1>5, <2>2, Sizes DEF is_last_block, L
        <3>3. /\ Len(all_embedding') = L - STEP
              /\ \A i \in 1..(L - STEP) : all_embedding'[i] = all_embedding[STEP + i]
            <4>1. \A i \in (STEP + 1)..L : all_embedding[i] \in Tok
                BY <1>1, <1>5, <3>2, ElementOfSeq DEF L
            <4>2. STEP + 1 \in Int /\ L \in Int /\ L - (STEP + 1) + 1 = L - STEP
                BY <1>5, <3>2
            <4> DEFINE v == SubSeq(all_embedding, STEP + 1, L)
            <4>3. /\ Len(v) = IF STEP + 1 <= L THEN L - (STEP + 1) + 1 ELSE 0
                  /\ \A i \in 1..(L - (STEP + 1) + 1) : v[i] = all_embedding[(STEP + 1) + i - 1]
                BY <4>1, <4>2, SubSeqProperties
            <4> HIDE DEF v
            <4>4. \A i \in 1..(L - STEP) : (STEP + 1) + i - 1 = STEP + i
                BY <3>2
            <4>5. Len(v) = L - STEP /\ \A i \in 1..(L - STEP) : v[i] = all_embedding[STEP + i]
                BY <3>2, <4>2, <4>3, <4>4
            <4>. QED
                BY <3>1, <4>5 DEF v
        <3>4. position' + Len(all_embedding') = position + L
            BY <1>4, <1>5, <3>1, <3>2, <3>3
        <3>5. ASSUME NEW i \in 1..Len(all_embedding'), position' + i <= input[1]
              PROVE  all_embedding'[i] = <<1, position' + i - 1>>
            <4>1. i \in 1..(L - STEP) /\ STEP + i \in 1..L /\ position + (STEP + i) = position' + i
                BY <1>4, <1>5, <3>1, <3>2, <3>3
            <4> DEFINE m == STEP + i
            <4>2. m \in 1..L /\ position + m <= input[1] /\ position + m - 1 = position' + i - 1
                <5>1. i \in Nat /\ position' \in Nat
                    BY <1>4, <1>5, <3>1, <3>2, <4>1
                <5>. QED
                    BY <1>4, <3>1, <3>2, <3>5, <4>1, <5>1
            <4>3. all_embedding[m] = <<1, position + m - 1>>
                <5> HIDE DEF m
                <5>. QED
                    BY <1>3, <4>2
            <4>. QED
                BY <3>3, <4>1, <4>2, <4>3, Zenon
        <3>. QED
            BY <1>1, <1>3, <3>4, <3>5 DEF InOrder
    <2>. QED
        BY <2>1, <2>2
<1>. QED
    BY <1>1, <1>7, <1>8 DEF OrderInv

LEMMA OrderNext ==
    ASSUME SplitInv, WindowInv, OrderInv, [Next]_vars, ~overtaken'
    PROVE  OrderInv'
<1>1. CASE UNCHANGED vars \/ Finished
    BY <1>1 DEF vars, windowVars, splitVars, Finished, OrderInv, InOrder, VectorOfContents
<1>2. CASE ShortPrompt \/ CutTail \/ CutStep \/ CutHead \/ PostTasks
    BY <1>2 DEF ShortPrompt, CutTail, CutStep, CutHead, PostTasks, Splitting, windowVars, OrderInv,
                VectorOfContents
<1>3. CASE Posted
    <2>1. /\ pending' = DOMAIN embedding_chunks /\ all_embedding = <<>> /\ position = 0
          /\ UNCHANGED <<input, embedding_chunks, position, all_embedding, entries>>
        BY <1>3 DEF Posted, WindowInv, splitVars, windowVars
    <2>2. /\ embedding_chunks \in Seq(Stream) /\ Len(embedding_chunks) \in Nat
          /\ DOMAIN embedding_chunks = 1..Len(embedding_chunks)
        BY StreamsType DEF SplitInv
    <2>3. Len(FlattenSeq(SubSeq(embedding_chunks, 1, 0))) = 0 /\ Len(all_embedding) = 0
        BY <2>1, <2>2, FlattenNone, EmptySeq
    <2>4. InOrder(0)' /\ 0 \in 0..Len(embedding_chunks')
        BY <2>1, <2>2, <2>3 DEF InOrder
    <2>. QED
        BY <2>1, <2>4 DEF OrderInv, VectorOfContents
<1>4. CASE \E t \in pending : ReceiveRows(t)
    <2>1. PICK t \in pending : ReceiveRows(t)
        BY <1>4
    <2>2. overtaken' = (overtaken \/ \E u \in pending : u < t)
        BY <2>1 DEF ReceiveRows
    <2>3. ~\E u \in pending : u < t
        BY <2>2
    <2>. QED
        BY <2>1, <2>3, OrderRows
<1>5. CASE InsertEntry
    BY <1>5, OrderInsert
<1>6. CASE ReceiveClosed \/ Respond \/ InsertFails \/ \E t \in pending : ReceiveError(t)
    <2>1. (pc' = "done" \/ error' = TRUE) /\ entries' = entries
        BY <1>6 DEF ReceiveClosed, Respond, InsertFails, ReceiveError, windowVars
    <2>. QED
        BY <2>1 DEF OrderInv, VectorOfContents
<1>7. CASE Disconnect
    BY <1>7 DEF Disconnect, splitVars, windowVars, OrderInv, InOrder, VectorOfContents
<1>. QED
    BY <1>1, <1>2, <1>3, <1>4, <1>5, <1>6, <1>7 DEF Next, Work, Faults

\* overtaken is never reset.
LEMMA OvertakenStays ==
    ASSUME [Next]_vars, ~overtaken'
    PROVE  ~overtaken
<1>1. CASE \E t \in pending : ReceiveRows(t)
    <2>1. PICK t \in pending : ReceiveRows(t)
        BY <1>1
    <2>2. overtaken' = (overtaken \/ \E u \in pending : u < t)
        BY <2>1 DEF ReceiveRows
    <2>. QED
        BY <2>2
<1>2. CASE ~\E t \in pending : ReceiveRows(t)
    <2>1. overtaken' = overtaken
        BY <1>2 DEF Next, Work, Faults, ShortPrompt, CutTail, CutStep, CutHead, PostTasks, Posted,
                    Splitting, ReceiveClosed, ReceiveError, InsertEntry, InsertFails, Respond,
                    Disconnect, Finished, vars
    <2>. QED
        BY <2>1
<1>. QED
    BY <1>1, <1>2

\* As long as no result overtook that of an earlier task, every vector that is stored was
\* computed from the tokens it is stored with, for any sizes of prompts, streams and
\* windows, and with tasks and inserts that fail.  Results do overtake each other, with
\* one slot too, and the handler does nothing to put them in order.
THEOREM VectorsMatchContents == Spec => []VectorsInOrder
<1> DEFINE Inv == ~overtaken => OrderInv
<1>1. Init => Inv
    BY EmptySeq DEF Init, OrderInv, VectorOfContents
<1>2. SplitInv /\ WindowInv /\ Inv /\ [Next]_vars => Inv'
    BY OrderNext, OvertakenStays
<1>3. Inv => VectorsInOrder
    BY DEF OrderInv, VectorsInOrder
<1>. QED
    BY <1>1, <1>2, <1>3, ChunkingInvariant, PTL DEF Spec

=============================================================================

-------------------------- MODULE StreamTextProofs --------------------------
(***************************************************************************)
(* What a generation answers and what a stream passes on, for every text,  *)
(* every choice of stop words and however tokens cut the text.             *)
(*                                                                         *)
(* StopsAtFirst and StreamedText are about what was said as a whole;       *)
(* process_token looks only at what was not sent yet, and there only at    *)
(* what the last token can have completed.  Running says why that is       *)
(* enough: no stop word is in what was said, and none begins, complete or  *)
(* not, in what was sent.                                                  *)
(***************************************************************************)
EXTENDS StreamText, DequeTheorems

Byte == DOMAIN LeadSize

\* No piece ends a stop word and begins, but does not complete, a character: such a
\* text is not searched, and the word is missed.
NoneRunPast ==
    \A piece \in Pieces : \A W \in StopWords : \A w \in W : \A i \in 1..Len(piece) :
        (\A k \in 1..Smaller(i, Len(w)) : piece[i + 1 - k] = w[Len(w) + 1 - k])
            => Whole(From(piece, i))

-----------------------------------------------------------------------------
(* The invariant.                                                          *)

\* Where stop words are in s.
Words(s) == UNION {Occurrences(w, s) : w \in antiprompt}

\* From p on, s is the word w, or the beginning of it.
BeginsAt(w, s, p) == \A k \in 1..Smaller(Len(w), Len(s) - p) : s[p + k] = w[k]

Running ==
    /\ generated_text = said /\ cut = FALSE /\ stop = "none"
    /\ n_sent_text = Len(sent) /\ Len(sent) <= Len(said)
    /\ sent = Upto(said, Len(sent)) /\ Whole(sent)
    /\ Words(said) = {}
    /\ \A w \in antiprompt : \A p \in 0..(Len(sent) - 1) : ~BeginsAt(w, said, p)

TextInv ==
    /\ antiprompt \in StopWords /\ has_next_token \in BOOLEAN
    /\ said \in Seq(Byte) /\ WellFormed(said)
    /\ has_next_token => Running
    /\ StopsAtFirst /\ StreamedText

-----------------------------------------------------------------------------
(* Texts, their beginnings and their ends.                                 *)

LEMMA UptoFacts ==
    ASSUME NEW S, NEW s \in Seq(S), NEW p \in 0..Len(s)
    PROVE  /\ Upto(s, p) \in Seq(S) /\ Len(Upto(s, p)) = p
           /\ \A i \in 1..p : Upto(s, p)[i] = s[i]
<1>1. Len(s) \in Nat /\ p \in Nat /\ p <= Len(s)
    BY LenProperties
<1>2. \A i \in 1..p : s[i] \in S
    BY <1>1, ElementOfSeq
<1> DEFINE u == SubSeq(s, 1, p)
<1>3. /\ u \in Seq(S) /\ Len(u) = IF 1 <= p THEN p - 1 + 1 ELSE 0
      /\ \A i \in 1..(p - 1 + 1) : u[i] = s[1 + i - 1]
    BY <1>1, <1>2, SubSeqProperties
<1> HIDE DEF u
<1>4. u \in Seq(S) /\ Len(u) = p /\ \A i \in 1..p : u[i] = s[i]
    BY <1>1, <1>3
<1>. QED
    BY <1>4 DEF Upto, u

LEMMA FromFacts ==
    ASSUME NEW S, NEW s \in Seq(S), NEW p \in 0..Len(s)
    PROVE  /\ From(s, p) \in Seq(S) /\ Len(From(s, p)) = Len(s) - p
           /\ \A i \in 1..(Len(s) - p) : From(s, p)[i] = s[p + i]
<1> DEFINE n == Len(s)
<1>1. n \in Nat /\ p \in Nat /\ p <= n
    BY LenProperties
<1>2. \A i \in (p + 1)..n : s[i] \in S
    BY <1>1, ElementOfSeq
<1> HIDE DEF n
<1> DEFINE u == SubSeq(s, p + 1, n)
<1>3. /\ u \in Seq(S) /\ Len(u) = IF p + 1 <= n THEN n - (p + 1) + 1 ELSE 0
      /\ \A i \in 1..(n - (p + 1) + 1) : u[i] = s[(p + 1) + i - 1]
    <2>1. p + 1 \in Int /\ n \in Int
        BY <1>1
    <2>. QED
        BY <1>2, <2>1, SubSeqProperties
<1> HIDE DEF u
<1>4. u \in Seq(S) /\ Len(u) = n - p /\ \A i \in 1..(n - p) : u[i] = s[p + i]
    <2>1. n - (p + 1) + 1 = n - p /\ (\A i \in 1..(n - p) : (p + 1) + i - 1 = p + i)
        BY <1>1
    <2>. QED
        BY <1>1, <1>3, <2>1
<1>. QED
    BY <1>4 DEF From, u, n

\* A text is its beginning and the rest.
LEMMA UptoFrom ==
    ASSUME NEW S, NEW s \in Seq(S), NEW p \in 0..Len(s)
    PROVE  Upto(s, p) \o From(s, p) = s
<1>1. Len(s) \in Nat
    BY LenProperties
<1>2. 1 \in 1..(Len(s) + 1) /\ p \in (1 - 1)..Len(s) /\ Len(s) \in p..Len(s)
    BY <1>1
<1>3. SubSeq(s, 1, p) \o SubSeq(s, p + 1, Len(s)) = SubSeq(s, 1, Len(s))
    BY <1>2, ConcatAdjacentSubSeq
<1>. QED
    BY <1>3, SubSeqFull DEF Upto, From

\* The text after one more piece.
LEMMA MoreText ==
    ASSUME NEW S, NEW s \in Seq(S), NEW e \in Seq(S)
    PROVE  /\ s \o e \in Seq(S) /\ Len(s) \in Nat /\ Len(e) \in Nat
           /\ Len(s \o e) = Len(s) + Len(e)
           /\ \A i \in 1..Len(s) : (s \o e)[i] = s[i]
           /\ \A i \in 1..Len(e) : (s \o e)[Len(s) + i] = e[i]
<1> DEFINE m == Len(s)
           n == Len(e)
           t == s \o e
<1>1. /\ t \in Seq(S) /\ Len(t) = m + n /\ m \in Nat /\ n \in Nat
      /\ \A i \in 1..(m + n) : t[i] = IF i <= m THEN s[i] ELSE e[i - m]
    BY ConcatProperties, LenProperties
<1> HIDE DEF m, n, t
<1>2. \A i \in 1..m : t[i] = s[i]
    BY <1>1
<1>3. ASSUME NEW i \in 1..n PROVE t[m + i] = e[i]
    <2>1. m + i \in 1..(m + n) /\ ~(m + i <= m) /\ (m + i) - m = i
        BY <1>1
    <2>. QED
        BY <1>1, <2>1
<1>. QED
    BY <1>1, <1>2, <1>3 DEF m, n, t

LEMMA LeadFacts ==
    ASSUME NEW b \in Byte
    PROVE  LeadSize[b] \in Nat /\ LeadSize[b] <= 4
<1>1. LeadSize[b] \in 0..4
    BY TextAssumption DEF Byte
<1>. QED
    BY <1>1

\* validate_utf8 looks at four bytes, and no character has more.
LEMMA ValidIsWhole ==
    ASSUME NEW s \in Seq(Byte)
    PROVE  validate_utf8(s) <=> Whole(s)
<1> DEFINE n == Len(s)
<1>1. n \in Nat /\ DOMAIN s = 1..n
    BY LenProperties
<1>2. \A i \in 1..n : LeadSize[s[i]] \in Nat /\ LeadSize[s[i]] <= 4
    BY ElementOfSeq, LeadFacts
<1> HIDE DEF n
<1>3. ASSUME validate_utf8(s), NEW i \in 1..n PROVE i + LeadSize[s[i]] <= n + 1
    <2>1. CASE n + 1 - i <= 4
        <3> DEFINE k == n + 1 - i
        <3>1. k \in 1..Smaller(4, n) /\ n + 1 - k = i
            BY <1>1, <2>1 DEF Smaller
        <3>2. LeadSize[s[n + 1 - k]] <= k
            <4> HIDE DEF k
            <4>. QED
                BY <1>3, <3>1 DEF validate_utf8, n
        <3>3. LeadSize[s[i]] <= n + 1 - i
            BY <3>1, <3>2
        <3>. QED
            BY <1>1, <1>2, <3>3
    <2>2. CASE ~(n + 1 - i <= 4)
        BY <1>1, <1>2, <2>2
    <2>. QED
        BY <2>1, <2>2
<1>4. ASSUME Whole(s), NEW i \in 1..Smaller(4, n) PROVE LeadSize[s[n + 1 - i]] <= i
    <2> DEFINE k == n + 1 - i
    <2>1. k \in 1..n /\ i \in Nat /\ i = n + 1 - k
        BY <1>1 DEF Smaller
    <2> HIDE DEF k
    <2>2. k + LeadSize[s[k]] <= n + 1
        BY <1>1, <1>4, <2>1 DEF Whole, n
    <2>3. LeadSize[s[k]] <= i
        BY <1>1, <1>2, <2>1, <2>2
    <2>. QED
        BY <2>3 DEF k
<1>. QED
    BY <1>1, <1>3, <1>4 DEF validate_utf8, Whole, n

\* What is said of an occurrence.
LEMMA OccurrenceFacts ==
    ASSUME NEW w \in Seq(Byte) \ {<<>>}, NEW s \in Seq(Byte)
    PROVE  /\ Len(w) \in Nat /\ Len(w) > 0 /\ Len(s) \in Nat
           /\ \A p : p \in Occurrences(w, s) <=>
                 /\ p \in Nat /\ p + Len(w) <= Len(s)
                 /\ \A k \in 1..Len(w) : s[p + k] = w[k]
<1>1. Len(w) \in Nat /\ Len(w) > 0 /\ Len(s) \in Nat
    BY EmptySeq, LenProperties
<1>2. \A p : p \in 0..(Len(s) - Len(w)) <=> p \in Nat /\ p + Len(w) <= Len(s)
    BY <1>1
<1>. QED
    BY <1>1, <1>2, Zenon DEF Occurrences

\* A stop word begins and ends with whole characters.
LEMMA WordFacts ==
    ASSUME antiprompt \in StopWords, NEW w \in antiprompt
    PROVE  /\ w \in Seq(Byte) \ {<<>>} /\ Len(w) \in Nat /\ Len(w) > 0
           /\ LeadSize[w[1]] # 0
           /\ \A i \in 1..Len(w) : i + LeadSize[w[i]] <= Len(w) + 1
<1>1. w \in Seq(Byte) \ {<<>>} /\ WellFormed(w) /\ Whole(w)
    BY TextAssumption DEF Byte
<1>2. Len(w) \in Nat /\ Len(w) > 0 /\ DOMAIN w = 1..Len(w)
    BY <1>1, EmptySeq, LenProperties
<1>3. LeadSize[w[1]] # 0
    <2>1. 1 \in DOMAIN w /\ ~\E j \in 1..(1 - 1) : 1 < j + LeadSize[w[j]]
        BY <1>2
    <2>. QED
        BY <1>1, <2>1 DEF WellFormed
<1>. QED
    BY <1>1, <1>2, <1>3 DEF Whole

LEMMA PieceFacts ==
    ASSUME TextInv, NEW piece \in Pieces
    PROVE  /\ piece \in Seq(Byte) /\ said \o piece \in Seq(Byte)
           /\ Len(said) \in Nat /\ Len(piece) \in Nat
           /\ Len(said \o piece) = Len(said) + Len(piece)
           /\ \A i \in 1..Len(said) : (said \o piece)[i] = said[i]
           /\ \A i \in 1..Len(piece) : (said \o piece)[Len(said) + i] = piece[i]
<1>1. piece \in Seq(Byte) /\ said \in Seq(Byte)
    BY TextAssumption DEF TextInv, Byte
<1>. QED
    BY <1>1, MoreText

\* A word that is there now was completed by the piece, and nothing of it was sent.
LEMMA NewWord ==
    ASSUME TextInv, Running, NEW piece \in Pieces, NEW w \in antiprompt,
           NEW p \in Occurrences(w, said \o piece)
    PROVE  /\ p \in Nat /\ Len(sent) \in Nat /\ p >= Len(sent)
           /\ p + Len(w) > Len(said) /\ p + Len(w) <= Len(said) + Len(piece)
           /\ \A k \in 1..Len(w) : (said \o piece)[p + k] = w[k]
<1> DEFINE text == said \o piece
           m == Len(said)
           l == Len(w)
           n == Len(sent)
<1>1. /\ text \in Seq(Byte) /\ m \in Nat /\ Len(piece) \in Nat /\ Len(text) = m + Len(piece)
      /\ \A i \in 1..m : text[i] = said[i]
    BY PieceFacts, Zenon
<1>2. w \in Seq(Byte) \ {<<>>} /\ l \in Nat /\ l > 0
    BY WordFacts DEF TextInv
<1> HIDE DEF text
<1>3. p \in Nat /\ p + l <= Len(text) /\ \A k \in 1..l : text[p + k] = w[k]
    BY <1>1, <1>2, OccurrenceFacts DEF text
<1>4. said \in Seq(Byte) /\ Words(said) = {} /\ n <= m
    BY DEF TextInv, Running
<1>5. n \in Nat
    <2>1. n \in 0..m
        <3>1. sent = Upto(said, Len(sent))
            BY DEF Running
        <3>2. sent = SubSeq(said, 1, Len(sent))
            BY <3>1 DEF Upto
        <3>. QED
            BY <1>1, <1>4, <3>2, LenProperties
    <2>. QED
        BY <2>1
<1>6. p + l > m
    <2>1. SUFFICES ASSUME p + l <= m PROVE FALSE
        BY <1>1, <1>2, <1>3
    <2>2. ASSUME NEW k \in 1..l PROVE said[p + k] = w[k]
        <3>1. p + k \in 1..m
            BY <1>1, <1>2, <1>3, <2>1
        <3>. QED
            BY <1>1, <1>3, <3>1
    <2>3. p \in Occurrences(w, said)
        BY <1>2, <1>3, <1>4, <2>1, <2>2, OccurrenceFacts
    <2>. QED
        BY <1>4, <2>3 DEF Words
<1>7. p >= n
    <2>1. SUFFICES ASSUME p < n PROVE FALSE
        BY <1>3, <1>5
    <2>2. p \in 0..(n - 1)
        BY <1>3, <1>5, <2>1
    <2>3. ~BeginsAt(w, said, p)
        BY <2>2 DEF Running
    <2>4. PICK k \in 1..Smaller(l, m - p) : said[p + k] # w[k]
        BY <2>3 DEF BeginsAt
    <2>5. k \in 1..l /\ p + k \in 1..m
        BY <1>1, <1>2, <1>3, <1>4, <1>5, <2>1 DEF Smaller
    <2>. QED
        BY <1>1, <1>3, <2>4, <2>5
<1>. QED
    BY <1>1, <1>3, <1>5, <1>6, <1>7 DEF text

\* What ends within the end of a piece ends within the text, and what ends within a
\* word in the text.
LEMMA EndsTogether ==
    ASSUME NEW m \in Nat, NEW n \in Nat, NEW i \in Nat, NEW j \in Nat, NEW z \in Nat,
           NEW e \in Nat, NEW q, q = e + j, m + i = e, j + z <= (n - i) + 1
    PROVE  q + z <= (m + n) + 1
OBVIOUS

LEMMA EndsBefore ==
    ASSUME NEW p \in Nat, NEW l \in Nat, NEW j \in Nat, NEW z \in Nat, NEW n \in Nat,
           NEW q, p + j = q, j + z <= l + 1, p + l <= n
    PROVE  q + z <= n + 1
OBVIOUS

\* In a text that ends within a character there is no stop word: neither the word nor
\* what follows it in the piece is incomplete, and what precedes it is complete.
LEMMA NoneInIncomplete ==
    ASSUME NoneRunPast, TextInv, Running, NEW piece \in Pieces,
           WellFormed(said \o piece), ~validate_utf8(said \o piece)
    PROVE  Words(said \o piece) = {}
<1> DEFINE text == said \o piece
           m == Len(said)
<1>1. SUFFICES ASSUME NEW w \in antiprompt, NEW p \in Occurrences(w, text) PROVE FALSE
    BY DEF Words
<1> DEFINE l == Len(w)
           i == p + l - m
<1>2. /\ text \in Seq(Byte) /\ m \in Nat /\ Len(piece) \in Nat /\ Len(text) = m + Len(piece)
      /\ piece \in Seq(Byte) /\ \A j \in 1..Len(piece) : text[m + j] = piece[j]
    BY PieceFacts, Zenon
<1>3. /\ w \in Seq(Byte) \ {<<>>} /\ l \in Nat /\ l > 0 /\ LeadSize[w[1]] # 0
      /\ \A j \in 1..l : j + LeadSize[w[j]] <= l + 1
    BY WordFacts DEF TextInv
<1>4. /\ p \in Nat /\ p + l > m /\ p + l <= m + Len(piece)
      /\ \A k \in 1..l : text[p + k] = w[k]
    BY NewWord
<1> HIDE DEF text, m, l
<1>5. i \in 1..Len(piece) /\ m + i = p + l
    BY <1>2, <1>3, <1>4
<1> HIDE DEF i
<1>6. Whole(From(piece, i))
    <2>1. ASSUME NEW k \in 1..Smaller(i, l) PROVE piece[i + 1 - k] = w[l + 1 - k]
        <3> DEFINE a == i + 1 - k
                   b == l + 1 - k
        <3>1. a \in 1..Len(piece) /\ b \in 1..l /\ m + a = p + b
            BY <1>2, <1>3, <1>4, <1>5 DEF Smaller
        <3> HIDE DEF a, b
        <3>2. text[m + a] = piece[a] /\ text[p + b] = w[b]
            BY <1>2, <1>4, <3>1
        <3>3. piece[a] = w[b]
            BY <3>1, <3>2
        <3>. QED
            BY <3>3 DEF a, b
    <2>2. antiprompt \in StopWords
        BY DEF TextInv
    <2>. QED
        BY <1>5, <2>1, <2>2 DEF NoneRunPast, l
<1>7. PICK q \in 1..Len(text) : q + LeadSize[text[q]] > Len(text) + 1 /\ LeadSize[text[q]] \in Nat
    <2>1. ~Whole(text)
        BY <1>2, ValidIsWhole DEF text
    <2>2. DOMAIN text = 1..Len(text) /\ Len(text) \in Nat
        BY <1>2, LenProperties
    <2>3. \A q \in 1..Len(text) : LeadSize[text[q]] \in Nat
        BY <1>2, ElementOfSeq, LeadFacts
    <2>. QED
        BY <2>1, <2>2, <2>3 DEF Whole
<1>8. CASE q > p + l
    <2> DEFINE r == From(piece, i)
               j == q - (p + l)
    <2>1. /\ r \in Seq(Byte) /\ Len(r) = Len(piece) - i
          /\ \A k \in 1..(Len(piece) - i) : r[k] = piece[i + k]
        BY <1>2, <1>5, FromFacts
    <2>2. DOMAIN r = 1..Len(r)
        BY <2>1, LenProperties
    <2> HIDE DEF r
    <2>3. j \in 1..(Len(piece) - i) /\ i + j \in 1..Len(piece) /\ m + (i + j) = q
        BY <1>2, <1>3, <1>4, <1>5, <1>7, <1>8
    <2>4. q = (p + l) + j
        BY <1>2, <1>3, <1>4, <1>7
    <2> HIDE DEF j
    <2>5. r[j] = text[q]
        BY <1>2, <2>1, <2>3
    <2>6. j + LeadSize[r[j]] <= (Len(piece) - i) + 1
        BY <1>6, <2>1, <2>2, <2>3 DEF Whole, r
    <2> DEFINE z == LeadSize[text[q]]
    <2>7. z \in Nat /\ q + z > Len(text) + 1 /\ j + z <= (Len(piece) - i) + 1
        BY <1>7, <2>5, <2>6
    <2>8. j \in Nat /\ i \in Nat /\ p + l \in Nat
        BY <1>3, <1>4, <1>5, <2>3
    <2> HIDE DEF z
    <2>9. q + z <= (m + Len(piece)) + 1
        BY <1>2, <1>5, <2>4, <2>7, <2>8, EndsTogether
    <2>. QED
        BY <1>2, <2>7, <2>9
<1>9. CASE q > p /\ q <= p + l
    <2> DEFINE j == q - p
    <2>1. j \in 1..l /\ p + j = q
        BY <1>3, <1>4, <1>7, <1>9
    <2> HIDE DEF j
    <2>2. text[q] = w[j] /\ j + LeadSize[w[j]] <= l + 1
        BY <1>3, <1>4, <2>1
    <2> DEFINE z == LeadSize[w[j]]
               n == Len(text)
    <2>3. q + z > n + 1 /\ z \in Nat /\ j + z <= l + 1 /\ j \in Nat
        BY <1>3, <1>7, <2>1, <2>2
    <2>4. n \in Nat /\ p + l <= n
        BY <1>2, <1>4
    <2> HIDE DEF z, n
    <2>. QED
        BY <1>3, <1>4, <2>1, <2>3, <2>4, EndsBefore
<1>10. CASE q <= p
    <2>1. text[p + 1] = w[1] /\ p + 1 \in 1..Len(text)
        BY <1>2, <1>3, <1>4
    <2>2. q \in 1..((p + 1) - 1) /\ p + 1 < q + LeadSize[text[q]]
        BY <1>2, <1>3, <1>4, <1>7, <1>10
    <2>3. DOMAIN text = 1..Len(text) /\ WellFormed(text)
        BY <1>2, LenProperties DEF text
    <2>4. LeadSize[text[p + 1]] = 0
        BY <2>1, <2>2, <2>3 DEF WellFormed
    <2>. QED
        BY <1>3, <2>1, <2>4
<1>. QED
    BY <1>2, <1>3, <1>4, <1>7, <1>8, <1>9, <1>10

-----------------------------------------------------------------------------
(* What is searched for.                                                   *)

LEMMA MinFacts ==
    ASSUME NEW M \in SUBSET Nat, M # {}
    PROVE  Min(M) \in M /\ \A k \in M : Min(M) <= k
<1>1. PICK m \in M : \A k \in M : m <= k
    BY SmallestElement
<1>. QED
    BY <1>1 DEF Min

LEMMA SentFacts ==
    ASSUME TextInv, Running, NEW piece \in Pieces
    PROVE  /\ sent \in Seq(Byte) /\ Len(sent) \in Nat /\ Len(sent) <= Len(said)
           /\ Len(sent) \in 0..Len(said) /\ Len(sent) \in 0..Len(said \o piece)
           /\ Smaller(n_sent_text, Len(said \o piece)) = Len(sent)
           /\ sent = Upto(said \o piece, Len(sent))
<1> DEFINE text == said \o piece
           n == Len(sent)
<1>1. /\ Len(said) \in Nat /\ Len(piece) \in Nat /\ Len(text) = Len(said) + Len(piece)
      /\ text \in Seq(Byte) /\ \A i \in 1..Len(said) : text[i] = said[i]
    BY PieceFacts, Zenon
<1>2. said \in Seq(Byte) /\ n_sent_text = n /\ n <= Len(said) /\ sent = Upto(said, n)
    BY DEF TextInv, Running
<1> HIDE DEF text
<1>3. n \in Nat
    <2>1. sent = SubSeq(said, 1, n)
        BY <1>2 DEF Upto
    <2>. QED
        BY <1>1, <1>2, <2>1, LenProperties
<1> HIDE DEF n
<1>4. n \in 0..Len(said) /\ n \in 0..Len(text) /\ Smaller(n_sent_text, Len(text)) = n
    BY <1>1, <1>2, <1>3 DEF Smaller
<1>5. /\ sent \in Seq(Byte) /\ Len(sent) = n /\ \A i \in 1..n : sent[i] = said[i]
    BY <1>2, <1>4, UptoFacts
<1> DEFINE u == Upto(text, n)
<1>6. /\ u \in Seq(Byte) /\ Len(u) = n /\ \A i \in 1..n : u[i] = text[i]
    BY <1>1, <1>4, UptoFacts
<1> HIDE DEF u
<1>7. \A i \in 1..n : sent[i] = u[i]
    <2> TAKE i \in 1..n
    <2>1. i \in 1..Len(said)
        BY <1>4
    <2>. QED
        BY <1>1, <1>5, <1>6, <2>1
<1>8. sent = u
    BY <1>5, <1>6, <1>7, SeqEqual
<1>. QED
    BY <1>2, <1>3, <1>4, <1>5, <1>8 DEF text, n, u

\* The search in what was not sent finds the stop words of the whole text.
LEMMA FoundFacts ==
    ASSUME TextInv, Running, NEW piece \in Pieces
    PROVE  LET found == find_stopping_strings(From(said \o piece, Len(sent)), Len(piece))
           IN  /\ found \subseteq Nat
               /\ \A q \in found : Len(sent) + q \in Words(said \o piece)
               /\ \A p \in Words(said \o piece) :
                     p \in Nat /\ p >= Len(sent) /\ p - Len(sent) \in found
<1> DEFINE text == said \o piece
           n == Len(sent)
           tail == From(text, n)
           found == find_stopping_strings(tail, Len(piece))
<1>1. /\ Len(said) \in Nat /\ Len(piece) \in Nat /\ Len(text) = Len(said) + Len(piece)
      /\ text \in Seq(Byte)
    BY PieceFacts, Zenon
<1>2. n \in Nat /\ n <= Len(said) /\ n \in 0..Len(text)
    BY SentFacts
<1>3. \A w \in antiprompt : \A p \in Occurrences(w, text) :
            /\ p \in Nat /\ p >= n /\ p + Len(w) > Len(said) /\ p + Len(w) <= Len(said) + Len(piece)
            /\ \A k \in 1..Len(w) : text[p + k] = w[k]
    BY NewWord
<1> HIDE DEF text, n
<1>4. /\ tail \in Seq(Byte) /\ Len(tail) = Len(text) - n
      /\ \A i \in 1..(Len(text) - n) : tail[i] = text[n + i]
    BY <1>1, <1>2, FromFacts
<1> HIDE DEF tail
<1>5. ASSUME NEW q \in found PROVE q \in Nat /\ n + q \in Words(text)
    <2>1. PICK w \in antiprompt : q \in Occurrences(w, tail)
        BY DEF find_stopping_strings
    <2> DEFINE l == Len(w)
    <2>2. w \in Seq(Byte) \ {<<>>} /\ l \in Nat /\ l > 0
        BY WordFacts DEF TextInv
    <2>3. q \in Nat /\ q + l <= Len(tail) /\ \A k \in 1..l : tail[q + k] = w[k]
        BY <1>4, <2>1, <2>2, OccurrenceFacts
    <2>4. ASSUME NEW k \in 1..l PROVE text[(n + q) + k] = w[k]
        <3>1. q + k \in 1..(Len(text) - n) /\ n + (q + k) = (n + q) + k
            BY <1>1, <1>2, <1>4, <2>2, <2>3
        <3> DEFINE j == q + k
        <3> HIDE DEF j
        <3>2. tail[j] = text[n + j]
            BY <1>4, <3>1 DEF j
        <3>3. text[n + j] = w[k]
            BY <2>3, <3>2 DEF j
        <3>. QED
            BY <3>1, <3>3 DEF j
    <2>5. n + q \in Nat /\ (n + q) + l <= Len(text)
        BY <1>1, <1>2, <1>4, <2>2, <2>3
    <2>6. n + q \in Occurrences(w, text)
        BY <1>1, <2>2, <2>4, <2>5, OccurrenceFacts
    <2>. QED
        BY <2>3, <2>6 DEF Words
<1>6. ASSUME NEW p \in Words(text) PROVE p \in Nat /\ p >= n /\ p - n \in found
    <2>1. PICK w \in antiprompt : p \in Occurrences(w, text)
        BY DEF Words
    <2> DEFINE l == Len(w)
               q == p - n
    <2>2. w \in Seq(Byte) \ {<<>>} /\ l \in Nat /\ l > 0
        BY WordFacts DEF TextInv
    <2>3. /\ p \in Nat /\ p >= n /\ p + l > Len(said) /\ p + l <= Len(said) + Len(piece)
          /\ \A k \in 1..l : text[p + k] = w[k]
        BY <1>3, <2>1
    <2>4. /\ q \in Nat /\ q + l <= Len(tail) /\ q \in 0..Len(tail)
          /\ q >= Len(tail) - (l + Len(piece)) /\ n + q = p
        BY <1>1, <1>2, <1>4, <2>2, <2>3
    <2> HIDE DEF q, l
    <2>5. ASSUME NEW k \in 1..l PROVE tail[q + k] = w[k]
        <3> DEFINE j == q + k
        <3>1. j \in 1..(Len(text) - n) /\ n + j = p + k
            BY <1>1, <1>2, <1>4, <2>2, <2>3, <2>4
        <3> HIDE DEF j
        <3>2. tail[j] = text[n + j] /\ text[p + k] = w[k]
            BY <1>4, <2>3, <3>1
        <3>3. tail[j] = w[k]
            BY <3>1, <3>2
        <3>. QED
            BY <3>3 DEF j
    <2>6. q \in Occurrences(w, tail)
        BY <1>4, <2>2, <2>4, <2>5, OccurrenceFacts DEF l
    <2>7. q \in found
        BY <2>4, <2>6 DEF find_stopping_strings, l
    <2>. QED
        BY <2>3, <2>7 DEF q
<1>. QED
    BY <1>5, <1>6 DEF text, n, tail

\* What precedes a stop word is whole characters.
LEMMA WholeBeforeWord ==
    ASSUME antiprompt \in StopWords, NEW text \in Seq(Byte), WellFormed(text),
           NEW p \in Words(text)
    PROVE  p \in 0..Len(text) /\ Whole(Upto(text, p))
<1>1. PICK w \in antiprompt : p \in Occurrences(w, text)
    BY DEF Words
<1>2. w \in Seq(Byte) \ {<<>>} /\ LeadSize[w[1]] # 0
    BY WordFacts
<1>3. /\ Len(w) \in Nat /\ Len(w) > 0 /\ Len(text) \in Nat /\ p \in Nat /\ p + Len(w) <= Len(text)
      /\ \A k \in 1..Len(w) : text[p + k] = w[k]
    BY <1>1, <1>2, OccurrenceFacts
<1>4. text[p + 1] = w[1] /\ p + 1 \in 1..Len(text) /\ p \in 0..Len(text)
    BY <1>3
<1>5. DOMAIN text = 1..Len(text) /\ \A i \in 1..Len(text) : LeadSize[text[i]] \in Nat
    BY LenProperties, ElementOfSeq, LeadFacts
<1>6. ~\E j \in 1..((p + 1) - 1) : p + 1 < j + LeadSize[text[j]]
    BY <1>2, <1>4, <1>5 DEF WellFormed
<1> DEFINE u == Upto(text, p)
<1>7. u \in Seq(Byte) /\ Len(u) = p /\ \A i \in 1..p : u[i] = text[i]
    BY <1>4, UptoFacts
<1>8. DOMAIN u = 1..p
    BY <1>7, LenProperties
<1> HIDE DEF u
<1>9. ASSUME NEW i \in 1..p PROVE i + LeadSize[u[i]] <= p + 1
    <2>1. i \in 1..((p + 1) - 1) /\ i \in 1..Len(text)
        BY <1>3
    <2>2. ~(p + 1 < i + LeadSize[text[i]]) /\ LeadSize[text[i]] \in Nat /\ u[i] = text[i]
        BY <1>5, <1>6, <1>7, <2>1
    <2>. QED
        BY <1>3, <2>2
<1>. QED
    BY <1>4, <1>7, <1>8, <1>9 DEF Whole, u

LEMMA FromFrom ==
    ASSUME NEW S, NEW s \in Seq(S), NEW a \in 0..Len(s), NEW b \in 0..(Len(s) - a)
    PROVE  From(From(s, a), b) = From(s, a + b)
<1> DEFINE n == Len(s)
           x == From(s, a)
           y == From(x, b)
           z == From(s, a + b)
<1>1. n \in Nat /\ a \in Nat /\ b \in Nat /\ a + b \in 0..n
    BY LenProperties
<1>2. x \in Seq(S) /\ Len(x) = n - a /\ \A i \in 1..(n - a) : x[i] = s[a + i]
    BY FromFacts
<1> HIDE DEF x
<1>3. /\ y \in Seq(S) /\ Len(y) = (n - a) - b
      /\ \A i \in 1..((n - a) - b) : y[i] = x[b + i]
    <2>1. b \in 0..Len(x)
        BY <1>2
    <2>2. y \in Seq(S) /\ Len(y) = Len(x) - b /\ \A i \in 1..(Len(x) - b) : y[i] = x[b + i]
        BY <1>2, <2>1, FromFacts
    <2>. QED
        BY <1>2, <2>2
<1> DEFINE c == a + b
<1>4. z \in Seq(S) /\ Len(z) = n - c /\ \A i \in 1..(n - c) : z[i] = s[c + i]
    BY <1>1, FromFacts
<1> HIDE DEF y, z, n
<1>5. (n - a) - b = n - c
    BY <1>1
<1>6. ASSUME NEW i \in 1..(n - c) PROVE y[i] = z[i]
    <2> DEFINE j == b + i
    <2>1. j \in 1..(n - a) /\ a + j = c + i
        BY <1>1
    <2> HIDE DEF j, c
    <2>2. y[i] = x[j] /\ z[i] = s[c + i]
        BY <1>3, <1>4, <1>5 DEF j
    <2>3. x[j] = s[a + j]
        BY <1>2, <2>1 DEF n
    <2>. QED
        BY <2>1, <2>2, <2>3
<1> HIDE DEF c
<1>7. y = z
    BY <1>3, <1>4, <1>5, <1>6, SeqEqual
<1>. QED
    BY <1>7 DEF x, y, z

\* Text is held back if it ends with the beginning of a stop word...
LEMMA HeldBack ==
    ASSUME antiprompt \in StopWords, NEW text \in Seq(Byte), NEW pos \in 0..Len(text),
           Words(text) = {}, find_partial_stop(From(text, pos))
    PROVE  \E w \in antiprompt : \E n \in 1..Len(text) :
               n < Len(w) /\ From(text, Len(text) - n) = Upto(w, n)
<1> DEFINE tail == From(text, pos)
           L == Len(text)
<1>1. L \in Nat /\ pos \in Nat /\ pos <= L /\ tail \in Seq(Byte) /\ Len(tail) = L - pos
    BY FromFacts, LenProperties
<1>0. PICK w \in antiprompt : \E n \in 1..Smaller(Len(w), Len(tail)) :
          From(tail, Len(tail) - n) = Upto(w, n)
    BY DEF find_partial_stop
<1>2. PICK n \in 1..Smaller(Len(w), Len(tail)) : From(tail, Len(tail) - n) = Upto(w, n)
    BY <1>0
<1>3. w \in Seq(Byte) \ {<<>>} /\ Len(w) \in Nat /\ Len(w) > 0
    BY WordFacts
<1>4. n \in Nat /\ n > 0 /\ n <= Len(w) /\ n <= L - pos
    BY <1>1, <1>3 DEF Smaller
<1>5. From(tail, Len(tail) - n) = From(text, L - n)
    <2> DEFINE b == (L - pos) - n
    <2>1. b \in 0..(L - pos) /\ pos + b = L - n /\ Len(tail) - n = b
        BY <1>1, <1>4
    <2> HIDE DEF b
    <2>2. From(From(text, pos), b) = From(text, pos + b)
        BY <2>1, FromFrom
    <2>. QED
        BY <2>1, <2>2
<1>6. From(text, L - n) = Upto(w, n) /\ n \in 1..L
    BY <1>1, <1>2, <1>4, <1>5
<1>7. n < Len(w)
    <2>1. SUFFICES ASSUME n = Len(w) PROVE FALSE
        BY <1>3, <1>4
    <2> DEFINE p == L - n
               u == From(text, p)
    <2>2. p \in 0..L /\ p + n = L /\ p \in Nat /\ L - p = n
        BY <1>1, <1>4
    <2> HIDE DEF p
    <2>3. \A k \in 1..n : u[k] = text[p + k]
        BY <2>2, FromFacts
    <2>4. n \in 0..Len(w)
        BY <1>3, <1>4
    <2>5. \A k \in 1..n : Upto(w, n)[k] = w[k]
        BY <1>3, <2>4, UptoFacts
    <2>6. u = Upto(w, n)
        BY <1>6 DEF p
    <2>7. \A k \in 1..n : text[p + k] = w[k]
        BY <2>3, <2>5, <2>6
    <2>8. p \in Occurrences(w, text)
        BY <1>3, <2>1, <2>2, <2>7, OccurrenceFacts
    <2>. QED
        BY <2>8 DEF Words
<1>. QED
    BY <1>6, <1>7

\* ...and otherwise no stop word begins in it.
LEMMA NoneBegins ==
    ASSUME antiprompt \in StopWords, NEW text \in Seq(Byte), NEW pos \in 0..Len(text),
           Words(text) = {}, ~find_partial_stop(From(text, pos)),
           NEW w \in antiprompt, NEW p \in pos..(Len(text) - 1)
    PROVE  ~BeginsAt(w, text, p)
<1> DEFINE tail == From(text, pos)
           L == Len(text)
           n == L - p
<1>1. L \in Nat /\ pos \in Nat /\ pos <= L /\ tail \in Seq(Byte) /\ Len(tail) = L - pos
    BY FromFacts, LenProperties
<1>2. w \in Seq(Byte) \ {<<>>} /\ Len(w) \in Nat /\ Len(w) > 0
    BY WordFacts
<1>3. SUFFICES ASSUME BeginsAt(w, text, p) PROVE FALSE
    OBVIOUS
<1>4. p \in Nat /\ p >= pos /\ p < L /\ n \in Nat /\ n > 0 /\ n <= L - pos
    BY <1>1
<1>5. \A k \in 1..Smaller(Len(w), n) : text[p + k] = w[k]
    BY <1>3 DEF BeginsAt
<1>6. CASE Len(w) <= n
    <2>1. \A k \in 1..Len(w) : text[p + k] = w[k]
        BY <1>5, <1>6 DEF Smaller
    <2>2. p + Len(w) <= L
        BY <1>1, <1>2, <1>4, <1>6
    <2>3. p \in Occurrences(w, text)
        BY <1>2, <1>4, <2>1, <2>2, OccurrenceFacts
    <2>. QED
        BY <2>3 DEF Words
<1>7. CASE ~(Len(w) <= n)
    <2> DEFINE u == From(text, p)
               v == Upto(w, n)
    <2>1. \A k \in 1..n : text[p + k] = w[k]
        BY <1>5, <1>7 DEF Smaller
    <2>2. p \in 0..Len(text) /\ n \in 0..Len(w)
        BY <1>1, <1>2, <1>4, <1>7
    <2>3. u \in Seq(Byte) /\ Len(u) = n /\ \A k \in 1..n : u[k] = text[p + k]
        BY <2>2, FromFacts
    <2>4. v \in Seq(Byte) /\ Len(v) = n /\ \A k \in 1..n : v[k] = w[k]
        BY <1>2, <2>2, UptoFacts
    <2>5. u = v
        <3> HIDE DEF u, v, n
        <3>1. \A k \in 1..n : u[k] = v[k]
            BY <2>1, <2>3, <2>4
        <3>. QED
            BY <2>3, <2>4, <3>1, SeqEqual
    <2>6. From(tail, Len(tail) - n) = u
        <3> DEFINE b == (L - pos) - n
        <3>1. b \in 0..(L - pos) /\ pos + b = p /\ Len(tail) - n = b
            BY <1>1, <1>4
        <3> HIDE DEF b
        <3>2. From(From(text, pos), b) = From(text, pos + b)
            BY <3>1, FromFrom
        <3>. QED
            BY <3>1, <3>2
    <2>7. n \in 1..Smaller(Len(w), Len(tail))
        BY <1>1, <1>2, <1>4, <1>7 DEF Smaller
    <2>8. find_partial_stop(tail)
        <3> HIDE DEF n, tail, u, v
        <3>1. From(tail, Len(tail) - n) = Upto(w, n)
            BY <2>5, <2>6 DEF v
        <3>. QED
            BY <2>7, <3>1 DEF find_partial_stop
    <2>. QED
        BY <2>8
<1>. QED
    BY <1>6, <1>7

-----------------------------------------------------------------------------
(* One token.                                                              *)

\* Everything is passed on, up to the first stop word if there is one, or nothing is,
\* as the text ends within a character or with the beginning of a stop word.
Outcome(r, text) ==
    /\ Len(sent) + Len(r.to_send) = Len(sent \o r.to_send)
    /\ \/ /\ r.word = TRUE /\ Words(text) # {}
          /\ r.text = Upto(text, Min(Words(text)))
          /\ sent \o r.to_send = r.text
       \/ /\ r.word = FALSE /\ Words(text) = {} /\ r.text = text
          /\ sent \o r.to_send = text /\ Whole(text)
          /\ \A w \in antiprompt : \A p \in 0..(Len(text) - 1) : ~BeginsAt(w, text, p)
       \/ /\ r.word = FALSE /\ Words(text) = {} /\ r.text = text
          /\ sent \o r.to_send = sent
          /\ \/ ~Whole(text)
             \/ \E w \in antiprompt : \E n \in 1..Len(text) :
                   n < Len(w) /\ From(text, Len(text) - n) = Upto(w, n)

\* What begins in the text and what began before.
LEMMA BeganBefore ==
    ASSUME TextInv, NEW piece \in Pieces, NEW w \in antiprompt, NEW p \in 0..Len(said),
           BeginsAt(w, said \o piece, p)
    PROVE  BeginsAt(w, said, p)
<1> DEFINE text == said \o piece
           m == Len(said)
           l == Len(w)
<1>1. /\ m \in Nat /\ Len(piece) \in Nat /\ Len(text) = m + Len(piece)
      /\ \A i \in 1..m : text[i] = said[i]
    BY PieceFacts, Zenon
<1>2. l \in Nat
    BY WordFacts DEF TextInv
<1> HIDE DEF text
<1>3. ASSUME NEW k \in 1..Smaller(l, m - p) PROVE said[p + k] = w[k]
    <2>1. k \in 1..Smaller(l, Len(text) - p) /\ p + k \in 1..m
        <3> HIDE DEF m, l
        <3>. QED
            BY <1>1, <1>2 DEF Smaller, m
    <2>2. text[p + k] = w[k]
        BY <2>1 DEF BeginsAt, text
    <2>. QED
        BY <1>1, <2>1, <2>2
<1>. QED
    BY <1>3 DEF BeginsAt

LEMMA SearchedOutcome ==
    ASSUME NoneRunPast, TextInv, Running, NEW piece \in Pieces, WellFormed(said \o piece)
    PROVE  Outcome(Searched(piece), said \o piece)
<1> DEFINE text == said \o piece
           n == Len(sent)
           tail == From(text, n)
           found == find_stopping_strings(tail, Len(piece))
           r == Searched(piece)
<1>1. text \in Seq(Byte) /\ Len(text) \in Nat /\ antiprompt \in StopWords
    BY PieceFacts, LenProperties DEF TextInv
<1>2. /\ generated_text = said /\ Smaller(n_sent_text, Len(text)) = n
      /\ sent \in Seq(Byte) /\ n \in Nat /\ n \in 0..Len(text) /\ sent = Upto(text, n)
    BY SentFacts DEF Running
<1>3. /\ found \subseteq Nat /\ (\A q \in found : n + q \in Words(text))
      /\ \A p \in Words(text) : p \in Nat /\ p >= n /\ p - n \in found
    BY FoundFacts
<1>4. validate_utf8(text) <=> Whole(text)
    BY <1>1, ValidIsWhole
<1>5. sent \o <<>> = sent /\ Len(<<>>) = 0 /\ n + 0 = n
    BY <1>2, ConcatEmptySeq
<1>6. CASE ~validate_utf8(text)
    <2>1. r = [text |-> text, to_send |-> <<>>, seen |-> piece, word |-> FALSE]
        BY <1>2, <1>6 DEF Searched
    <2>2. Words(text) = {}
        BY <1>6, NoneInIncomplete
    <2>3. r.word = FALSE /\ r.text = text /\ r.to_send = <<>>
        BY <2>1
    <2> HIDE DEF r, text
    <2>4. n + Len(r.to_send) = Len(sent \o r.to_send) /\ sent \o r.to_send = sent
        BY <1>5, <2>3
    <2>5. ~Whole(text)
        BY <1>4, <1>6
    <2>. QED
        BY <2>2, <2>3, <2>4, <2>5 DEF Outcome, r, text
<1>7. CASE validate_utf8(text) /\ found = {} /\ find_partial_stop(tail)
    <2>1. r.word = FALSE /\ r.text = text /\ r.to_send = <<>>
        BY <1>2, <1>7 DEF Searched
    <2>2. Words(text) = {}
        BY <1>3, <1>7
    <2> HIDE DEF r, text
    <2>3. n + Len(r.to_send) = Len(sent \o r.to_send) /\ sent \o r.to_send = sent
        BY <1>5, <2>1
    <2>4. \E w \in antiprompt : \E k \in 1..Len(text) :
              k < Len(w) /\ From(text, Len(text) - k) = Upto(w, k)
        BY <1>1, <1>2, <1>7, <2>2, HeldBack
    <2>. QED
        BY <2>1, <2>2, <2>3, <2>4 DEF Outcome, r, text
<1>8. CASE validate_utf8(text) /\ found = {} /\ ~find_partial_stop(tail)
    <2>1. r.word = FALSE /\ r.text = text /\ r.to_send = tail
        BY <1>2, <1>8 DEF Searched
    <2>2. Words(text) = {}
        BY <1>3, <1>8
    <2> HIDE DEF r, text
    <2>3. tail \in Seq(Byte) /\ Len(tail) = Len(text) - n /\ Upto(text, n) \o tail = text
        BY <1>1, <1>2, FromFacts, UptoFrom
    <2>4. sent \o tail = text /\ n + Len(tail) = Len(text)
        BY <1>1, <1>2, <2>3
    <2>5. ASSUME NEW w \in antiprompt, NEW p \in 0..(Len(text) - 1) PROVE ~BeginsAt(w, text, p)
        <3>1. CASE p < n
            <4>1. p \in 0..(n - 1) /\ p \in 0..Len(said)
                BY <1>2, <3>1, SentFacts
            <4>2. ~BeginsAt(w, said, p)
                BY <4>1 DEF Running
            <4>. QED
                BY <4>1, <4>2, BeganBefore DEF text
        <3>2. CASE ~(p < n)
            <4>1. p \in n..(Len(text) - 1)
                BY <1>2, <3>2
            <4>. QED
                BY <1>1, <1>2, <1>8, <2>2, <4>1, NoneBegins
        <3>. QED
            BY <3>1, <3>2
    <2>6. Whole(text)
        BY <1>4, <1>8
    <2>. QED
        BY <2>1, <2>2, <2>4, <2>5, <2>6 DEF Outcome, r, text
<1>9. CASE validate_utf8(text) /\ found # {}
    <2> DEFINE q == Min(found)
               u == Upto(text, n + q)
    <2>1. r.word = TRUE /\ r.text = u /\ r.to_send = From(u, n)
        BY <1>2, <1>9 DEF Searched
    <2>2. q \in found /\ (\A k \in found : q <= k) /\ q \in Nat
        <3> HIDE DEF found
        <3>1. q \in found /\ (\A k \in found : q <= k)
            BY <1>3, <1>9, MinFacts
        <3>. QED
            BY <1>3, <3>1
    <2> HIDE DEF q, found, r, text, n, tail
    <2>3. n + q \in Words(text) /\ \A p \in Words(text) : n + q <= p
        <3>1. n + q \in Words(text)
            BY <1>3, <2>2
        <3>2. ASSUME NEW p \in Words(text) PROVE n + q <= p
            <4>1. p \in Nat /\ p - n \in found /\ q <= p - n
                BY <1>3, <2>2
            <4>. QED
                BY <1>2, <2>2, <4>1
        <3>. QED
            BY <3>1, <3>2
    <2>4. Min(Words(text)) = n + q
        <3> DEFINE M == Words(text)
        <3>1. M \in SUBSET Nat /\ M # {}
            BY <1>3, <2>3
        <3> HIDE DEF M
        <3>2. Min(M) \in M /\ \A k \in M : Min(M) <= k
            BY <3>1, MinFacts
        <3>3. n + q \in M /\ \A p \in M : n + q <= p
            BY <2>3 DEF M
        <3>4. Min(M) <= n + q /\ n + q <= Min(M) /\ Min(M) \in Nat /\ n + q \in Nat
            BY <3>1, <3>2, <3>3
        <3>5. Min(M) = n + q
            <4> DEFINE x == Min(M)
                       y == n + q
            <4> HIDE DEF x, y
            <4>1. x \in Nat /\ y \in Nat /\ x <= y /\ y <= x
                BY <3>4 DEF x, y
            <4>2. x = y
                BY <4>1
            <4>. QED
                BY <4>2 DEF x, y
        <3>. QED
            BY <3>5 DEF M
    <2>5. n + q \in 0..Len(text)
        BY <1>1, <2>3, WholeBeforeWord DEF text
    <2>6. u \in Seq(Byte) /\ Len(u) = n + q /\ \A i \in 1..(n + q) : u[i] = text[i]
        BY <1>1, <2>5, UptoFacts
    <2> HIDE DEF u
    <2>7. n \in 0..Len(u)
        BY <1>2, <2>2, <2>6
    <2>8. sent = Upto(u, n)
        <3> DEFINE a == Upto(text, n)
                   b == Upto(u, n)
        <3>1. a \in Seq(Byte) /\ Len(a) = n /\ \A i \in 1..n : a[i] = text[i]
            BY <1>1, <1>2, UptoFacts
        <3>2. b \in Seq(Byte) /\ Len(b) = n /\ \A i \in 1..n : b[i] = u[i]
            BY <2>6, <2>7, UptoFacts
        <3> HIDE DEF a, b
        <3>3. \A i \in 1..n : a[i] = b[i]
            <4> TAKE i \in 1..n
            <4>1. i \in 1..(n + q)
                BY <1>2, <2>2
            <4>. QED
                BY <2>6, <3>1, <3>2, <4>1
        <3>4. a = b
            BY <3>1, <3>2, <3>3, SeqEqual
        <3>. QED
            BY <1>2, <3>4 DEF a, b
    <2>9. From(u, n) \in Seq(Byte) /\ Len(From(u, n)) = Len(u) - n /\ Upto(u, n) \o From(u, n) = u
        BY <2>6, <2>7, FromFacts, UptoFrom
    <2>10. sent \o r.to_send = u /\ n + Len(r.to_send) = Len(sent \o r.to_send)
        <3>1. sent \o r.to_send = u
            BY <2>1, <2>8, <2>9, Zenon
        <3>2. n + Len(r.to_send) = Len(u)
            BY <1>2, <2>1, <2>2, <2>6, <2>9
        <3>. QED
            BY <3>1, <3>2, Zenon
    <2>. QED
        BY <2>1, <2>3, <2>4, <2>10 DEF Outcome, r, text, n, u
<1>. QED
    BY <1>6, <1>7, <1>8, <1>9

\* What process_token does with the outcome; whether a line is cut is all that matters
\* of the indentation.
LEMMA TokenStep ==
    ASSUME NEW piece \in Pieces, NEW limit \in BOOLEAN, NEW ended \in {"none", "limit", "eos"},
           process_token(piece, limit, ended), NEW r, r = Searched(piece), r.word \in BOOLEAN
    PROVE  /\ has_next_token
           /\ antiprompt' = antiprompt /\ said' = said \o piece /\ sent' = sent \o r.to_send
           /\ n_sent_text' = n_sent_text + Len(r.to_send)
           /\ cut' \in BOOLEAN /\ has_next_token' \in BOOLEAN
           /\ ~cut' => generated_text' = r.text
           /\ has_next_token' => ~r.word /\ cut' = FALSE /\ stop' = "none"
           /\ ~r.word => stop' # "word"
<1> DEFINE indented == has_new_line /\ n_indent > 0
           end == IndentEnd(r.text, last_nl_pos)
           short == /\ indented /\ last_nl_pos > 0
                    /\ last_nl_pos <= Len(r.text) /\ end < Len(r.text)
                    /\ end - last_nl_pos < n_indent
<1>1. /\ has_next_token
      /\ antiprompt' = antiprompt /\ said' = said \o piece /\ sent' = sent \o r.to_send
      /\ n_sent_text' = n_sent_text + Len(r.to_send)
      /\ cut' = short
      /\ generated_text' = IF short THEN Upto(r.text, end) ELSE r.text
      /\ has_next_token' = (~r.word /\ ~limit /\ ~short /\ ended = "none")
      /\ stop' = CASE ended # "none" -> ended
                   [] ended = "none" /\ (short \/ (limit /\ ~r.word)) -> "limit"
                   [] ended = "none" /\ ~short /\ r.word -> "word"
                   [] OTHER -> "none"
    BY Zenon DEF process_token
<1>2. short \in BOOLEAN
    OBVIOUS
<1> HIDE DEF short
<1>3. cut' \in BOOLEAN /\ has_next_token' \in BOOLEAN /\ (~cut' => generated_text' = r.text)
    BY <1>1, <1>2
<1>4. has_next_token' => ~r.word /\ cut' = FALSE /\ ~limit /\ ~short /\ ended = "none"
    BY <1>1, <1>2
<1>5. ~r.word => stop' \in {ended, "limit", "none"}
    BY <1>1, <1>2
<1>6. ~r.word /\ ~limit /\ ~short /\ ended = "none" => stop' = "none"
    BY <1>1, <1>2
<1>. QED
    BY <1>1, <1>3, <1>4, <1>5, <1>6

LEMMA TokenKeeps ==
    ASSUME NoneRunPast, TextInv, NEW piece \in Pieces, NEW limit \in BOOLEAN,
           NEW ended \in {"none", "limit", "eos"},
           WellFormed(said \o piece), process_token(piece, limit, ended)
    PROVE  TextInv'
<1> DEFINE text == said \o piece
           r == Searched(piece)
<1>1. has_next_token /\ Running
    BY DEF process_token, TextInv
<1>2. Outcome(r, text)
    BY <1>1, SearchedOutcome
<1> HIDE DEF r
<1>3. r.word \in BOOLEAN
    BY <1>2 DEF Outcome
<1>4. /\ antiprompt' = antiprompt /\ said' = text /\ sent' = sent \o r.to_send
      /\ n_sent_text' = n_sent_text + Len(r.to_send)
      /\ cut' \in BOOLEAN /\ has_next_token' \in BOOLEAN
      /\ ~cut' => generated_text' = r.text
      /\ has_next_token' => ~r.word /\ cut' = FALSE /\ stop' = "none"
      /\ ~r.word => stop' # "word"
    BY <1>3, TokenStep DEF r
<1>5. /\ text \in Seq(Byte) /\ Len(text) \in Nat /\ antiprompt \in StopWords
      /\ sent \in Seq(Byte) /\ n_sent_text = Len(sent) /\ Len(sent) \in Nat
      /\ Len(sent) \in 0..Len(text) /\ sent = Upto(text, Len(sent)) /\ Whole(sent)
    BY <1>1, PieceFacts, SentFacts, LenProperties DEF TextInv, Running
<1> HIDE DEF text
<1>6. n_sent_text' = Len(sent')
    BY <1>2, <1>4, <1>5 DEF Outcome
<1>7. Words(said)' = Words(text)
    BY <1>4 DEF Words
<1>8. WellFormed(said')
    BY <1>4 DEF text
<1>9. Upto(text, Len(text)) = text
    BY <1>5, SubSeqFull DEF Upto
<1>10. CASE r.word = TRUE
    <2> DEFINE P == Min(Words(text))
    <2>1. Words(text) # {} /\ r.text = Upto(text, P) /\ sent' = r.text
        BY <1>2, <1>4, <1>10 DEF Outcome
    <2>2. P \in Words(text)
        <3>1. Words(text) \in SUBSET Nat
            <4>1. \A p \in Words(text) : p \in 0..Len(text)
                BY <1>5, <1>8, <1>4, WholeBeforeWord
            <4>. QED
                BY <1>5, <4>1
        <3>. QED
            BY <2>1, <3>1, MinFacts
    <2> HIDE DEF P
    <2>3. P \in 0..Len(text) /\ Whole(Upto(text, P))
        BY <1>4, <1>5, <1>8, <2>2, WholeBeforeWord
    <2>4. sent' \in Seq(Byte) /\ Len(sent') = P
        BY <1>5, <2>1, <2>3, UptoFacts
    <2>5. Upto(sent', Len(sent')) = sent'
        BY <2>4, SubSeqFull DEF Upto
    <2>6. ~has_next_token'
        BY <1>4, <1>10
    <2>7. StopsAtFirst'
        BY <1>4, <1>7, <2>1, <2>6 DEF StopsAtFirst, Words, P
    <2>8. StreamedText'
        <3>1. Whole(sent)' /\ sent' = Upto(said', Len(sent'))
            BY <1>4, <2>1, <2>3, <2>4
        <3>2. ~cut' => sent' = generated_text'
            BY <1>4, <2>1
        <3>. QED
            BY <2>5, <3>1, <3>2 DEF StreamedText
    <2>. QED
        BY <1>4, <1>5, <1>8, <2>6, <2>7, <2>8 DEF TextInv
<1>11. CASE r.word = FALSE
    <2>1. Words(text) = {} /\ r.text = text /\ stop' # "word"
        BY <1>2, <1>4, <1>11 DEF Outcome
    <2>2. StopsAtFirst'
        BY <1>4, <1>7, <2>1 DEF StopsAtFirst, Words
    <2>3. CASE sent' = text /\ Whole(text)
               /\ \A w \in antiprompt : \A p \in 0..(Len(text) - 1) : ~BeginsAt(w, text, p)
        <3>1. StreamedText'
            BY <1>4, <1>9, <2>1, <2>3 DEF StreamedText
        <3>2. ASSUME has_next_token' PROVE Running'
            <4>1. cut' = FALSE /\ generated_text' = text /\ stop' = "none"
                BY <1>4, <2>1, <3>2
            <4>2. said' = text /\ sent' = text /\ Whole(sent') /\ sent' = Upto(said', Len(sent'))
                BY <1>4, <1>9, <2>3
            <4>3. \A w \in antiprompt' : \A p \in 0..(Len(sent') - 1) : ~BeginsAt(w, said', p)
                BY <1>4, <2>3
            <4>4. Len(sent') \in Nat /\ Len(sent') <= Len(said')
                BY <1>5, <4>2
            <4>. QED
                BY <1>4, <1>5, <1>6, <1>7, <2>1, <4>1, <4>2, <4>3, <4>4 DEF Running, BeginsAt
        <3>. QED
            BY <1>4, <1>5, <1>8, <2>2, <3>1, <3>2 DEF TextInv
    <2>4. CASE /\ sent' = sent
               /\ \/ ~Whole(text)
                  \/ \E w \in antiprompt : \E n \in 1..Len(text) :
                        n < Len(w) /\ From(text, Len(text) - n) = Upto(w, n)
        <3>1. StreamedText'
            BY <1>4, <1>5, <2>1, <2>4 DEF StreamedText
        <3>2. ASSUME NEW w \in antiprompt, NEW p \in 0..(Len(sent) - 1) PROVE ~BeginsAt(w, text, p)
            <4>1. p \in 0..Len(said)
                BY <1>1, <1>5, SentFacts
            <4>2. ~BeginsAt(w, said, p)
                BY <1>1 DEF Running
            <4>. QED
                BY <4>1, <4>2, BeganBefore DEF text
        <3>3. has_next_token' => Running'
            BY <1>4, <1>5, <1>6, <1>7, <2>1, <2>4, <3>2 DEF Running, BeginsAt
        <3>. QED
            BY <1>4, <1>5, <1>8, <2>2, <3>1, <3>3 DEF TextInv
    <2>. QED
        BY <1>2, <1>4, <1>11, <2>3, <2>4 DEF Outcome
<1>. QED
    BY <1>3, <1>10, <1>11

LEMMA TextInit ==
    ASSUME Init PROVE TextInv
<1>1. <<>> \in Seq(Byte) /\ Len(<<>>) = 0 /\ DOMAIN <<>> = {}
    BY EmptySeq
<1>2. WellFormed(<<>>) /\ Whole(<<>>) /\ Upto(<<>>, 0) = <<>>
    BY <1>1 DEF WellFormed, Whole, Upto
<1>3. \A w \in antiprompt : Occurrences(w, <<>>) = {}
    <2>1. antiprompt \in StopWords
        BY DEF Init
    <2> TAKE w \in antiprompt
    <2>2. w \in Seq(Byte) \ {<<>>} /\ Len(w) \in Nat /\ Len(w) > 0
        BY <2>1, WordFacts
    <2>3. \A p \in Nat : ~(p + Len(w) <= Len(<<>>))
        BY <1>1, <2>2
    <2>. QED
        BY <1>1, <2>2, <2>3, OccurrenceFacts
<1>4. Words(<<>>) = {}
    BY <1>3 DEF Words
<1>5. Running
    BY <1>1, <1>2, <1>4 DEF Init, Running
<1>6. StopsAtFirst
    BY <1>4 DEF Init, StopsAtFirst, Words
<1>7. StreamedText
    BY <1>1, <1>2 DEF Init, StreamedText
<1>. QED
    BY <1>1, <1>2, <1>5, <1>6, <1>7 DEF Init, TextInv

LEMMA TextNext ==
    ASSUME NoneRunPast, TextInv, [Next]_vars PROVE TextInv'
<1>1. CASE UNCHANGED vars
    BY <1>1 DEF vars, TextInv, Running, StopsAtFirst, StreamedText, Words, BeginsAt
<1>2. CASE Released
    BY <1>1, <1>2 DEF Released
<1>3. CASE \E piece \in Pieces, limit \in BOOLEAN, ended \in {"none", "limit", "eos"} :
               WellFormed(said \o piece) /\ process_token(piece, limit, ended)
    BY <1>3, TokenKeeps
<1>. QED
    BY <1>1, <1>2, <1>3 DEF Next

\* While a generation runs, its answer is all that was said, no stop word is in it, what
\* was sent is whole characters of its beginning, and no stop word can begin inside that
\* part; and when it ends the answer and the stream are as StopsAtFirst and StreamedText
\* say.  This is what lets process_token (server.cpp:2330-2360) search for stop words
\* from n_sent_text on only.
THEOREM TextInvariant ==
    ASSUME NoneRunPast
    PROVE  Spec => []TextInv
<1>1. TextInv /\ [Next]_vars => TextInv'
    BY TextNext
<1>. QED
    BY <1>1, TextInit, PTL DEF Spec

\* A generation stops at the first stop word, and its answer is what was said before,
\* for any stop words and any pieces none of which ends a stop word and begins an
\* incomplete character.
THEOREM AnswerStopsAtFirst ==
    ASSUME NoneRunPast
    PROVE  Spec => []StopsAtFirst
<1>1. TextInv => StopsAtFirst
    BY DEF TextInv
<1>. QED
    BY <1>1, TextInvariant, PTL

\* A stream passes on whole characters and a beginning of the answer, nothing of a stop
\* word, and in the end all but what was held back when something else ended the
\* generation; under the same hypothesis.
THEOREM StreamIsAnswer ==
    ASSUME NoneRunPast
    PROVE  Spec => []StreamedText
<1>1. TextInv => StreamedText
    BY DEF TextInv
<1>. QED
    BY <1>1, TextInvariant, PTL

=============================================================================

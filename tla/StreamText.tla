----------------------------- MODULE StreamText -----------------------------
(***************************************************************************)
(* The text of a generation: what process_token makes of the pieces of     *)
(* text that the tokens stand for.  A text is a sequence of bytes.  Text   *)
(* that may become a stop word, or that ends within a character, is held   *)
(* back; a stop word ends the generation and is cut off, and so is a line  *)
(* without enough indentation.  Positions are counted from 0, as in the    *)
(* code.  When the other limits and the end-of-generation token end the    *)
(* generation is a choice here; SlotContext has most of them.              *)
(***************************************************************************)
EXTENDS Integers, Sequences, FiniteSetsExt

CONSTANTS
    LeadSize,       \* [bytes -> size of the character that one begins; 0 if none]
    Newline, Space, \* bytes; Space is also the tab
    Pieces,         \* the texts of the tokens
    StopWords,      \* the choices of antiprompt
    Indents,        \* the choices of n_indent
    MAX_TOKENS      \* bound on the tokens of a generation

\* A text of well-formed characters, the last one perhaps not complete: a byte begins
\* no character exactly if it is within one.
WellFormed(s) ==
    \A i \in DOMAIN s : (LeadSize[s[i]] = 0) <=> \E j \in 1..(i - 1) : i < j + LeadSize[s[j]]

\* s ends with a complete character.
Whole(s) == \A i \in DOMAIN s : i + LeadSize[s[i]] <= Len(s) + 1

\* Stop words are read from JSON, whose strings are well-formed.
ASSUME TextAssumption ==
    /\ LeadSize \in [DOMAIN LeadSize -> 0..4]
    /\ Pieces \subseteq Seq(DOMAIN LeadSize)
    /\ StopWords \subseteq SUBSET {w \in Seq(DOMAIN LeadSize) \ {<<>>} : WellFormed(w) /\ Whole(w)}
    /\ Indents \subseteq Nat
    /\ MAX_TOKENS \in Nat

VARIABLES
    antiprompt, n_indent,   \* of the request
    generated_text,
    n_sent_text,            \* how much was passed on
    has_new_line, last_nl_pos,
    has_next_token, stop,
    n_tokens,               \* tokens so far
    said,                   \* history: all pieces
    sent,                   \* history: the text of the partial results
    cut                     \* history: a line was cut for its indentation

vars == <<antiprompt, n_indent, generated_text, n_sent_text, has_new_line, last_nl_pos,
          has_next_token, stop, n_tokens, said, sent, cut>>

Init ==
    /\ antiprompt \in StopWords /\ n_indent \in Indents
    /\ generated_text = <<>> /\ n_sent_text = 0
    /\ has_new_line = FALSE /\ last_nl_pos = 0
    /\ has_next_token = TRUE /\ stop = "none" /\ n_tokens = 0
    /\ said = <<>> /\ sent = <<>> /\ cut = FALSE

-----------------------------------------------------------------------------
(* Helpers on texts.                                                       *)

Smaller(a, b) == IF a <= b THEN a ELSE b
Upto(s, p) == SubSeq(s, 1, p)
From(s, p) == SubSeq(s, p + 1, Len(s))

\* The positions of the word w in s.
Occurrences(w, s) ==
    {p \in 0..(Len(s) - Len(w)) : \A k \in 1..Len(w) : s[p + k] = w[k]}

\* Plausible bug: a character of three bytes is thought to be complete after two.
validate_utf8_short(s) ==
    \A i \in 1..Smaller(4, Len(s)) : Smaller(2, LeadSize[s[Len(s) + 1 - i]]) <= i

\* validate_utf8, whether it returns the whole length: no character among the last
\* four bytes is begun and not completed.
validate_utf8(s) ==
    \A i \in 1..Smaller(4, Len(s)) : LeadSize[s[Len(s) + 1 - i]] <= i

\* find_stopping_strings for whole words: where it looks, words are searched for in
\* what the last token can have completed.
find_stopping_strings(s, last_token_size) ==
    {p \in 0..Len(s) : \E w \in antiprompt :
        p \in Occurrences(w, s) /\ p >= Len(s) - (Len(w) + last_token_size)}

\* Plausible bug: nothing is held back.
find_partial_stop_nothing(s) == FALSE

\* find_partial_stop_string for some word: s ends with a beginning of it.
find_partial_stop(s) ==
    \E w \in antiprompt : \E n \in 1..Smaller(Len(w), Len(s)) :
        From(s, Len(s) - n) = Upto(w, n)

-----------------------------------------------------------------------------
\* The text after a piece was appended and a stop word, if there is one, cut off; the
\* text that is passed on; and whether there was a stop word.  Of an incomplete text
\* nothing is passed on, and no stop word is searched for.
Searched(piece) ==
    LET text == generated_text \o piece
        pos == Smaller(n_sent_text, Len(text))
        found == find_stopping_strings(From(text, pos), Len(piece))
        held == found = {} /\ find_partial_stop(From(text, pos))
        whole == IF found = {} THEN text ELSE Upto(text, pos + Min(found))
    IN  IF ~validate_utf8(text)
        THEN [text |-> text, to_send |-> <<>>, seen |-> piece, word |-> FALSE]
        ELSE LET to_send == IF held THEN <<>> ELSE From(whole, pos)
             IN  [text |-> whole, to_send |-> to_send, seen |-> to_send, word |-> found # {}]

\* The end of the indentation that begins at p: the first byte that is no space.
IndentEnd(s, p) ==
    Min({i \in p..Len(s) : i = Len(s) \/ s[i + 1] # Space})

NextNewline(s) ==
    LET at == {p \in Occurrences(<<Newline>>, s) : p >= last_nl_pos}
    IN  IF at = {} THEN last_nl_pos ELSE Min(at) + 1

\* process_token: limit is whether the budget is used up, ended what comes after.
process_token(piece, limit, ended) ==
    LET s == Searched(piece)
        indented == has_new_line /\ n_indent > 0
        end == IndentEnd(s.text, last_nl_pos)
        short == /\ indented /\ last_nl_pos > 0
                 /\ last_nl_pos <= Len(s.text) /\ end < Len(s.text)
                 /\ end - last_nl_pos < n_indent
        text == IF short THEN Upto(s.text, end) ELSE s.text
    IN  /\ has_next_token /\ n_tokens < MAX_TOKENS
        /\ n_tokens' = n_tokens + 1
        /\ said' = said \o piece
        /\ sent' = sent \o s.to_send
        /\ n_sent_text' = n_sent_text + Len(s.to_send)
        /\ generated_text' = text
        /\ cut' = short
        /\ last_nl_pos' = IF indented THEN NextNewline(text) ELSE last_nl_pos
        /\ has_new_line' = (has_new_line \/ Newline \in {s.seen[i] : i \in DOMAIN s.seen})
        /\ has_next_token' = (~s.word /\ ~limit /\ ~short /\ ended = "none")
        /\ stop' = CASE ended # "none" -> ended
                     [] ended = "none" /\ (short \/ (limit /\ ~s.word)) -> "limit"
                     [] ended = "none" /\ ~short /\ s.word -> "word"
                     [] OTHER -> "none"
        /\ UNCHANGED <<antiprompt, n_indent>>

\* release: the slot is free for another task.
Released ==
    /\ ~has_next_token \/ n_tokens = MAX_TOKENS
    /\ UNCHANGED vars

\* The model's tokens make a text of well-formed characters.
Next ==
    \/ \E piece \in Pieces, limit \in BOOLEAN, ended \in {"none", "limit", "eos"} :
          WellFormed(said \o piece) /\ process_token(piece, limit, ended)
    \/ Released

Spec == Init /\ [][Next]_vars

-----------------------------------------------------------------------------
(* Properties.                                                             *)

\* A stop word ends the generation as soon as it is there, however tokens cut it or
\* run past it, and the answer is what was said before the first one; without a stop
\* word nothing is cut off.  (The line that is cut for its indentation excepted.  And
\* no piece both ends a stop word and begins a character it does not complete: the
\* word would be searched for only with the next piece, from the end of that one.)
StopsAtFirst ==
    LET words == UNION {Occurrences(w, said) : w \in antiprompt}
    IN  ~cut => IF words = {} THEN generated_text = said /\ stop # "word"
                ELSE generated_text = Upto(said, Min(words)) /\ ~has_next_token

\* Once the generation has ended, the partial results of a stream are the answer, as
\* the final result, which has no content then, takes for granted.  Text that may
\* become a stop word, or ends within a character, is still held back when a limit or
\* the end-of-generation token ends the generation: stream_end refutes it.
ContentSent == ~has_next_token /\ ~cut => sent = generated_text

\* What a stream has passed on is whole characters and a beginning of the answer, no
\* part of a stop word included; and ContentSent fails for no other reason: all of the
\* answer is passed on if a stop word ended it, or if it ends with a whole character
\* and with no beginning of a stop word.
StreamedText ==
    /\ Whole(sent)
    /\ sent = Upto(said, Len(sent))
    /\ ~cut => sent = Upto(generated_text, Len(sent))
    /\ ~has_next_token /\ ~cut /\ sent # generated_text =>
          /\ stop # "word"
          /\ \/ ~Whole(generated_text)
             \/ \E w \in antiprompt, n \in 1..Len(generated_text) :
                   n < Len(w) /\ From(generated_text, Len(generated_text) - n) = Upto(w, n)
=============================================================================

------------------------------- MODULE Deque -------------------------------
(***************************************************************************)
(* The one std::deque / std::vector operation of the server's queues that  *)
(* the standard module does not offer in a form that can be reasoned about *)
(* for every sequence: the erase/remove_if idiom, which keeps the elements *)
(* at some positions and closes the gaps.                                  *)
(***************************************************************************)
EXTENDS Integers, Sequences, FiniteSets

\* How many positions of K are not after position i.
Rank(K, i) == Cardinality({j \in K : j <= i})

\* The elements of s at the positions K, in their order: what is left of s
\* once erase(remove_if(...)) dropped the elements at all other positions.
KeepAt(s, K) ==
    [n \in 1..Cardinality(K) |-> s[CHOOSE i \in K : Rank(K, i) = n]]

\* s without its i-th element: erase(begin() + i).
EraseAt(s, i) == KeepAt(s, DOMAIN s \ {i})
=============================================================================

---------------------------- MODULE Subsequences ----------------------------
(***************************************************************************)
(* Elements of a sequence by their places: what ORDER BY, Array.filter and *)
(* the deduplication of a list keep, and in which order.                   *)
(***************************************************************************)
EXTENDS Naturals, Sequences, FiniteSets

\* A finite set of numbers in ascending order.
Ascending(S) ==
    [k \in 1..Cardinality(S) |-> CHOOSE i \in S : Cardinality({j \in S : j <= i}) = k]

\* The elements of s at the places I, in the order of s.
At(s, I) == [k \in DOMAIN Ascending(I) |-> s[Ascending(I)[k]]]

\* s.filter(x => S.has(x)).
Filter(s, S) == At(s, {i \in DOMAIN s : s[i] \in S})

\* The places of s where an element stands for the first time.
Firsts(s) == {i \in DOMAIN s : \A j \in 1..(i - 1) : s[j] # s[i]}
=============================================================================

------------------------------ MODULE Ordering ------------------------------
(***************************************************************************)
(* The members of a finite set of naturals in ascending order: how a loop  *)
(* over a file or an answer that keeps some of its places leaves them.     *)
(* Sorting and selecting in SequencesExt take their test as an operator,   *)
(* about which the proof system has no facts; this takes a set.            *)
(***************************************************************************)
EXTENDS Naturals, FiniteSets

Seqs == INSTANCE SequencesExt

Before(S, n) == {m \in S : m < n}

Ascending(S) == [k \in 1..Cardinality(S) |-> CHOOSE n \in S : Cardinality(Before(S, n)) = k - 1]

(* What s has at these places.                                             *)
Picked(s, places) == LET at == Ascending(places) IN [k \in DOMAIN at |-> s[at[k]]]
=============================================================================

--------------------------------- MODULE Ranks ---------------------------------
(***************************************************************************)
(* The elements of a sequence at some of its positions, in their order:    *)
(* what a filter keeps of a list.  Written by counting positions rather    *)
(* than with SelectSeq, which is recursive and so beyond proof.            *)
(***************************************************************************)
EXTENDS Integers, Sequences, FiniteSets

\* The positions of S at or below which S has k of them: its k-th one.
Ranked(S, k) == {n \in S : Cardinality({m \in S : m <= n}) = k}
Nth(S, k) == CHOOSE n \in Ranked(S, k) : TRUE

Picked(seq, S) == [k \in 1..Cardinality(S) |-> seq[Nth(S, k)]]
=============================================================================

----------------------------- MODULE Selection -----------------------------
(* The members of a sequence at chosen places: SelectSeq by the set of the *)
(* places, for the provers know nothing of SelectSeq.                      *)
EXTENDS Integers, FiniteSets

\* The k-th smallest of a finite set of numbers.
Nth(S, k) == CHOOSE i \in S : Cardinality({j \in S : j <= i}) = k

Picked(s, S) == [k \in 1 .. Cardinality(S) |-> s[Nth(S, k)]]
=============================================================================

------------------------------ MODULE Positions ------------------------------
(* What the loops of the code select from their queues: the first entries *)
(* that satisfy something, and those at chosen positions, in their order. *)
EXTENDS Integers, Sequences, FiniteSets

Lesser(m, n) == IF m < n THEN m ELSE n
Least(S) == CHOOSE x \in S : \A y \in S : x <= y
Greatest(S) == CHOOSE x \in S : \A y \in S : x >= y

(* The k-th least of a set of numbers; the entries of a queue at the *)
(* positions I; a queue without its first n entries.                 *)
Nth(I, k) == CHOOSE i \in I : Cardinality({j \in I : j <= i}) = k
At(s, I) == [k \in 1 .. Cardinality(I) |-> s[Nth(I, k)]]
Drop(s, n) == SubSeq(s, n + 1, Len(s))
===============================================================================

------------------------------- MODULE Ranking -------------------------------
(***************************************************************************)
(* What slices.SortFunc, slices.SortStableFunc and a filtering loop do to  *)
(* a slice. An order is the set of the pairs <<x, y>> with x before y, and *)
(* the list of a set is told by counting: a member's place is the number   *)
(* of the members before it.                                               *)
(***************************************************************************)
EXTENDS Integers, FiniteSets, Sequences

\* The members of a finite set in a total order of it.
Ranked(S, before) ==
    [n \in 1..Cardinality(S) |->
        CHOOSE x \in S : Cardinality({y \in S : <<y, x>> \in before}) = n - 1]

Ascending(S) == {p \in S \X S : p[1] < p[2]}

\* What s holds at the positions I, in the order of s.
Where(s, I) ==
    LET order == Ranked(I, Ascending(I))
    IN [n \in 1..Cardinality(I) |-> s[order[n]]]

\* cmp.Compare over a list of fields, the first difference deciding.
LexBefore(s, t) ==
    \/ \E i \in DOMAIN s \cap DOMAIN t :
          s[i] < t[i] /\ \A j \in 1..(i - 1) : s[j] = t[j]
    \/ Len(s) < Len(t) /\ \A i \in DOMAIN s : s[i] = t[i]

ByFields(S) == {p \in S \X S : LexBefore(p[1], p[2])}

\* s sorted by the list of numbers each element is given, stably.
SortedBy(s, keys) ==
    LET D      == 1..Len(s)
        before == {p \in D \X D :
                     \/ LexBefore(keys[p[1]], keys[p[2]])
                     \/ keys[p[1]] = keys[p[2]] /\ p[1] < p[2]}
        order  == Ranked(D, before)
    IN [n \in 1..Cardinality(D) |-> s[order[n]]]
=============================================================================

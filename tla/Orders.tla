------------------------------- MODULE Orders -------------------------------
(* A set in an order: what iterating a std::map, ORDER BY and walking a tree *)
(* from left to right give.  An order is a set of pairs <<earlier, later>>.  *)
EXTENDS Integers, FiniteSets

\* the elements of S, each at its place
InOrder(S, before) ==
    [i \in 1..Cardinality(S) |-> CHOOSE a \in S : Cardinality({b \in S : <<b, a>> \in before}) = i - 1]

\* first to last of a sequence
InSequence(s) ==
    {pair \in {s[i] : i \in DOMAIN s} \X {s[i] : i \in DOMAIN s} :
       \E i, j \in DOMAIN s : i < j /\ pair = <<s[i], s[j]>>}
=============================================================================

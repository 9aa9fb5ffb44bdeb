----------------------------- MODULE MCWikiWriters -----------------------------
(* Two pages of one name in two categories, so that the candidate for one     *)
(* replaces that for the other, and a synthesis.                              *)
EXTENDS WikiWriters, TLC

CONSTANTS concept, entity, synthesis, one, two

NameOfPage == [p \in Pages |-> IF p = synthesis THEN "synthesis" ELSE "topic"]
NoneOrAll == {{}, Pages}
SomeWriters == {one, two}
Interchangeable == Permutations(SomeWriters) \cup Permutations({concept, entity})
=============================================================================

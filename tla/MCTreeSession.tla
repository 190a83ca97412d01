--------------------------- MODULE MCTreeSession ---------------------------
EXTENDS TreeSession, TLC

CONSTANTS q1, q2, c1, c2, a, b

MCFold == a :> a @@ b :> b

Asks(required) == [options |-> {a, b}, required |-> required]
Edge(s, d, c)  == [source |-> s, target |-> d, condition |-> c]

\* An optional question with a conditional edge to a conclusion, followed by
\* a required one; and a chain of an older kind, without conclusions.
Skippable ==
  [questions   |-> q1 :> Asks(FALSE) @@ q2 :> Asks(TRUE),
   conclusions |-> {c1, c2},
   edges       |-> SetToBag({Edge(q1, c1, a), Edge(q1, q2, b), Edge(q1, q2, DefaultGuard),
                             Edge(q2, c1, a), Edge(q2, c2, b)})]
Chain ==
  [questions   |-> q1 :> Asks(TRUE) @@ q2 :> Asks(TRUE),
   conclusions |-> {},
   edges       |-> SetToBag({Edge(q1, q2, DefaultGuard)})]

MCTrees == {Skippable, Chain}
=============================================================================

---------------------------- MODULE MCGraphBuild ----------------------------
(* Trees a model might well return, one of four questions in a row, one    *)
(* that parts and meets again and a funnel, each whole or with up to three *)
(* slips of the kinds validation looks for, or with a question that may be *)
(* skipped and two slips; the last question has a hyphen in its id, and    *)
(* misspelt is "a" misspelt.                                               *)
EXTENDS GraphBuild, TLC

CONSTANTS q1, q2, q3, q4, c1, c2, a, b, misspelt

MCGates == <<q1, q2, q3, q4>>
MCFold == a :> a @@ b :> b @@ misspelt :> misspelt
MCSimilar == a :> {} @@ b :> {} @@ misspelt :> {a}

Arrow(n, m, on) == [source |-> n, target |-> m, condition |-> on]

DraftOf(asked, edges) ==
  [questions   |-> [q \in asked |-> [options |-> {a, b}, required |-> TRUE]],
   conclusions |-> {c1, c2}, edges |-> SetToBag(edges)]

InARow == DraftOf({q1, q2, q3, q4},
                  {Arrow(q1, q2, a), Arrow(q1, c1, b), Arrow(q2, q3, a), Arrow(q2, c1, b),
                   Arrow(q3, q4, a), Arrow(q3, c2, b), Arrow(q4, c2, a), Arrow(q4, c1, b)})
Parts  == DraftOf({q1, q2, q3},
                  {Arrow(q1, q2, a), Arrow(q1, q3, DefaultGuard), Arrow(q2, c1, a),
                   Arrow(q2, c2, b), Arrow(q3, c1, a), Arrow(q3, c2, b)})
Funnel == DraftOf({q1, q2, q3, q4},
                  {Arrow(q1, q2, a), Arrow(q1, q2, b), Arrow(q2, q3, DefaultGuard),
                   Arrow(q3, q4, DefaultGuard), Arrow(q4, c2, a), Arrow(q4, c1, b)})

SlipEdges(t) ==
  Edges(t) \cup {Arrow(q1, q1, a), Arrow(q4, q4, b), Arrow(q2, q3, DefaultGuard),
                 Arrow(q1, q4, DefaultGuard), Arrow(q2, c1, DefaultGuard),
                 Arrow(q1, q2, misspelt), Arrow(q3, c1, misspelt), Arrow(q4, q1, a), Arrow(c1, q1, a)}

\* An edge too many, be it a copy, or one too few.
Slips(t) ==
  {[t EXCEPT !.edges = @ (+) SetToBag({e})] : e \in SlipEdges(t)}
  \cup {[t EXCEPT !.edges = @ (-) SetToBag({e})] : e \in Edges(t)}

Slipped(T) == T \cup UNION {Slips(t) : t \in T}

\* One question may be skipped.
Optionally(t) == {[t EXCEPT !.questions[q].required = FALSE] : q \in Asked(t)}

MCReturned == {EmptyTree, [Parts EXCEPT !.conclusions = {c1}]}
             \cup Slipped(Slipped(Slipped({InARow, Parts, Funnel})))
             \cup Slipped(Slipped(Optionally(InARow) \cup Optionally(Parts)))
=============================================================================

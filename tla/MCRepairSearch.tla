--------------------------- MODULE MCRepairSearch ---------------------------
(* Small trees for RepairSearch. Questions are 1..4, conclusions 11 and 12,*)
(* options "a" and "b"; ids differ from graph order in Redundant.          *)
EXTENDS RepairSearch

Edge(s, o, d) == [src |-> s, on |-> o, dst |-> d]

Tree(entry, edges) ==
  [questions   |-> {e.src : e \in edges},
   options     |-> [q \in {e.src : e \in edges} |-> {"a", "b"}],
   conclusions |-> {11, 12},
   entry       |-> entry,
   edges       |-> edges]

\* A question that matters on some branches only, one that both branches
\* need, one that is always asked while the first may conclude already, and
\* one where every answer must be right.
Redundant == Tree(2, {Edge(2, "a", 1), Edge(2, "b", 3), Edge(1, "a", 11), Edge(1, "b", 3),
                      Edge(3, "a", 11), Edge(3, "b", 12)})
Forked == Tree(1, {Edge(1, "a", 2), Edge(1, "b", 3),
                   Edge(2, "a", 11), Edge(2, "b", 12),
                   Edge(3, "a", 11), Edge(3, "b", 12)})
Always == Tree(1, {Edge(1, DefaultGuard, 2), Edge(1, "b", 12),
                   Edge(2, "a", 11), Edge(2, "b", 12)})

Narrow == Tree(1, {Edge(q, "a", IF q = 4 THEN 12 ELSE q + 1) : q \in 1..4}
                     \cup {Edge(q, "b", 11) : q \in 1..4})

MCCases ==
  {[ir |-> t, phi |-> p] : t \in {Redundant, Forked, Always},
                           p \in {NoPhi, [reachable |-> {}, unreachable |-> {11}]}}
    \cup {[ir |-> t, phi |-> [reachable |-> {3}, unreachable |-> {}]] :
            t \in {Redundant, Forked}}
    \cup {[ir |-> Narrow, phi |-> NoPhi]}
=============================================================================

--------------------------- MODULE MCInquireLoop ---------------------------
(* Small trees for InquireLoop, three of them RepairSearch's. Question ids *)
(* and graph order differ on purpose in some of them: directives go by id, *)
(* reachability by edges. Forked needs a joint answer: D_1 is empty and the*)
(* witness search decides; in Redundant smaller supports exist than the    *)
(* whole evidence.                                                         *)
EXTENDS InquireLoop, MCRepairSearch

\* Two questions in a row: the first may conclude at once, the second may
\* lead to one conclusion, both, or none.
Chains ==
  {Tree(1, {Edge(1, "a", 2), Edge(1, "b", x)}
             \cup {Edge(2, "a", y) : y \in ya} \cup {Edge(2, "b", y) : y \in yb}) :
     x \in {11, 2}, ya \in {{11}, {11, 12}}, yb \in {{11}, {12}, {11, 12}}}

\* The second question only matters on one branch, ids against the graph.
Reversed == Tree(3, {Edge(3, "a", 11), Edge(3, "b", 1), Edge(1, "a", 12), Edge(1, "b", 11)})

\* A dead end, and an edge that is always followed.
DeadEnd == Tree(1, {Edge(1, "a", 2), Edge(2, "a", 11), Edge(1, "b", 3), Edge(3, "b", 11)})

Trees == Chains \cup {Reversed, Forked, DeadEnd, Always, Redundant}

MCLoopCases ==
  {[ir |-> t, phi |-> NoPhi] : t \in Trees}
    \cup {[ir |-> t, phi |-> p] :
            t \in {Forked, Always, Redundant},
            p \in {[reachable |-> {11}, unreachable |-> {}],
                   [reachable |-> {}, unreachable |-> {12}],
                   [reachable |-> {3}, unreachable |-> {11}]}}
=============================================================================

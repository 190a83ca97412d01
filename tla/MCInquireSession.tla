-------------------------- MODULE MCInquireSession --------------------------
(* A tree of two questions: 1 concludes at once on "b" and leads to 2 on   *)
(* "a"; 2 separates the two conclusions. Assuming conclusion 12 reachable  *)
(* makes some answers contradictory.                                       *)
EXTENDS InquireSession, TLC

MCIr ==
  [questions   |-> {1, 2},
   options     |-> (1 :> {"a", "b"}) @@ (2 :> {"a", "b"}),
   conclusions |-> {11, 12},
   entry       |-> 1,
   edges       |-> {[src |-> 1, on |-> "a", dst |-> 2], [src |-> 1, on |-> "b", dst |-> 11],
                    [src |-> 2, on |-> "a", dst |-> 11], [src |-> 2, on |-> "b", dst |-> 12]}]

MCPhis == {[reachable |-> {}, unreachable |-> {}], [reachable |-> {12}, unreachable |-> {}]}
\* Servers are alike, and so are keys.
MCSymmetry == Permutations(Servers) \cup Permutations(Keys)
=============================================================================

---------------------------- MODULE MCChatGather ----------------------------
(* The tree of MCInquireSession. The keys minted for chat answers are the  *)
(* answers themselves; the orchestrator has a key of its own.              *)
EXTENDS ChatGather, TLC

MCIr ==
  [questions   |-> {1, 2},
   options     |-> (1 :> {"a", "b"}) @@ (2 :> {"a", "b"}),
   conclusions |-> {11, 12},
   entry       |-> 1,
   edges       |-> {[src |-> 1, on |-> "a", dst |-> 2], [src |-> 1, on |-> "b", dst |-> 11],
                    [src |-> 2, on |-> "a", dst |-> 11], [src |-> 2, on |-> "b", dst |-> 12]}]

MCPhis == {NoPhi}

ASSUME MCIrAssumption == ConcludingIr

MCChatKey(q, o, v) == <<q, o, v>>
MCOwnKeys == {<<"own">>}
Says(q, o) == [op |-> "admit", q |-> q, opt |-> o, prov |-> "p"]
MCAnswers == {Says(1, "a"), Says(1, "b"), Says(2, "b")}
MCOneAnswer == {Says(1, "b")}
MCKeys == MCOwnKeys \cup {MCChatKey(x.q, x.opt, x.prov) : x \in MCAnswers}

MCSymmetryOfChats == Permutations(Chats)
=============================================================================

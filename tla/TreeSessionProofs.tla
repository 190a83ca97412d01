------------------------- MODULE TreeSessionProofs -------------------------
(***************************************************************************)
(* What a questionnaire session keeps, for every tree that passes the      *)
(* gates and every order of requests from every page left open.            *)
(***************************************************************************)
EXTENDS TreeSession, TLAPS

\* The inductive invariant: before the first page there is no current node.
SessionInv ==
  /\ TypeOK
  /\ AtConclusionIsRecorded
  /\ session.current = NoNode => shown = {}

\* Edges lead to nodes, and entry nodes are nodes.
LEMMA WaysLeadToNodes ==
  ASSUME NEW t, WellFormed(t)
  PROVE  /\ \A n : Targets(Out(t, n)) \subseteq Nodes(t)
         /\ \A n, o : NextNodes(t, n, o) \subseteq Nodes(t)
         /\ \A n : {e.source : e \in In(t, n)} \subseteq Nodes(t)
         /\ EntryNodes(t) \subseteq Nodes(t)
<1>1. \A e \in Edges(t) : e.target \in Nodes(t) /\ e.source \in Nodes(t)
  BY DEF WellFormed
<1>2. \A n : Targets(Out(t, n)) \subseteq Nodes(t)
  BY <1>1 DEF Targets, Out
<1>3. \A n, o : NextNodes(t, n, o) \subseteq Targets(Out(t, n))
  BY DEF NextNodes, Targets, DefaultsOf
<1>4. \A n : {e.source : e \in In(t, n)} \subseteq Nodes(t)
  BY <1>1 DEF In
<1>5. EntryNodes(t) \subseteq Nodes(t)
  BY DEF EntryNodes
<1> QED BY <1>2, <1>3, <1>4, <1>5

\* The node NoNode stands for is in no tree.
LEMMA NoNodeIsNone ==
  ASSUME NEW t, WellFormed(t)
  PROVE  NoNode \notin Nodes(t)
BY NodeIdsAssumption DEF WellFormed, Nodes

Row(t) == [current   : Nodes(t) \cup {NoNode},
           answers   : UNION {[Q -> Options] : Q \in SUBSET Asked(t)},
           concluded : t.conclusions \cup {NoNode},
           completed : BOOLEAN]

\* Rendering a node keeps the invariant, whatever the row held.
LEMMA RenderKeeps ==
  ASSUME tree' = tree, tree \in Trees, WellFormed(tree),
         shown \subseteq Nodes(tree) \cup {"done"},
         NEW s \in Row(tree), NEW n \in Nodes(tree), Render(s, n)
  PROVE  /\ SessionInv'
         /\ s.completed => session'.completed
         /\ s.concluded # NoNode => session'.concluded # NoNode
<1>1. session' \in Row(tree)
  BY DEF Render, Row, Nodes
<1>2. shown' \subseteq Nodes(tree) \cup {"done"}
  BY DEF Render
<1>3. session'.current = n /\ n # NoNode
  BY NoNodeIsNone DEF Render, Row
<1>4. n \in tree.conclusions => session'.concluded = n /\ session'.completed
  BY DEF Render, Row
<1>5. n \notin tree.conclusions =>
        session'.concluded = s.concluded /\ session'.completed = s.completed
  BY DEF Render, Row
<1>6. TypeOK'
  BY <1>1, <1>2 DEF TypeOK, Row, WellFormed, Nodes, Asked, Edges
<1>7. AtConclusionIsRecorded'
  BY <1>3, <1>4 DEF AtConclusionIsRecorded
<1> QED BY <1>3, <1>4, <1>5, <1>6, <1>7 DEF SessionInv

\* So does "next", from a row with a page rendered or from a new one.
LEMMA AdvanceKeeps ==
  ASSUME tree' = tree, tree \in Trees, WellFormed(tree),
         shown \subseteq Nodes(tree) \cup {"done"},
         NEW s \in Row(tree), Advance(s)
  PROVE  /\ SessionInv'
         /\ s.completed => session'.completed
         /\ s.concluded # NoNode => session'.concluded # NoNode
<1>1. CASE \E n \in EntryNodes(tree) : Render(s, n)
  BY <1>1, RenderKeeps, WaysLeadToNodes
<1>2. CASE s.current \in tree.conclusions /\ Render(s, s.current)
  BY <1>2, RenderKeeps DEF Nodes
<1>3. CASE s.current \in Asked(tree) /\ \E n \in Forward(s, FALSE) : Render(s, n)
  <2>1. Forward(s, FALSE) \subseteq Nodes(tree)
    BY <1>3, WaysLeadToNodes DEF Forward, Nodes
  <2> QED BY <1>3, <2>1, RenderKeeps
<1> QED BY <1>1, <1>2, <1>3 DEF Advance

\* Every request keeps the invariant and what the row has recorded.
LEMMA StepKeeps ==
  ASSUME SessionInv, [Next]_vars
  PROVE  /\ SessionInv'
         /\ session.completed => session'.completed
         /\ session.concluded # NoNode => session'.concluded # NoNode
<1> USE DEF SessionInv
<1>1. CASE UNCHANGED vars
  BY <1>1 DEF vars, TypeOK, AtConclusionIsRecorded, WellFormed, Nodes, Asked, Edges
<1>2. CASE tree' = tree /\ Next
  <2>2. /\ tree' = tree /\ tree \in Trees /\ WellFormed(tree) /\ session \in Row(tree)
        /\ shown \subseteq Nodes(tree) \cup {"done"}
    BY <1>2 DEF TypeOK, Row
  <2>3. CASE Start
    BY <2>2, <2>3, AdvanceKeeps DEF Start
  <2>4. ASSUME NEW q \in QuestionIds, NEW o \in Options, SubmitAnswer(q, o)
        PROVE  /\ SessionInv'
               /\ session.completed => session'.completed
               /\ session.concluded # NoNode => session'.concluded # NoNode
    <3> DEFINE s == [session EXCEPT !.answers =
                      [x \in Answered(session) \cup {q} |->
                         IF x = q THEN o ELSE session.answers[x]]]
    <3>1. /\ s \in Row(tree) /\ s.completed = session.completed
          /\ s.concluded = session.concluded /\ s.current = session.current
      <4>1. PICK Q \in SUBSET Asked(tree) : session.answers \in [Q -> Options]
        BY <2>2 DEF Row
      <4>2. [x \in Answered(session) \cup {q} |-> IF x = q THEN o ELSE session.answers[x]]
               \in [Q \cup {q} -> Options]
        BY <4>1 DEF Answered
      <4>3. Q \cup {q} \in SUBSET Asked(tree)
        BY <4>1, <2>4 DEF SubmitAnswer
      <4> QED BY <2>2, <4>2, <4>3 DEF Row
    <3>2. s.current \in Nodes(tree)
      BY <3>1, <2>2, <2>4 DEF SubmitAnswer, Row
    <3>3. Finish(s) \/ Advance(s)
      BY <2>4 DEF SubmitAnswer
    <3> HIDE DEF s
    <3>4. CASE Advance(s)
      BY <3>1, <3>4, <2>2, AdvanceKeeps
    <3>5. CASE Finish(s)
      <4>1. CASE Render(s, s.current)
        BY <3>1, <3>2, <4>1, <2>2, RenderKeeps
      <4>2. CASE session' = [s EXCEPT !.completed = TRUE] /\ shown' = shown \cup {"done"}
        <5>1. /\ session' \in Row(tree) /\ session'.completed
              /\ session'.current = session.current /\ session'.concluded = session.concluded
          BY <4>2, <3>1 DEF Row
        <5>2. session.current # NoNode
          BY <2>4 DEF SubmitAnswer
        <5>3. TypeOK'
          BY <5>1, <4>2, <2>2 DEF TypeOK, Row, WellFormed, Nodes, Asked, Edges
        <5>4. AtConclusionIsRecorded'
          BY <5>1, <2>2 DEF AtConclusionIsRecorded
        <5> QED BY <5>1, <5>2, <5>3, <5>4
      <4> QED BY <3>5, <4>1, <4>2 DEF Finish
    <3> QED BY <3>3, <3>4, <3>5
  <2>5. CASE Skip
    <3>1. session.current \in Nodes(tree)
      BY <2>2, <2>5 DEF Skip, Row
    <3>2. CASE Render(session, session.current)
      BY <3>1, <3>2, <2>2, RenderKeeps
    <3>3. CASE session.current \notin tree.conclusions
      <4>1. Forward(session, TRUE) \subseteq Nodes(tree)
        BY <3>1, <2>2, WaysLeadToNodes DEF Forward
      <4> QED BY <4>1, <3>3, <2>2, <2>5, RenderKeeps DEF Skip
    <3> QED BY <2>5, <3>2, <3>3 DEF Skip
  <2>6. CASE Previous
    <3>1. session.current \in Nodes(tree)
      BY <2>2, <2>6 DEF Previous, Row
    <3>2. Backward(session) \subseteq Nodes(tree)
      BY <3>1, <2>2, WaysLeadToNodes DEF Backward
    <3> QED BY <3>2, <2>2, <2>6, RenderKeeps DEF Previous
  <2>7. CASE Review
    <3>1. Answered(session) \subseteq Nodes(tree)
      BY <2>2 DEF Row, Answered, Nodes
    <3> QED BY <3>1, <2>2, <2>7, RenderKeeps, WaysLeadToNodes DEF Review
  <2> QED BY <1>2, <2>3, <2>4, <2>5, <2>6, <2>7 DEF Next
<1> QED BY <1>1, <1>2 DEF Next

\* The initial states satisfy the invariant.
LEMMA SessionStarts == Init => SessionInv
<1> SUFFICES ASSUME Init PROVE SessionInv
  OBVIOUS
<1>1. WellFormed(tree) /\ tree \in Trees
  BY DEF Init, Runnable
<1>2. NewSession \in Row(tree) /\ NewSession.current = NoNode
  <2>1. [q \in {} |-> {}] \in [{} -> Options]
    OBVIOUS
  <2> QED BY <2>1 DEF NewSession, Row
<1>3. NoNode \notin tree.conclusions
  BY <1>1, NoNodeIsNone DEF Nodes
<1> QED BY <1>1, <1>2, <1>3 DEF Init, SessionInv, TypeOK, AtConclusionIsRecorded, Row

\* Every state of a session satisfies the inductive invariant.
THEOREM SessionSafe == Spec => []SessionInv
<1>1. SessionInv /\ [Next]_vars => SessionInv'
  BY StepKeeps
<1> QED BY <1>1, SessionStarts, PTL DEF Spec

\* Whoever stands at a conclusion has it recorded, whichever page led there.
THEOREM ConclusionsAreRecorded == Spec => []AtConclusionIsRecorded
<1>1. SessionInv => AtConclusionIsRecorded
  BY DEF SessionInv
<1> QED BY <1>1, SessionSafe, PTL

\* No request takes a completion or a conclusion back.
THEOREM CompletionIsKept == Spec => CompletionStands
<1>1. SessionInv /\ [Next]_vars =>
        [/\ session.completed => session'.completed
         /\ session.concluded # NoNode => session'.concluded # NoNode]_vars
  BY StepKeeps
<1> QED BY <1>1, SessionSafe, PTL DEF Spec, CompletionStands
=============================================================================

----------------------------- MODULE TreeSession -----------------------------
(***************************************************************************)
(* One questionnaire session: a row in decision_tree_sessions that every   *)
(* request loads, moves along the tree and saves. The browser may have     *)
(* several pages of it open (other tabs, the back button), so a request    *)
(* can come from any page rendered so far, not only from the last one.     *)
(* Requests of one session are taken one at a time, and the tree is not    *)
(* edited meanwhile.                                                       *)
(***************************************************************************)
EXTENDS TreeGraph

CONSTANT Trees   \* trees a session may be started on

\* The gates in front of a session: start refuses a draft with errors, the
\* loader a graph that fails the strict check. Of several edges for one
\* answer the first in the list wins; trees that have such edges are left out.
Runnable(t) ==
  /\ WellFormed(t) /\ ~ EditingErrors(t) /\ StrictValid(t)
  /\ \A q \in Asked(t) : \A o \in t.questions[q].options :
       Cardinality(NextNodes(t, q, o)) <= 1

VARIABLES tree,     \* the tree of the session
          session,  \* the row: current node, answers, conclusion, completed
          shown     \* pages rendered so far: nodes, and "done"

vars == <<tree, session, shown>>

NewSession == [current |-> NoNode, answers |-> [q \in {} |-> {}],
               concluded |-> NoNode, completed |-> FALSE]

Init ==
  /\ tree \in Trees /\ Runnable(tree)
  /\ session = NewSession
  /\ shown = {}

Answered(s)       == DOMAIN s.answers
HasConditional(n) == ConditionsOf(Out(tree, n)) # {}

\* The questions the answers lead past, default edges standing in for what
\* is not answered (get_reachable_questions).
ReachableQuestions(answers) ==
  LET after(n) == IF n \in DOMAIN answers THEN NextNodes(tree, n, answers[n])
                  ELSE Targets(DefaultsOf(Out(tree, n)))
      path[k \in Nat] ==
        IF k = 0 THEN EntryNodes(tree)
        ELSE LET before == path[k - 1] IN before \cup UNION {after(n) : n \in before}
  IN  path[Cardinality(Nodes(tree))] \cap Asked(tree)

\* Where "next" and "skip" lead from the current question; {n} means stay.
\* Without an answer, or without conditions, the first edge is taken,
\* whatever it is.
Forward(s, skip) ==
  LET n     == s.current
      taken == IF HasConditional(n) /\ n \in Answered(s)
               THEN NextNodes(tree, n, s.answers[n]) ELSE Targets(Out(tree, n))
      stay  == \/ ~ skip /\ n \notin Answered(s) /\ tree.questions[n].required
               \/ skip /\ HasConditional(n)
               \/ taken = {}
  IN  IF stay THEN {n} ELSE taken

\* Where "previous" leads: to an answered predecessor if there is one.
Backward(s) ==
  LET sources  == {e.source : e \in In(tree, s.current)}
      answered == sources \cap Answered(s)
  IN  IF sources = {} THEN {s.current} ELSE IF answered # {} THEN answered ELSE sources

\* Rendering a node makes it the current one and saves the row; a conclusion
\* also completes the session. The row keeps an earlier conclusion and the
\* time of completion when a question is rendered after them.
Render(s, n) ==
  /\ session' = [s EXCEPT !.current   = n,
                          !.concluded = IF n \in tree.conclusions THEN n ELSE @,
                          !.completed = @ \/ n \in tree.conclusions]
  /\ shown' = shown \cup {n}

\* "next", also the default of a request without an intent.
Advance(s) ==
  \/ /\ s.current = NoNode
     /\ \E n \in EntryNodes(tree) : Render(s, n)
  \/ s.current \in tree.conclusions /\ Render(s, s.current)
  \/ s.current \in Asked(tree) /\ \E n \in Forward(s, FALSE) : Render(s, n)

\* "finish": refused while a required question on the path is unanswered.
Finish(s) ==
  LET missing == {q \in ReachableQuestions(s.answers) :
                    tree.questions[q].required /\ q \notin Answered(s)}
  IN  IF missing # {} THEN Render(s, s.current)
      ELSE session' = [s EXCEPT !.completed = TRUE] /\ shown' = shown \cup {"done"}

\* POST /start: a new session, or the page reloaded.
Start == Advance(session)

\* POST /submit_answer from the page of q. The page of a question without
\* outgoing edges asks to finish.
SubmitAnswer(q, o) ==
  /\ q \in shown \cap Asked(tree) /\ o \in tree.questions[q].options
  /\ LET s == [session EXCEPT !.answers =
                 [x \in Answered(session) \cup {q} |-> IF x = q THEN o ELSE session.answers[x]]]
     IN  IF Out(tree, q) = {} THEN Finish(s) ELSE Advance(s)

\* POST /navigate. Each page offers what fits its own node.
Skip ==
  /\ \E p \in shown \cap Asked(tree) : ~ HasConditional(p) /\ ~ tree.questions[p].required
  /\ IF session.current \in tree.conclusions THEN Render(session, session.current)
     ELSE \E n \in Forward(session, TRUE) : Render(session, n)

Previous ==
  /\ \E p \in shown \cap Nodes(tree) : In(tree, p) # {}
  /\ \E n \in Backward(session) : Render(session, n)

\* Reopens at the key that comes last in the stored object of answers, an
\* order that has nothing to do with the order of answering.
Review ==
  /\ "done" \in shown
  /\ \E n \in IF Answered(session) # {} THEN Answered(session) ELSE EntryNodes(tree) :
       Render(session, n)

Next ==
  /\ UNCHANGED tree
  /\ \/ Start
     \/ \E q \in QuestionIds, o \in Options : SubmitAnswer(q, o)
     \/ Skip
     \/ Previous
     \/ Review

Spec == Init /\ [][Next]_vars

-----------------------------------------------------------------------------
(* Properties.                                                             *)

\* The row holds nodes and options of its tree.
TypeOK ==
  /\ tree \in Trees /\ WellFormed(tree)
  /\ session \in [current   : Nodes(tree) \cup {NoNode},
                  answers   : UNION {[Q -> Options] : Q \in SUBSET Asked(tree)},
                  concluded : tree.conclusions \cup {NoNode},
                  completed : BOOLEAN]
  /\ shown \subseteq Nodes(tree) \cup {"done"}

\* Whoever stands at a conclusion has it recorded and is complete, whichever
\* page led there.
AtConclusionIsRecorded ==
  session.current \in tree.conclusions =>
    session.concluded = session.current /\ session.completed

\* Nothing takes a completion back, and a recorded conclusion is only ever
\* replaced by another one.
CompletionStands ==
  [][/\ session.completed => session'.completed
     /\ session.concluded # NoNode => session'.concluded # NoNode]_vars

\* "Conclusions can only be reached by explicit answers, not fallbacks."
\* (validate_graph): when a conclusion is recorded, some answer of the
\* session selects an edge to it.
ConclusionsByExplicitAnswers ==
  [][session'.concluded # session.concluded =>
       \E e \in Edges(tree) :
         /\ e.target = session'.concluded /\ e.condition # DefaultGuard
         /\ e.source \in DOMAIN session'.answers
         /\ Fold[e.condition] = Fold[session'.answers[e.source]]]_vars
=============================================================================

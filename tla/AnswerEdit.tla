----------------------------- MODULE AnswerEdit -----------------------------
(***************************************************************************)
(* What another set of answers would do: smeme_reasoning_what_if compares  *)
(* the reports before and after an edit, smeme_reasoning_edit_affects_path *)
(* asks whether the path the report shows stays forced. Both evaluate the  *)
(* answers as given first, and evaluating reads everything but its last    *)
(* check off one model the solver shows, whichever it likes.               *)
(*                                                                         *)
(* Answers are pairs <<q, opt>>. An override may also be Blank, the empty  *)
(* text; it answers nothing, so merging leaves the answer as it was. One   *)
(* action per evaluation or list of queries; each may come back unknown.   *)
(***************************************************************************)
EXTENDS RepairSearch

CONSTANTS
  EditCases,   \* some of Cases
  Titlings,    \* ways to give conclusions titles
  Blank,       \* an answer of white space
  MostEdited   \* the bound on the questions an override names

ASSUME EditCasesAssumption == EditCases \subseteq Cases

VARIABLES
  edit,    \* [tool, ir, phi, given, override, title]
  turn,    \* "before", "route", "standing", "after", "conclusions", "done"
  evalBefore, \* eval_before with its report
  evalAfter, \* eval_after with its report (what_if)
  standing, \* base_conclusions: conclusions forced before (edit_affects_path)
  lost,    \* lost_ids: nodes of the path no longer forced
  told     \* what the client is told

editVars == <<edit, turn, evalBefore, evalAfter, standing, lost, told>>

-----------------------------------------------------------------------------
(* Answers.                                                                *)

\* A blank answer becomes no fact (raw_answers_to_canonical_facts).
Said(answers) == {p \in answers : p[2] # Blank}

\* The override wins.
Merged(given, override) ==
  {p \in given : p[1] \notin {o[1] : o \in Said(override)}} \cup Said(override)

After == Merged(edit.given, edit.override)

-----------------------------------------------------------------------------
(* Evaluating.                                                             *)

TriggeredEdges(ir, m) ==
  {e \in ir.edges : e.src \in m.reached /\ (e.on = DefaultGuard \/ m.choice[e.src] = e.on)}

\* _topological_node_order, whose order is left out.
TriggeredNodes(ir, m) ==
  {e.src : e \in TriggeredEdges(ir, m)} \cup {e.dst : e \in TriggeredEdges(ir, m)}

\* reasoning_path_node_ids: of those, answered questions and conclusions.
ReasoningPath(ir, E, m) ==
  TriggeredNodes(ir, m) \cap (ir.conclusions \cup {p[1] : p \in E})

NoReport(kind) == [kind |-> kind, alt |-> "none", concludes |-> {}, path |-> {}]

\* Mutant: the answer of the last check is read the wrong way round.
ReportsTurnedRound(r, E, m) ==
  LET concludes == m.reached \cap r.ir.conclusions
      report(kind, alt) == [kind |-> kind, alt |-> alt, concludes |-> concludes,
                           path |-> ReasoningPath(r.ir, E, m)]
      truth == IF \A c \in concludes, o \in Base(r, E) : c \in o.reached THEN "unsat" ELSE "sat"
  IN  IF concludes = {} THEN {report("needs_more_information", "none")}
      ELSE IF Cardinality(concludes) > 1 THEN {report("multiple_outcomes_possible", "none")}
      ELSE {report(IF alt = "sat" THEN "concluded" ELSE "multiple_outcomes_possible", alt) :
              alt \in {truth, "unknown"}}

\* The reports on the model shown. A single conclusion is asked about again:
\* is there a model without it? alt is what this last check answers, which may
\* be "unknown". Only a model found tells against the conclusion: it is
\* reported when there is none, and when the check gives up.
Reports(r, E, m) ==
  LET concludes == m.reached \cap r.ir.conclusions
      report(kind, alt) == [kind |-> kind, alt |-> alt, concludes |-> concludes,
                            path |-> ReasoningPath(r.ir, E, m)]
      truth == IF \A c \in concludes, o \in Base(r, E) : c \in o.reached THEN "unsat" ELSE "sat"
  IN  IF concludes = {} THEN {report("needs_more_information", "none")}
      ELSE IF Cardinality(concludes) > 1 THEN {report("multiple_outcomes_possible", "none")}
      ELSE {report(IF alt = "sat" THEN "multiple_outcomes_possible" ELSE "concluded", alt) :
              alt \in {truth, "unknown"}}

\* evaluate_with_canonical_facts and the report built on it. Either of the
\* checks before, of the answers and of the assumptions, may come back
\* unknown: the report then asks for more.
Evaluates(r, E) ==
  {NoReport("needs_more_information")}
    \cup (IF Models(Runs[r.ir], E) = {} THEN {NoReport("answers_inconsistent")}
          ELSE IF Base(r, E) = {} THEN {NoReport("assumptions_inconsistent")}
          ELSE UNION {Reports(r, E, m) : m \in Base(r, E)})

\* _candidate_titles: a later conclusion of the same title takes the place
\* of an earlier one; all candidates of a report have the same status.
CandidateTitles(report) ==
  {<<edit.title[c], IF report.kind = "concluded" THEN "selected" ELSE "possible">> :
     c \in report.concludes}

\* build_what_if_delta: kinds, titles and their status.
OutcomeChanged(b, a) ==
  b.kind # a.kind \/ CandidateTitles(b) # CandidateTitles(a)

-----------------------------------------------------------------------------
(* Forced nodes.                                                           *)

Asking(n) == [ir |-> edit.ir, phi |-> edit.phi, target |-> n, mode |-> "entailed"]

\* Mutant: the query is made for all nodes at once, and fails only when none
\* of them is reached (the negation of a conjunction taken apart wrongly).
TogetherEntailed(E, nodes) ==
  IF \A m \in Base(edit, E) : nodes \cap m.reached # {} THEN nodes ELSE {}

\* _entailed_set
Entailed(E, nodes) == {n \in nodes : Gate(Asking(n), E) = "entailed"}

\* _raise_gate: why a query proves nothing. It is the same for all nodes.
Refusals(E, nodes) ==
  {Gate(Asking(n), E) : n \in nodes} \ {"entailed", "not_entailed"}

-----------------------------------------------------------------------------
NothingTold == [code |-> "none", kept |-> FALSE, changed |-> FALSE,
                newly |-> {}, gone |-> {}]

\* Overrides of at most MostEdited questions.
Overrides(ir) ==
  UNION {{{<<q, f[q]>> : q \in Q} :
            f \in {g \in [Q -> (UNION {ir.options[q] : q \in Q}) \cup {Blank}] :
                     \A q \in Q : g[q] \in ir.options[q] \cup {Blank}}} :
           Q \in {S \in SUBSET ir.questions : Cardinality(S) <= MostEdited}}

EditInit ==
  /\ \E c \in EditCases, tool \in {"what_if", "edit_affects_path"}, title \in Titlings :
       \E given \in UNION {AnswersTo(c.ir, Q) : Q \in SUBSET c.ir.questions},
          over \in Overrides(c.ir) :
         edit = [tool |-> tool, ir |-> c.ir, phi |-> c.phi, given |-> given,
                 override |-> over, title |-> title]
  /\ turn = "before" /\ evalBefore = NoReport("none") /\ evalAfter = NoReport("none")
  /\ standing = {} /\ lost = {} /\ told = NothingTold

Tell(what) == turn' = "done" /\ told' = what /\ UNCHANGED <<edit, standing, lost>>

Refuse(code) == Tell([NothingTold EXCEPT !.code = code]) /\ UNCHANGED <<evalBefore, evalAfter>>

EvaluateBefore ==
  /\ turn = "before"
  /\ evalBefore' \in Evaluates(edit, edit.given)
  /\ UNCHANGED evalAfter
  /\ IF edit.tool = "edit_affects_path" /\ evalBefore'.path = {}
     THEN Tell([NothingTold EXCEPT !.code = "path_not_entailed_at_baseline"])
     ELSE /\ turn' = IF edit.tool = "what_if" THEN "after" ELSE "route"
          /\ UNCHANGED <<edit, standing, lost, told>>

\* what_if: the second report and the difference.
EvaluateAfter ==
  /\ turn = "after" /\ edit.tool = "what_if"
  /\ evalAfter' \in Evaluates(edit, After)
  /\ UNCHANGED evalBefore
  /\ Tell([NothingTold EXCEPT !.code = "compared", !.changed = OutcomeChanged(evalBefore, evalAfter')])

\* Is the path shown forced by the answers as given?
CheckRoute ==
  /\ turn = "route"
  /\ IF evalBefore.path \ Entailed(edit.given, evalBefore.path) # {}
     THEN Refuse("path_not_entailed_at_baseline")
     ELSE turn' = "standing" /\ UNCHANGED <<edit, evalBefore, evalAfter, standing, lost, told>>

Stand ==
  /\ turn = "standing"
  /\ standing' = Entailed(edit.given, edit.ir.conclusions)
  /\ turn' = "after" /\ UNCHANGED <<edit, evalBefore, evalAfter, lost, told>>

\* Is it forced after the edit?
CheckRouteAfter ==
  /\ turn = "after" /\ edit.tool = "edit_affects_path"
  /\ \/ \E code \in Refusals(After, evalBefore.path) : Refuse(code)
     \/ /\ Refusals(After, evalBefore.path) = {}
        /\ lost' = evalBefore.path \ Entailed(After, evalBefore.path)
        /\ turn' = "conclusions" /\ UNCHANGED <<edit, evalBefore, evalAfter, standing, told>>

CheckConclusionsAfter ==
  /\ turn = "conclusions"
  /\ LET now == Entailed(After, edit.ir.conclusions)
     IN  Tell([NothingTold EXCEPT !.code = "path", !.kept = (lost = {}),
                                  !.newly = now \ standing, !.gone = standing \ now])
  /\ UNCHANGED <<evalBefore, evalAfter>>

\* A query times out, or the budget of queries is used up.
PathQueryFails ==
  /\ edit.tool = "edit_affects_path" /\ turn \notin {"before", "done"}
  /\ \E code \in {"solver_timeout", "search_cap_exceeded"} : Refuse(code)

EditNext ==
  \/ EvaluateBefore \/ EvaluateAfter
  \/ CheckRoute \/ Stand \/ CheckRouteAfter \/ CheckConclusionsAfter
  \/ PathQueryFails

EditSpec == EditInit /\ [][EditNext]_editVars

-----------------------------------------------------------------------------
(* What is promised.                                                       *)

\* The conclusions answers E force: those every model reaches, if there is one.
ForcedConclusions(E) ==
  {c \in edit.ir.conclusions :
     /\ Base(edit, E) # {} /\ \A m \in Base(edit, E) : c \in m.reached}

\* A report on answers E speaks of conclusion c, with proof or without.
PointsAt(report, E, c) ==
  /\ \E m \in Base(edit, E) : c \in m.reached
  /\ ForcedConclusions(E) \subseteq {c}
  /\ report.alt # "unknown" => ForcedConclusions(E) = {c}

\* An edit said to leave the path as it is costs no conclusion: what the
\* answers forced before, the edited answers force too, and none is listed as
\* no longer forced (run_edit_affects_path). The path is read off one model
\* and holds what the answers force only because that model is one of theirs.
\* (A new conclusion may well be forced beside it, in a tree that can reach
\* several at once.)
KeptPathKeepsConclusions ==
  told.code = "path" /\ told.kept =>
    ForcedConclusions(edit.given) \subseteq ForcedConclusions(After) /\ told.gone = {}

\* When what_if says of a concluded case that its outcome does not change, it
\* is about one conclusion c before and after (build_what_if_delta compares
\* titles, so conclusions need titles of their own; nothing in the editor or
\* in validation makes them differ). Answers whose last check answered force c
\* and nothing else; if it gave up, c is reported without proof: the answers
\* allow it, perhaps others too, but never force another one.
UnchangedOutcomeStands ==
  /\ told.code = "compared" /\ ~told.changed /\ evalBefore.kind = "concluded"
  /\ \A c, d \in edit.ir.conclusions : c # d => edit.title[c] # edit.title[d]
  => \E c \in edit.ir.conclusions :
       /\ PointsAt(evalBefore, edit.given, c)
       /\ PointsAt(evalAfter, After, c)
=============================================================================

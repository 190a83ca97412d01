---------------------------- MODULE MCGeneration ----------------------------
(* The generation of a tree, seen twice: the wizard, whose builds are      *)
(* opaque, and one build. The two share no variable; the initial state     *)
(* says which of them moves, and nothing of the other is enabled.          *)
EXTENDS Wizard, MCGraphBuild

BuildOver ==
  graph = NoGraph /\ errors = {BuildFailed} /\ status = "has_errors" /\ rounds = 3 /\ at = "end"

WizardOver ==
  /\ generation = [there |-> FALSE, fresh |-> FALSE] /\ thread = NoThread
  /\ run = [x \in Actors |-> NotRunning] /\ page = [x \in Tabs |-> Page("gone")]
  /\ trees = <<>> /\ cleaning = "idle" /\ mishaps = {}

GenerationInit == (WizardInit /\ BuildOver) \/ (WizardOver /\ BuildInit)

GenerationNext ==
  \/ ~WizardOver /\ WizardNext /\ UNCHANGED buildVars
  \/ BuildNext /\ UNCHANGED wizardVars

GenerationSpec ==
  GenerationInit /\ [][GenerationNext]_<<wizardVars, buildVars>> /\ WizardFairness
=============================================================================

------------------------------ MODULE Workflows ------------------------------
(***************************************************************************)
(* The built-in workflows of internal/workflows/workflows.go: staged       *)
(* graphs of worker, review, gate and terminal stages.  Roles, prompts and *)
(* scopes (empty in every built-in workflow) are left out: a caller that   *)
(* names the current stage with another role is rejected before any write. *)
(***************************************************************************)
EXTENDS Naturals

\* The empty stage name: what an unset Next holds, and a stage no workflow has.
NoStage == ""

Stage(kind, readOnly, artifact, next) ==
  [kind |-> kind, readOnly |-> readOnly, artifact |-> artifact, next |-> next, onFixes |-> NoStage]

Editor(next) == Stage("worker", FALSE, "none", next)
Reader(artifact, next) == Stage("worker", TRUE, artifact, next)

\* A review stage leaves to `approved` or to `fixes`, as its verdict says.
Reviewer(approved, fixes) == [Stage("review", TRUE, "none", approved) EXCEPT !.onFixes = fixes]

Gate(next) == Stage("gate", FALSE, "none", next)
Terminal == Stage("terminal", FALSE, "none", NoStage)

Quick ==
  [ explore   |-> Reader("none", "implement"),
    implement |-> Editor("verify"),
    verify    |-> Gate("done"),
    done      |-> Terminal ]

Review ==
  [ explore   |-> Reader("none", "implement"),
    implement |-> Editor("review"),
    review    |-> Reviewer("verify", "fix"),
    fix       |-> Editor("review"),
    verify    |-> Gate("done"),
    done      |-> Terminal ]

SDD ==
  [ explore   |-> Reader("none", "propose"),
    propose   |-> Reader("proposal", "plan"),
    plan      |-> Reader("plan", "implement"),
    implement |-> Editor("review"),
    review    |-> Reviewer("verify", "fix"),
    fix       |-> Editor("review"),
    verify    |-> Gate("done"),
    done      |-> Terminal ]

\* Every built-in workflow starts by exploring.
Start == "explore"

\* core/artifact.go: the stages that own an artifact, which is the one they require.
OwnsArtifact(st) == st.artifact # "none"
=============================================================================

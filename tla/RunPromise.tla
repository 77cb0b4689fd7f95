------------------------------ MODULE RunPromise ------------------------------
(***************************************************************************)
(* What the kernel promises of a run, without files, commands, retries or  *)
(* crashes: the workflow is gone through stage by stage, at each of them   *)
(* with one worker at a time; a stage is left on the clean close of a      *)
(* worker of this entry, a review on the verdict of its clean reviewer,    *)
(* the gate stage on gates that passed since the last agent; a run ends    *)
(* completed, after its last stage, and a stop for a human can happen at   *)
(* any moment.                                                             *)
(***************************************************************************)
EXTENDS Workflows

CONSTANTS
  Workflow,       \* the run's workflow
  GatesOptional   \* no gates are configured and none are required

VARIABLES
  status,    \* active, blocked or completed
  stage,     \* the current stage
  worker,    \* the active worker: none, open, interrupted, or closed clean or violating
  verdict,   \* what the clean reviewer of this entry into a review stage decided
  ready,     \* the stage was worked on, and nobody is at work
  passed     \* the gates passed and no agent has started since

vars == <<status, stage, worker, verdict, ready, passed>>

Kind(s) == IF s \in DOMAIN Workflow THEN Workflow[s].kind ELSE "none"

Init ==
  /\ status = "active"
  /\ stage = Start
  /\ worker = "none" /\ verdict = "none"
  /\ ready = FALSE /\ passed = FALSE

Open ==
  /\ status = "active" /\ worker = "none"
  /\ Kind(stage) \in {"worker", "review"}
  /\ worker' = "open" /\ verdict' = "none"
  /\ ready' = FALSE /\ passed' = FALSE
  /\ UNCHANGED <<status, stage>>

\* The close and the reviewer's verdict take effect together.
Close(outcome, decided) ==
  /\ worker = "open"
  /\ worker' = outcome
  /\ decided # "none" => Kind(stage) = "review" /\ outcome = "clean"
  /\ verdict' = decided
  /\ UNCHANGED <<status, stage, ready, passed>>

\* The run takes note of a clean close; a reviewer without a verdict is replaced.
Apply ==
  /\ status = "active" /\ worker = "clean"
  /\ worker' = "none"
  /\ ready' = (Kind(stage) = "worker")
  /\ UNCHANGED <<status, stage, verdict, passed>>

Enter(next) ==
  /\ stage' = next
  /\ ready' = FALSE /\ worker' = "none" /\ verdict' = "none"
  /\ UNCHANGED <<status, passed>>

LeaveWorker ==
  /\ status = "active"
  /\ Kind(stage) = "worker" /\ ready
  /\ Enter(Workflow[stage].next)

\* The verdict stands when the run is reopened between the review and its effect.
LeaveReview ==
  /\ status = "active"
  /\ Kind(stage) = "review" /\ worker \in {"clean", "none"}
  /\ \/ verdict = "approved" /\ Enter(Workflow[stage].next)
     \/ verdict = "needs_fixes" /\ Enter(Workflow[stage].onFixes)

RunGates(outcome) ==
  /\ status = "active" /\ Kind(stage) = "gate"
  /\ passed' = outcome
  /\ UNCHANGED <<status, stage, worker, verdict, ready>>

LeaveGate ==
  /\ status = "active"
  /\ Kind(stage) = "gate" /\ (passed \/ GatesOptional)
  /\ Enter(Workflow[stage].next)

Complete ==
  /\ status = "active" /\ Kind(stage) = "terminal"
  /\ status' = "completed"
  /\ UNCHANGED <<stage, worker, verdict, ready, passed>>

\* A run that is still active at its terminal stage, for the command that was to
\* complete it died: closing that stage leaves it for no stage at all.
LeaveTerminal ==
  /\ status = "active" /\ Kind(stage) = "terminal"
  /\ Enter(NoStage)

\* A start refused for the stage's budget counts as a new entry, without a verdict.
Block ==
  /\ status = "active"
  /\ status' = "blocked"
  /\ worker' = "none" /\ ready' = FALSE
  /\ verdict' \in {verdict, "none"}
  /\ UNCHANGED <<stage, passed>>

\* A human reopens the run.  The open worker is given up first.
Interrupt ==
  /\ worker = "open"
  /\ worker' = "interrupted"
  /\ UNCHANGED <<status, stage, verdict, ready, passed>>

\* Whether the stage counts as worked on is not settled by the reopening.
Resume ==
  /\ status \in {"active", "blocked"}
  /\ status' = "active"
  /\ worker # "open" /\ worker' = "none"
  /\ ready' \in BOOLEAN
  /\ ready' => Kind(stage) = "worker"
  /\ UNCHANGED <<stage, verdict, passed>>

Next ==
  \/ Open \/ Apply \/ LeaveWorker \/ LeaveReview \/ LeaveGate \/ Complete \/ LeaveTerminal
  \/ Block \/ Interrupt \/ Resume
  \/ \E outcome \in {"clean", "violating"}, decided \in {"none", "approved", "needs_fixes", "blocked"} :
       Close(outcome, decided)
  \/ \E outcome \in BOOLEAN : RunGates(outcome)

Spec == Init /\ [][Next]_vars
=============================================================================

--------------------------- MODULE RunPromiseProofs ---------------------------
(***************************************************************************)
(* What follows from the promise for every run of a workflow in which only *)
(* a gate stage leads to the terminal one, the built-in ones among them:   *)
(* no run completes on work its gates have not passed, and a completed run *)
(* is never touched again.                                                 *)
(***************************************************************************)
EXTENDS RunPromise, TLAPS

\* Stages on which no work is left to be verified: the terminal one, and none at all.
Past(s) == Kind(s) \in {"terminal", "none"}

GatedWorkflow ==
  /\ \A s \in DOMAIN Workflow :
       Workflow[s].kind \in {"worker", "review"} => ~Past(Workflow[s].next)
  /\ \A s \in DOMAIN Workflow :
       Workflow[s].kind = "review" => ~Past(Workflow[s].onFixes)
  /\ ~Past(Start)
  /\ NoStage \notin DOMAIN Workflow

Verified == passed \/ GatesOptional

CompletedIsVerified == status = "completed" => Verified

\* Why it holds: whoever is past the gate stage has come through it, and an agent,
\* whose start unmakes the gates' pass, starts neither there nor on a completed run.
PromiseInv ==
  /\ Past(stage) => Verified
  /\ CompletedIsVerified
  /\ worker # "none" => status = "active" /\ Kind(stage) \in {"worker", "review"}

\* workflows.go: the built-in workflows put their gates before the end.
LEMMA BuiltInsAreGated == Workflow \in {Quick, Review, SDD} => GatedWorkflow
<1>1. CASE Workflow = Quick
  <2>1. DOMAIN Workflow = {"explore", "implement", "verify", "done"}
    BY <1>1 DEF Quick
  <2>2. /\ Workflow["explore"].kind = "worker" /\ Workflow["explore"].next = "implement"
        /\ Workflow["implement"].kind = "worker" /\ Workflow["implement"].next = "verify"
        /\ Workflow["verify"].kind = "gate"
        /\ Workflow["done"].kind = "terminal"
    BY <1>1 DEF Quick, Stage, Editor, Reader, Reviewer, Gate, Terminal
  <2> QED BY <2>1, <2>2 DEF GatedWorkflow, Past, Kind, Start, NoStage
<1>2. CASE Workflow = Review
  <2>1. DOMAIN Workflow = {"explore", "implement", "review", "fix", "verify", "done"}
    BY <1>2 DEF Review
  <2>2. /\ Workflow["explore"].kind = "worker" /\ Workflow["explore"].next = "implement"
        /\ Workflow["implement"].kind = "worker" /\ Workflow["implement"].next = "review"
        /\ Workflow["review"].kind = "review" /\ Workflow["review"].next = "verify" /\ Workflow["review"].onFixes = "fix"
        /\ Workflow["fix"].kind = "worker" /\ Workflow["fix"].next = "review"
        /\ Workflow["verify"].kind = "gate"
        /\ Workflow["done"].kind = "terminal"
    BY <1>2 DEF Review, Stage, Editor, Reader, Reviewer, Gate, Terminal
  <2> QED BY <2>1, <2>2 DEF GatedWorkflow, Past, Kind, Start, NoStage
<1>3. CASE Workflow = SDD
  <2>1. DOMAIN Workflow = {"explore", "propose", "plan", "implement", "review", "fix", "verify", "done"}
    BY <1>3 DEF SDD
  <2>2. /\ Workflow["explore"].kind = "worker" /\ Workflow["explore"].next = "propose"
        /\ Workflow["propose"].kind = "worker" /\ Workflow["propose"].next = "plan"
        /\ Workflow["plan"].kind = "worker" /\ Workflow["plan"].next = "implement"
        /\ Workflow["implement"].kind = "worker" /\ Workflow["implement"].next = "review"
        /\ Workflow["review"].kind = "review" /\ Workflow["review"].next = "verify" /\ Workflow["review"].onFixes = "fix"
        /\ Workflow["fix"].kind = "worker" /\ Workflow["fix"].next = "review"
        /\ Workflow["verify"].kind = "gate"
        /\ Workflow["done"].kind = "terminal"
    BY <1>3 DEF SDD, Stage, Editor, Reader, Reviewer, Gate, Terminal
  <2> QED BY <2>1, <2>2 DEF GatedWorkflow, Past, Kind, Start, NoStage
<1> QED BY <1>1, <1>2, <1>3

\* A run starts active, at work's first stage, with nobody at work.
LEMMA InitKeepsPromise == GatedWorkflow /\ Init => PromiseInv
BY DEF GatedWorkflow, Init, PromiseInv, CompletedIsVerified

\* No step of a run breaks it: one case per action.
LEMMA StepKeepsPromise == GatedWorkflow /\ PromiseInv /\ [Next]_vars => PromiseInv'
<1> SUFFICES ASSUME GatedWorkflow, PromiseInv, [Next]_vars PROVE PromiseInv'
  OBVIOUS
<1> USE DEF PromiseInv, CompletedIsVerified, Verified, Past
<1>1. CASE Open
  BY <1>1 DEF Open
<1>2. CASE Apply
  BY <1>2 DEF Apply
<1>3. CASE LeaveWorker
  <2>1. Workflow[stage].kind = "worker" /\ stage \in DOMAIN Workflow
    BY <1>3 DEF LeaveWorker, Kind
  <2>2. ~Past(Workflow[stage].next)
    BY <2>1 DEF GatedWorkflow
  <2> QED BY <1>3, <2>2 DEF LeaveWorker, Enter, Kind
<1>4. CASE LeaveReview
  <2>1. Workflow[stage].kind = "review" /\ stage \in DOMAIN Workflow
    BY <1>4 DEF LeaveReview, Kind
  <2>2. ~Past(Workflow[stage].next) /\ ~Past(Workflow[stage].onFixes)
    BY <2>1 DEF GatedWorkflow
  <2> QED BY <1>4, <2>2 DEF LeaveReview, Enter, Kind
<1>5. CASE LeaveGate
  BY <1>5 DEF LeaveGate, Enter, Kind
<1>6. CASE Complete \/ LeaveTerminal
  BY <1>6 DEF Complete, LeaveTerminal, Enter, Kind
<1>7. CASE Block \/ Interrupt \/ Resume
  BY <1>7 DEF Block, Interrupt, Resume, Kind
<1>8. ASSUME NEW outcome, NEW decided, Close(outcome, decided) PROVE PromiseInv'
  BY <1>8 DEF Close, Kind
<1>9. ASSUME NEW outcome \in BOOLEAN, RunGates(outcome) PROVE PromiseInv'
  BY <1>9 DEF RunGates, Kind
<1>10. CASE UNCHANGED vars
  BY <1>10 DEF vars, Kind
<1> QED
  BY <1>1, <1>2, <1>3, <1>4, <1>5, <1>6, <1>7, <1>8, <1>9, <1>10 DEF Next

\* runGateStage and complete: where the project has gates, a run completes only when
\* they have passed since its last agent started.
THEOREM PromiseVerifies ==
  ASSUME GatedWorkflow
  PROVE  Spec => []CompletedIsVerified
<1>1. Init => PromiseInv
  BY InitKeepsPromise
<1>2. PromiseInv /\ [Next]_vars => PromiseInv'
  BY StepKeepsPromise
<1>3. PromiseInv => CompletedIsVerified
  BY DEF PromiseInv
<1> QED BY <1>1, <1>2, <1>3, PTL DEF Spec

\* validateStageClose, ReopenRun: no command, retry or resume changes a completed run,
\* nor lets an agent start on it.
THEOREM PromiseIsFinal ==
  ASSUME GatedWorkflow
  PROVE  Spec => [][status = "completed" => UNCHANGED vars]_vars
<1>1. Init => PromiseInv
  BY InitKeepsPromise
<1>2. PromiseInv /\ [Next]_vars => PromiseInv'
  BY StepKeepsPromise
<1>3. PromiseInv /\ [Next]_vars => [status = "completed" => UNCHANGED vars]_vars
  BY DEF PromiseInv, Next, Open, Close, Apply, LeaveWorker, LeaveReview, RunGates, LeaveGate,
         Complete, LeaveTerminal, Block, Interrupt, Resume
<1> QED BY <1>1, <1>2, <1>3, PTL DEF Spec
=============================================================================

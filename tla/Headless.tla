------------------------------ MODULE Headless ------------------------------
(***************************************************************************)
(* A run driven by the kernel itself (vichu exec, vichu exec resume): the  *)
(* stage loop of internal/engine/engine.go and stage.go, one file          *)
(* operation at a time, beside the processes that share its files without  *)
(* its lock: vichu cancel, and an engine that was displaced by a resume    *)
(* while it was stalled.                                                   *)
(*                                                                         *)
(* The loop keeps the run's state in memory.  Each save first reads        *)
(* state.json, to adopt a cancel, and then replaces it; the two are steps  *)
(* of their own here.  An engine is its place in the loop, its memory, and *)
(* the writes it has still to do before it goes on from that place.        *)
(***************************************************************************)
EXTENDS Workflows, Sequences, FiniteSets, SequencesExt

CONSTANTS
  Workflow,         \* the run's workflow
  Engines,          \* the processes that run the loop: the first starts the run, others resume it
  Cancellers,       \* the calls of vichu cancel
  MaxAgents,        \* budgets.run.maxAgentInvocations, 0 for no limit
  MaxTokens,        \* budgets.run: the resource budgets of checkBudgets, 0 for no limit
  MaxStageTokens,   \* budgets.stage.<stage>: the token budgets of a stage, 0 for no limit
  ReviewBudget,     \* reviewIterationBudget, 0 for no limit
  EntryBudget,      \* budgets.stage.<stage>.maxIterations, 0 for no limit
  Deadlines,        \* a wall-clock budget is configured
  \* what the environment may do, and the bounds of the model
  Starts,           \* what comes of the preparation of an agent (see Dispatch)
  AgentOutcomes,    \* how an agent may end (see Settle)
  GateOutcomes,     \* what a run of the gates can come to (see GateEnds)
  Usage,            \* the token counts an adapter may report
  Verdicts,         \* the verdicts a reviewer may return, "none" for an unreadable one
  Edits,            \* agents of read-only stages may change files
  MaxWorkers,       \* bound on the agents of a run
  Overtaken,        \* a run is followed on after intact (see below) is lost
  MaxMishaps        \* bound on what goes wrong in a run: a process killed, a failed write, a
                    \* lock reclaimed from an engine that still runs, and a preparation, an
                    \* agent or a gate that comes to anything but a success

\* config.Load and the built-in workflows: what the frozen configuration may be.
ASSUME ConfigAssumption ==
  /\ Workflow \in {Quick, Review, SDD}
  /\ {MaxAgents, MaxTokens, MaxStageTokens, ReviewBudget, EntryBudget} \subseteq Nat

\* core: what an adapter and a reviewer can come up with.
ASSUME EnvironmentAssumption ==
  /\ Usage \subseteq Nat
  /\ Verdicts \subseteq {"approved", "needs_fixes", "blocked", "none"}

ASSUME BoundsAssumption == {MaxWorkers, MaxMishaps} \subseteq Nat

Stages == DOMAIN Workflow
Ids == (1 .. MaxWorkers) \X Stages
NoWorker == <<0, NoStage>>
Nobody == "nobody"

ASSUME EnginesAssumption == Nobody \notin Engines
Kind(s) == IF s \in Stages THEN Workflow[s].kind ELSE "none"

VARIABLES
  disk,      \* state.json
  workers,   \* workers/<id>/status.json, for the workers that have one
  reports,   \* workers/<id>/mutations.json: whether the worker changed something
  verdicts,  \* reviews/: the persisted verdict of each review iteration
  gate,      \* gates/: the last verdict of the gates, and how many agents had started
  log,       \* events.ndjson: the outcomes of the run it announces
  baseline,  \* workspace.json: the workers whose changes its snapshot includes
  changed,   \* the working tree: the workers whose agents changed something
  owner,     \* lock.json (module RunLock): the engine that holds the run
  engine,    \* the engines
  cancel,    \* the calls of vichu cancel
  launched,  \* history: the agents that were started
  intact,    \* history: no save hit another state than the one checked before it,
             \* and no displaced engine wrote a file or started an agent
  mishaps    \* how much of the bound on mishaps is used

files == <<disk, workers, reports, verdicts, gate, log, baseline>>
history == <<launched, intact>>
vars == <<files, changed, owner, engine, cancel, history, mishaps>>

-----------------------------------------------------------------------------
(* Records *)

Final(status) == status \in {"completed", "canceled", "failed"}

NoState == [status |-> "none"]

Off ==
  [pc |-> "off", mem |-> NoState, todo |-> <<>>, seen |-> NoState, err |-> FALSE, lost |-> FALSE,
   ctx |-> "live", ended |-> "halt", outcome |-> "ok", decided |-> "none", worker |-> NoWorker, refused |-> FALSE]

Init ==
  /\ disk = [status |-> "active", stage |-> Start, active |-> NoWorker,
             stages |-> [s \in Stages |-> "pending"], visits |-> [s \in Stages |-> 0],
             agents |-> 0, tokens |-> [s \in Stages |-> 0]]
  /\ workers = <<>> /\ reports = <<>> /\ verdicts = <<>>
  /\ gate = [passed |-> FALSE, after |-> 0]
  /\ log = {}
  /\ baseline = {} /\ changed = {}
  /\ owner = Nobody
  /\ engine = [e \in Engines |-> Off]
  /\ cancel = [c \in Cancellers |-> [pc |-> "off", seen |-> NoState, recorded |-> FALSE]]
  /\ launched = {} /\ intact = TRUE
  /\ mishaps = 0

Has(id, status) == id \in DOMAIN workers /\ workers[id] = status
Done(id) == Has(id, "done")
Verdict(i) == IF i \in DOMAIN verdicts THEN verdicts[i] ELSE "none"
CanceledOnDisk == disk.status = "canceled"

-----------------------------------------------------------------------------
(* Writes.  A "strict" write that fails is remembered (persistFailed), a     *)
(* "hard" one ends its stage with an error, a "loose" one only warns.  stop:  *)
(* how the stage ends if an earlier write has failed ("quit" ends the loop at *)
(* once), "" when the loop does not look.  Of the events only those are writes   *)
(* of their own whose failure has other effects than a failed save next to it. *)

Do(what, key, val) == [what |-> what, key |-> key, val |-> val, mode |-> "strict", stop |-> ""]
Loose(plan) == [i \in DOMAIN plan |-> [plan[i] EXCEPT !.mode = "loose"]]
Hard(w) == [w EXCEPT !.mode = "hard"]
Halts(w) == [w EXCEPT !.stop = "halt"]
Quits(w) == [w EXCEPT !.stop = "quit"]
Errs(w) == [w EXCEPT !.stop = "error"]

Event(name) == Do("event", name, "")
Save(change) == Do("save", change, "")
File(kind, key, val) == Do(kind, key, val)

\* block, complete and fail: the state, then the event that announces it.
Outcome(status) == <<Do("outcome", status, ""), Do("announce", status, "")>>
Block == Outcome("blocked")

\* Mutant: the stage that is entered is the one marked done.
ChangedWrongStage(m, change) ==
  CASE change = "enter" -> [m EXCEPT !.status = "active", !.stages[m.stage] = "active"]
    [] change = "start" -> [m EXCEPT !.active = <<m.agents, m.stage>>]
    [] change = "clear" -> [m EXCEPT !.active = NoWorker]
    [] change = "touch" -> m
    [] OTHER            -> [m EXCEPT !.stages[change] = "done", !.stage = change]

\* What a save changes in memory.
Changed(m, change) ==
  CASE change = "enter" -> [m EXCEPT !.status = "active", !.stages[m.stage] = "active"]
    [] change = "start" -> [m EXCEPT !.active = <<m.agents, m.stage>>]
    [] change = "clear" -> [m EXCEPT !.active = NoWorker]
    [] change = "touch" -> m
    [] OTHER            -> [m EXCEPT !.stages[m.stage] = "done", !.stage = change]

Ended(m, status) ==
  IF status = "completed" THEN [m EXCEPT !.status = status, !.stage = "done", !.active = NoWorker,
                                         !.stages["done"] = "done"]
                          ELSE [m EXCEPT !.status = status, !.active = NoWorker]

-----------------------------------------------------------------------------
(* Budgets *)

AgentBudgetExceeded(m) == MaxAgents > 0 /\ m.agents >= MaxAgents

\* checkBudgets: tokens stand for every resource.
ResourcesExceeded(m) == MaxTokens > 0 /\ MapThenSumSet(LAMBDA s : m.tokens[s], Stages) >= MaxTokens

StageTokensExceeded(m) == MaxStageTokens > 0 /\ m.tokens[m.stage] >= MaxStageTokens
EntriesExceeded(m) == EntryBudget > 0 /\ m.visits[m.stage] > EntryBudget
ReviewsExceeded(m) ==
  LET budget == IF EntryBudget > 0 THEN EntryBudget ELSE ReviewBudget IN
  budget > 0 /\ m.visits["review"] >= budget

BudgetBlock == Block

-----------------------------------------------------------------------------
(* Carrying out the writes of an engine *)

Running(e) == engine[e].pc \notin {"off", "over"}

\* The engine is at a place of the loop, with nothing left to write.
At(e, pc) == engine[e].pc = pc /\ engine[e].todo = <<>> /\ engine[e].seen = NoState

Mem(e) == engine[e].mem
Todo(e) == Head(engine[e].todo)

GoTo(e, pc, todo) == [engine[e] EXCEPT !.pc = pc, !.todo = todo]
EndStage(e, ended, todo) == [GoTo(e, "back", todo) EXCEPT !.ended = ended]

Popped(e) == [engine[e] EXCEPT !.todo = Tail(@), !.seen = NoState]

\* persistFailed stops the stage before this write.
Stopped(e) == engine[e].err /\ Todo(e).stop # ""

Stop(e) ==
  /\ engine[e].todo # <<>> /\ engine[e].seen = NoState /\ Stopped(e)
  /\ engine' = [engine EXCEPT ![e] = IF Todo(e).stop = "quit" THEN GoTo(e, "over", <<>>)
                                      ELSE EndStage(e, Todo(e).stop, <<>>)]
  /\ UNCHANGED <<files, changed, owner, cancel, history, mishaps>>

\* Mutant: the state is not looked at.
CheckNothing(e) ==
  LET w == Todo(e) IN
  engine' = [engine EXCEPT ![e].mem = IF w.what = "save" THEN Changed(Mem(e), w.key) ELSE Ended(Mem(e), w.key),
                           ![e].seen = disk]

\* The read that precedes a write of the state: saveState adopts a terminal state,
\* block, complete and fail a cancel only.
CheckState(e) ==
  LET w == Todo(e)
      m == IF w.what = "save" THEN Changed(Mem(e), w.key) ELSE Ended(Mem(e), w.key)
  IN
  engine' = CASE w.what = "save" /\ Final(disk.status) /\ ~Final(m.status) ->
                   [engine EXCEPT ![e] = [Popped(e) EXCEPT !.mem = disk]]
              [] w.what = "outcome" /\ CanceledOnDisk ->
                   [engine EXCEPT ![e].mem = Ended(Mem(e), "canceled"), ![e].seen = disk]
              [] OTHER -> [engine EXCEPT ![e].mem = m, ![e].seen = disk]

Check(e) ==
  /\ engine[e].todo # <<>> /\ engine[e].seen = NoState /\ ~Stopped(e)
  /\ Todo(e).what \in {"save", "outcome"}
  /\ CheckState(e)
  /\ UNCHANGED <<files, changed, owner, cancel, history, mishaps>>

SaveMem(e) ==
  /\ disk' = Mem(e)
  /\ intact' = (intact /\ disk = engine[e].seen /\ owner = e)
  /\ engine' = [engine EXCEPT ![e] = Popped(e)]
  /\ UNCHANGED <<workers, reports, verdicts, gate, log, baseline, launched>>

\* Mutant: an outcome is announced whether or not it was saved.
SilentNever(e) == FALSE

\* An outcome is not announced when the state that holds it was not saved.
Silent(e) == Todo(e).what = "announce" /\ (engine[e].err \/ Mem(e).status # Todo(e).key)

Put(file, w) == [k \in DOMAIN file \cup {w.key} |-> IF k = w.key THEN w.val ELSE file[k]]

WriteFile(e) ==
  LET w == Todo(e) IN
  /\ workers' = IF w.what = "worker" THEN Put(workers, w) ELSE workers
  /\ reports' = IF w.what = "report" THEN Put(reports, w) ELSE reports
  /\ verdicts' = IF w.what = "verdict" THEN Put(verdicts, w) ELSE verdicts
  /\ gate' = IF w.what = "gate" THEN w.val ELSE gate
  /\ baseline' = IF w.what = "baseline" THEN w.val ELSE baseline
  /\ log' = IF w.what = "announce" /\ ~Silent(e) THEN log \cup {w.key} ELSE log
  /\ launched' = IF w.what = "launch" THEN launched \cup {<<w.key, Cardinality(launched) + 1>>} ELSE launched
  /\ engine' = [engine EXCEPT ![e] = Popped(e)]
  /\ intact' = (intact /\ owner = e)
  /\ UNCHANGED disk

Write(e) ==
  /\ engine[e].todo # <<>> /\ ~Stopped(e)
  /\ IF Todo(e).what \in {"save", "outcome", "adopt"}
       THEN engine[e].seen # NoState /\ SaveMem(e)
       ELSE WriteFile(e)
  /\ UNCHANGED <<changed, owner, cancel, mishaps>>

Mishap(happens) ==
  /\ happens => mishaps < MaxMishaps
  /\ mishaps' = IF happens THEN mishaps + 1 ELSE mishaps

\* A write fails, and later ones may work again.  Before the loop an error is one of the
\* command, which ends and leaves the run as it is.
FailedWrite(e) ==
  /\ engine[e].todo # <<>> /\ ~Stopped(e)
  /\ Todo(e).what \in {"save", "outcome", "adopt"} => engine[e].seen # NoState
  /\ ~Silent(e) /\ Todo(e).what \notin {"launch", "run"}
  /\ Mishap(TRUE)
  /\ engine' = [engine EXCEPT ![e] =
       CASE Todo(e).mode = "hard"   -> IF engine[e].pc = "announce" THEN GoTo(e, "over", <<>>)
                                                                    ELSE EndStage(e, "error", <<>>)
         [] Todo(e).mode = "block"  -> EndStage(e, "halt", Block)
         [] Todo(e).mode = "strict" -> [Popped(e) EXCEPT !.err = TRUE]
         [] OTHER                   -> Popped(e)]
  /\ UNCHANGED <<files, changed, owner, cancel, history>>

-----------------------------------------------------------------------------
(* Starting and resuming *)

\* Start: the run was just created, and its state is in memory.
Launch(e) ==
  /\ engine[e].pc = "off" /\ \A f \in Engines : engine[f].pc = "off"
  /\ owner' = e
  /\ engine' = [engine EXCEPT ![e] = [GoTo(e, "step", <<>>) EXCEPT !.mem = disk]]
  /\ UNCHANGED <<files, changed, cancel, history, mishaps>>

\* The lock of an engine that died is orphaned; one whose heartbeats are late enough
\* is too, while the engine runs on.
Acquire(e) ==
  /\ engine[e].pc = "off" /\ \E f \in Engines : engine[f].pc # "off"
  /\ Mishap(owner # Nobody /\ engine[owner].pc # "dead")
  /\ owner' = e
  /\ engine' = [engine EXCEPT ![e] = GoTo(e, "resume", <<>>)]
  /\ UNCHANGED <<files, changed, cancel, history>>

Violates(s, change) == Workflow[s].readOnly /\ change

\* checkDrift, on whole workers: a change no audit recorded and no snapshot has.
Drifted == \E id \in changed \ baseline : ~(id \in DOMAIN reports /\ reports[id])

DriftBlock == Loose(Block)

\* reconcileInterruptedWorkers: headless closes keep no journal, so the worker the run
\* still waits for is judged again when it is done, and an audit that is not there is not
\* taken for a clean one.  (Its frozen policy is always there.)
LegacyViolation ==
  LET id == disk.active IN Done(id) /\ (id \notin DOMAIN reports \/ Violates(id[2], reports[id]))

Reconcile ==
  LET open == SetToSeq({id \in DOMAIN workers : Has(id, "running")}) IN
  [i \in DOMAIN open |-> Hard(File("worker", open[i], "canceled"))]
    \o (IF LegacyViolation THEN Loose(Block) ELSE <<>>)

\* Resume.  A failure of one of its own writes is an error of the command.
Resume(e, accept) ==
  /\ At(e, "resume")
  /\ engine' = [engine EXCEPT ![e] =
       LET mem == [disk EXCEPT !.status = "active"] IN
       IF Final(disk.status) THEN GoTo(e, "over", <<>>)
       ELSE IF Drifted /\ ~accept THEN [GoTo(e, "drifted", DriftBlock) EXCEPT !.mem = disk]
       ELSE [GoTo(e, "announce",
                  (IF Drifted THEN <<Hard(File("baseline", 0, changed))>> ELSE <<>>)
                    \o Reconcile \o <<Hard(File("config", 0, ""))>>)
               EXCEPT !.mem = mem, !.refused = LegacyViolation]]
  /\ UNCHANGED <<files, changed, owner, cancel, history, mishaps>>

\* The active worker is settled, and the loop begins with a strict scope of its own.
Resumed(e) ==
  /\ At(e, "announce")
  /\ engine' = [engine EXCEPT ![e] =
       [GoTo(e, "step", <<>>) EXCEPT
          !.mem.active = IF Mem(e).status = "blocked" THEN @ ELSE NoWorker]]
  /\ UNCHANGED <<files, changed, owner, cancel, history, mishaps>>

GiveUp(e) ==
  /\ At(e, "drifted")
  /\ engine' = [engine EXCEPT ![e].pc = "over"]
  /\ UNCHANGED <<files, changed, owner, cancel, history, mishaps>>

-----------------------------------------------------------------------------
(* The loop *)

\* finalizeIfCanceled: the cancel is adopted and written back.
AdoptCancel(e) ==
  [GoTo(e, "over", <<Do("adopt", "", "")>>) EXCEPT !.mem = Ended(Mem(e), "canceled"), !.seen = disk]

StepPlan(e) ==
  LET m == Mem(e)
      entered == [m EXCEPT !.visits[m.stage] = @ + 1]
  IN
  IF engine[e].err \/ engine[e].lost THEN GoTo(e, "over", <<>>)
  ELSE IF CanceledOnDisk THEN AdoptCancel(e)
  ELSE IF Final(m.status) THEN GoTo(e, "over", <<>>)
  ELSE IF ResourcesExceeded(m) THEN GoTo(e, "over", BudgetBlock)
  ELSE CASE Kind(m.stage) = "none"     -> GoTo(e, "over", Outcome("failed"))
         [] Kind(m.stage) = "terminal" -> GoTo(e, "over", Outcome("completed"))
         [] OTHER ->
              IF EntriesExceeded(entered) THEN [GoTo(e, "over", BudgetBlock) EXCEPT !.mem = entered]
              ELSE [GoTo(e, "dispatch", <<Save("enter"), Quits(Event("stage_started"))>>) EXCEPT !.mem = entered]

Step(e) ==
  /\ At(e, "step")
  /\ engine' = [engine EXCEPT ![e] = StepPlan(e)]
  /\ UNCHANGED <<files, changed, owner, cancel, history, mishaps>>

\* Mutant: the slot is saved when the agent runs already.
CountedLater(e) ==
  LET id == <<Mem(e).agents + 1, Mem(e).stage>> IN
  [GoTo(e, "agent", <<File("worker", id, "running"), Halts(Event("worker_started")), Errs(Do("launch", id, "")),
                      Save("start")>>)
     EXCEPT !.mem.agents = @ + 1, !.worker = id]

\* announceWorkerStart: an agent runs only once its record and its slot are on disk.
OpenWorker(e) ==
  LET id == <<Mem(e).agents + 1, Mem(e).stage>> IN
  [GoTo(e, "agent", <<File("worker", id, "running"), Save("start"), Halts(Event("worker_started")),
                      Errs(Do("launch", id, ""))>>)
     EXCEPT !.mem.agents = @ + 1, !.worker = id]

\* What comes of the preparation of an agent: "ready", "refused" (by the command
\* policy, an unsafe review context, a tree that cannot be tracked), "noadapter".
WorkerPlan(e, how) ==
  LET m == Mem(e) IN
  IF ResourcesExceeded(m) \/ AgentBudgetExceeded(m) \/ StageTokensExceeded(m) THEN EndStage(e, "halt", BudgetBlock)
  ELSE CASE how = "noadapter" -> EndStage(e, "error", <<>>)
         [] how = "refused"   -> EndStage(e, "halt", Block)
         [] OTHER             -> OpenWorker(e)

\* A gate stage with no gates, "missing" or "required", or one the policy refuses.
GatePlan(e, outcome) ==
  CASE outcome = "refused"  -> EndStage(e, "halt", Block)
    [] outcome = "missing"  -> EndStage(e, "advance", <<Event("no_gates_configured")>>)
    [] outcome = "required" -> EndStage(e, "halt", Block)
    [] OTHER -> GoTo(e, "gate", <<Save("touch"), Errs(Do("run", "", ""))>>)

\* executeStage, from the persisted entry on.  late: the wall-clock budget is used up.
Dispatch(e, how, outcome, late) ==
  /\ At(e, "dispatch")
  /\ Mem(e).agents < MaxWorkers
  /\ late => Deadlines
  /\ Mishap(late \/ how # "ready" \/ outcome \notin {"pass", "missing"})
  /\ engine' = [engine EXCEPT ![e] =
       IF late THEN GoTo(e, "over", BudgetBlock)
       ELSE IF Kind(Mem(e).stage) = "gate" THEN GatePlan(e, outcome)
       ELSE WorkerPlan(e, how)]
  /\ UNCHANGED <<files, changed, owner, cancel, history>>

-----------------------------------------------------------------------------
(* While an agent or a gate runs *)

AtWork(e) == At(e, "agent") \/ At(e, "gate")
Active(e) == engine[e].worker

\* The agent changes the working tree; only of read-only ones it matters here.
AgentEdits(e) ==
  /\ At(e, "agent")
  /\ Edits /\ Workflow[Active(e)[2]].readOnly
  /\ changed' = changed \cup {Active(e)}
  /\ changed' # changed
  /\ UNCHANGED <<files, owner, engine, cancel, history, mishaps>>

\* Mutant: the watcher looks at the state in memory.
WatchMemory(e) ==
  /\ AtWork(e) /\ engine[e].ctx = "live"
  /\ Mem(e).status = "canceled"
  /\ engine' = [engine EXCEPT ![e].ctx = "canceled"]
  /\ UNCHANGED <<files, changed, owner, cancel, history, mishaps>>

\* watchCancel: a cancel on disk kills the agent or the gate.
WatchCancel(e) ==
  /\ AtWork(e) /\ engine[e].ctx = "live"
  /\ CanceledOnDisk
  /\ engine' = [engine EXCEPT ![e].ctx = "canceled"]
  /\ UNCHANGED <<files, changed, owner, cancel, history, mishaps>>

\* withBudgetDeadline: the wall clock runs out.
Deadline(e) ==
  /\ Deadlines
  /\ AtWork(e) /\ engine[e].ctx = "live"
  /\ Mishap(TRUE)
  /\ engine' = [engine EXCEPT ![e].ctx = "deadline"]
  /\ UNCHANGED <<files, changed, owner, cancel, history>>

\* StartHeartbeat finds another owner in the lock.
LoseLock(e) ==
  /\ Running(e) /\ engine[e].pc # "dead"
  /\ owner # e /\ ~engine[e].lost
  /\ engine' = [engine EXCEPT ![e].lost = TRUE,
                              ![e].ctx = IF @ = "live" THEN "canceled" ELSE @]
  /\ UNCHANGED <<files, changed, owner, cancel, history, mishaps>>

\* The agent ends.  Its result and the audit of what it changed are written whatever
\* came of it; an "unaudited" end is one whose audit could not be finished, an
\* "unstarted" one never began.
Evidence(e, outcome) ==
  CASE outcome = "unstarted" -> <<>>
    [] outcome = "unaudited" -> <<File("result", 0, "")>>
    [] OTHER -> <<File("result", 0, ""), File("report", Active(e), Active(e) \in changed)>>

AgentEnds(e, outcome, tokens, decided) ==
  /\ At(e, "agent")
  /\ tokens > 0 => outcome \in {"ok", "failed"}
  /\ Mishap((outcome # "ok" /\ engine[e].ctx = "live") \/ decided \in {"blocked", "none"})
  /\ engine' = [engine EXCEPT ![e] = [GoTo(e, "settle", Evidence(e, outcome)) EXCEPT
       !.mem.tokens[Mem(e).stage] = @ + tokens, !.outcome = outcome,
       !.decided = IF Kind(Mem(e).stage) = "review" THEN decided ELSE "none"]]
  /\ UNCHANGED <<files, changed, owner, cancel, history>>

\* The worker's end: handleWorkerError, finishWorker, applyVerdict.  A reviewer's
\* verdict is persisted before the branch is decided from it.
Finished(e, writes) ==
  <<File("worker", Active(e), "done"), Errs(Event("worker_finished")), Save("clear")>> \o writes

\* Mutant: the verdict decides before the audit is looked at.
SettleUnaudited(e) ==
  IF Kind(Mem(e).stage) = "review" /\ engine[e].decided = "approved"
    THEN EndStage(e, "advance", Finished(e, <<File("verdict", Mem(e).visits["review"], "approved")>>))
    ELSE EndStage(e, "advance", Finished(e, <<>>))

VerdictPlan(e) ==
  LET m == Mem(e)
      verdict == engine[e].decided
      persisted == <<[File("verdict", m.visits["review"], verdict) EXCEPT !.mode = "block"]>>
  IN
  IF verdict = "none" THEN EndStage(e, "halt", Finished(e, Block))
  ELSE IF verdict = "blocked" \/ (verdict = "needs_fixes" /\ ReviewsExceeded(m))
    THEN EndStage(e, "halt", Finished(e, persisted \o Block))
  ELSE EndStage(e, "advance", Finished(e, persisted))

SettlePlan(e) ==
  LET m == Mem(e)
      id == Active(e)
      marked(status) == Loose(<<File("worker", id, status)>>)
  IN
  CASE engine[e].outcome = "unstarted" -> EndStage(e, "error", marked("failed"))
    [] engine[e].outcome = "invalid" ->
         EndStage(e, "halt", <<File("worker", id, "failed"), Errs(Do("run", "", ""))>> \o Block)
    [] engine[e].outcome = "failed" ->
         IF CanceledOnDisk THEN EndStage(e, "halt", marked("canceled"))
         ELSE EndStage(e, "error", marked(IF engine[e].ctx = "live" THEN "failed" ELSE "canceled"))
    [] OTHER ->
         IF engine[e].outcome = "unaudited" \/ Violates(m.stage, id \in changed)
           THEN EndStage(e, "halt", Finished(e, Block))
         ELSE IF Kind(m.stage) = "worker" THEN EndStage(e, "advance", Finished(e, <<>>))
         ELSE VerdictPlan(e)

Settle(e) ==
  /\ At(e, "settle")
  /\ engine' = [engine EXCEPT ![e] = SettlePlan(e)]
  /\ UNCHANGED <<files, changed, owner, cancel, history, mishaps>>

\* The gates end: a killed gate has failed.
GateEnds(e, outcome) ==
  /\ At(e, "gate")
  /\ Mishap(outcome # "pass" /\ engine[e].ctx = "live")
  /\ LET passed == outcome = "pass"
         saved == <<Hard(Do("gate", 0, [passed |-> outcome # "fail", after |-> Mem(e).agents]))>>
     IN
     engine' = [engine EXCEPT ![e] =
       CASE outcome = "mutate" -> EndStage(e, "halt", saved \o <<File("mutations", 0, "")>> \o Block)
         [] passed -> EndStage(e, "advance", saved)
         [] OTHER -> IF engine[e].ctx = "deadline" THEN EndStage(e, "error", saved)
                                                   ELSE EndStage(e, "halt", saved \o Block)]
  /\ UNCHANGED <<files, changed, owner, cancel, history>>

-----------------------------------------------------------------------------
(* After a stage *)

\* advanceStage: done and gone in one write.
Leave(next) == <<Save(next), Quits(Event("stage_completed"))>>

\* reviewBranch reads the verdict back.
Branch(m) ==
  IF Kind(m.stage) = "review" /\ Verdict(m.visits["review"]) # "approved"
    THEN Workflow[m.stage].onFixes ELSE Workflow[m.stage].next

\* Mutant: a stage that stopped the run is left like any other.
BackAnyway(e) ==
  /\ At(e, "back")
  /\ engine' = [engine EXCEPT ![e] =
       IF engine[e].lost THEN GoTo(e, "over", <<>>)
       ELSE IF CanceledOnDisk THEN AdoptCancel(e)
       ELSE [GoTo(e, "step", Leave(Branch(Mem(e)))) EXCEPT !.ctx = "live"]]
  /\ UNCHANGED <<files, changed, owner, cancel, history, mishaps>>

\* The rest of executeStage, and advanceStage.  A displaced engine stops at once.
Back(e) ==
  /\ At(e, "back")
  /\ engine' = [engine EXCEPT ![e] =
       IF engine[e].lost THEN GoTo(e, "over", <<>>)
       ELSE IF CanceledOnDisk THEN AdoptCancel(e)
       ELSE IF engine[e].ctx = "deadline" THEN GoTo(e, "over", BudgetBlock)
       ELSE CASE engine[e].ended = "error" -> GoTo(e, "over", Outcome("failed"))
              [] engine[e].ended = "halt"  -> GoTo(e, "over", <<>>)
              [] OTHER -> [GoTo(e, "step", Leave(Branch(Mem(e)))) EXCEPT !.ctx = "live"]]
  /\ UNCHANGED <<files, changed, owner, cancel, history, mishaps>>

\* The process ends and releases the lock if it is still its own.
Exit(e) ==
  /\ At(e, "over")
  /\ owner = e
  /\ owner' = Nobody
  /\ UNCHANGED <<files, changed, engine, cancel, history, mishaps>>

Crash(e) ==
  /\ Running(e) /\ engine[e].pc # "dead"
  /\ Mishap(TRUE)
  /\ engine' = [engine EXCEPT ![e] = [Off EXCEPT !.pc = "dead"]]
  /\ UNCHANGED <<files, changed, owner, cancel, history>>

-----------------------------------------------------------------------------
(* vichu cancel, which takes no lock *)

CancelTo(c, pc) == [cancel EXCEPT ![c].pc = pc]

\* The state is read once; a run that ended otherwise is left alone.
LoadState(c) ==
  /\ cancel[c].pc = "off"
  /\ cancel' = [cancel EXCEPT ![c] =
       [@ EXCEPT !.seen = disk,
                 !.pc = IF Final(disk.status) /\ ~CanceledOnDisk THEN "refused" ELSE "audit"]]
  /\ UNCHANGED <<files, changed, owner, engine, history, mishaps>>

\* Mutant: a run that is canceled already needs nothing.
OpenAuditOnce(c) ==
  /\ cancel[c].pc = "audit"
  /\ cancel' = [cancel EXCEPT ![c].recorded = TRUE,
                              ![c].pc = IF cancel[c].seen.status = "canceled" THEN "done" ELSE "save"]
  /\ UNCHANGED <<files, changed, owner, engine, history, mishaps>>

\* OpenVerifiedAudit: the log as it is now decides whether the event is missing.
OpenAudit(c) ==
  /\ cancel[c].pc = "audit"
  /\ cancel' = [cancel EXCEPT ![c].recorded = "canceled" \in log,
                              ![c].pc = IF cancel[c].seen.status = "canceled" THEN "record" ELSE "save"]
  /\ UNCHANGED <<files, changed, owner, engine, history, mishaps>>

CancelState(c) ==
  /\ cancel[c].pc = "save"
  /\ disk' = [cancel[c].seen EXCEPT !.status = "canceled"]
  /\ intact' = (intact /\ disk = cancel[c].seen)
  /\ cancel' = CancelTo(c, "record")
  /\ UNCHANGED <<workers, reports, verdicts, gate, log, baseline, changed, owner, engine, launched, mishaps>>

\* ensureCancelEvent, also as the repair of a cancel that was not recorded.
RecordCancel(c) ==
  /\ cancel[c].pc = "record"
  /\ log' = IF cancel[c].recorded THEN log ELSE log \cup {"canceled"}
  /\ cancel' = CancelTo(c, "done")
  /\ UNCHANGED <<disk, workers, reports, verdicts, gate, baseline, changed, owner, engine, history, mishaps>>

\* The process is killed, or its write fails and it says so.
CancelFails(c) ==
  /\ cancel[c].pc \in {"save", "record"}
  /\ Mishap(TRUE)
  /\ cancel' = CancelTo(c, "failed")
  /\ UNCHANGED <<files, changed, owner, engine, history>>

-----------------------------------------------------------------------------
(* The specification *)

EngineStep(e) ==
  \/ Stop(e) \/ Check(e) \/ Write(e)
  \/ \E accept \in BOOLEAN : Resume(e, accept)
  \/ Resumed(e) \/ GiveUp(e)
  \/ Step(e)
  \/ \E how \in Starts, outcome \in GateOutcomes, late \in BOOLEAN : Dispatch(e, how, outcome, late)
  \/ Settle(e) \/ Back(e) \/ Exit(e)

WorkEnds(e) ==
  \/ \E outcome \in AgentOutcomes, tokens \in Usage, decided \in Verdicts : AgentEnds(e, outcome, tokens, decided)
  \/ \E outcome \in GateOutcomes \cap {"pass", "fail", "mutate"} : GateEnds(e, outcome)

\* A process whose context is canceled is killed.
Killed(e) == engine[e].ctx # "live" /\ WorkEnds(e)

Environment(e) ==
  \/ Launch(e) \/ Acquire(e)
  \/ AgentEdits(e) \/ WorkEnds(e) \/ Deadline(e)
  \/ FailedWrite(e) \/ Crash(e)

Cancel(c) == LoadState(c) \/ OpenAudit(c) \/ CancelState(c) \/ RecordCancel(c) \/ CancelFails(c)

Next ==
  /\ intact \/ Overtaken
  /\ \/ \E e \in Engines : EngineStep(e) \/ WatchCancel(e) \/ LoseLock(e) \/ Environment(e)
     \/ \E c \in Cancellers : Cancel(c)

Spec == Init /\ [][Next]_vars

\* The loop and its watcher are scheduled, and a killed process ends; an agent or a gate
\* that nobody kills may run for ever.
FairSpec ==
  /\ Spec
  /\ \A e \in Engines : WF_vars(EngineStep(e)) /\ WF_vars(WatchCancel(e)) /\ WF_vars(Killed(e))

-----------------------------------------------------------------------------
(* Invariants *)

TypeOK ==
  /\ disk.status \in {"active", "blocked", "completed", "failed", "canceled"}
  /\ disk.stage \in Stages \cup {NoStage}
  /\ disk.active \in Ids \cup {NoWorker}
  /\ disk.agents \in 0 .. MaxWorkers
  /\ DOMAIN workers \subseteq Ids
  /\ \A id \in DOMAIN workers : workers[id] \in {"running", "done", "failed", "canceled"}
  /\ DOMAIN reports \subseteq DOMAIN workers /\ changed \subseteq DOMAIN workers
  /\ log \subseteq {"blocked", "completed", "failed", "canceled"}
  /\ owner \in Engines \cup {Nobody}

\* complete, fail and cmdCancel persist the outcome before they announce it: as long
\* as no save was overtaken, the log never tells an end the run has not come to.
NeverOverReports ==
  intact => \A status \in log : Final(status) => disk.status = status

\* cmdCancel: a cancel that reported success is on record, its retry after a crash
\* between the state and the event included.
ReportedCancelIsRecorded ==
  \A c \in Cancellers : cancel[c].pc = "done" => "canceled" \in log

\* announceWorkerStart: no two agents run under one id, whatever was killed or failed,
\* and no more of them than the budget allows.
OneAgentPerSlot ==
  intact =>
    /\ \A x, y \in launched : x[1] = y[1] => x = y
    /\ MaxAgents > 0 => Cardinality(launched) <= MaxAgents

\* A stage is current until its work is accepted, and gone for good afterwards: no
\* crash between two writes makes a resume repeat an accepted stage.
AcceptedStageIsLeft ==
  intact => (disk.stages[disk.stage] = "done" => disk.stage \in {"review", "fix", "done"})

\* The gates passed after the last agent, unless the project may have none.
CompletedIsVerified ==
  intact /\ disk.status = "completed" /\ "missing" \notin GateOutcomes =>
    gate.passed /\ gate.after = disk.agents

-----------------------------------------------------------------------------
(* Action and temporal properties *)

\* runWorkerStage and decideFromVerdict: a stage with an agent is left on the clean
\* audit of its latest agent, a review on the verdict of the latest entry as well.
LeftOnCleanWork ==
  [][LET id == <<disk.agents, disk.stage>> IN
     intact' /\ disk'.stage # disk.stage /\ Kind(disk.stage) \in {"worker", "review"} =>
       /\ Done(id) /\ id \in DOMAIN reports
       /\ ~Violates(disk.stage, id \in changed)
       /\ Kind(disk.stage) = "review" =>
            disk'.stage = IF Verdict(disk.visits["review"]) = "approved" THEN Workflow["review"].next
                                                                        ELSE Workflow["review"].onFixes]_disk

\* saveState and finalizeIfCanceled: a cancel is final, unless a save that was checked
\* before it lands after it.
CancelIsFinalUnlessOvertaken ==
  [][disk.status = "canceled" /\ intact' => disk'.status = "canceled"]_disk

\* watchCancel: an engine stops after a cancel, even when its agent never ends.
CancelStopsTheEngine ==
  \A e \in Engines : (CanceledOnDisk /\ Running(e)) ~> (~CanceledOnDisk \/ ~Running(e) \/ engine[e].pc = "dead")

\* reconcileInterruptedWorkers: a resume that blocks the run on the evidence of a
\* worker starts no agent.
RefusedResumeLaunchesNothing ==
  [][\A e \in Engines : engine[e].refused => launched' = launched \/ engine'[e] = engine[e]]_vars

\* executeStage: an engine that knows it was displaced writes no outcome over the
\* state of the new owner.
DisplacedEngineWritesNoOutcome ==
  [][disk'.status \in {"blocked", "failed"} /\ disk'.status # disk.status =>
       \E e \in Engines : engine'[e] # engine[e] /\ ~engine[e].lost]_disk
=============================================================================

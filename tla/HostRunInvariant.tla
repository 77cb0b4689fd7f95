-------------------------- MODULE HostRunInvariant ---------------------------
(***************************************************************************)
(* The invariant of HostRun: what the files of a run say together between  *)
(* any two writes, and where a command in flight stands.  HostRunSteps and *)
(* HostRunProofs prove that every step keeps it.                           *)
(***************************************************************************)
EXTENDS HostRun

-----------------------------------------------------------------------------
(* Types *)

Modes == {"strict", "hard", "loose"}
Changes == Edits \cup {"nothing"}
ArtifactNames == {"proposal", "plan"}
Qualities == {None, "good", "bad"}
Entries == Ids \X Nat

Reasons ==
  {"", "policy", "verdict", "reviews", "gate", "artifact", "iterations", "agents", "tokens", "drift"}

RunStates ==
  [status : {"active", "blocked", "completed"}, why : Reasons, stage : Stages \cup {NoStage},
   active : Ids \cup {NoWorker}, stages : [Stages -> StageStatus], iterations : [Stages -> Nat],
   agents : 0 .. MaxWorkers, tokens : Nat, token : Nat]

WorkerFiles == [status : {"running", "done", "canceled"}, closeOp : 0 .. MaxOps, blocks : BOOLEAN]
GateFiles == [passed : BOOLEAN, after : 0 .. MaxWorkers]

Sort(do, keys, values) == [do : {do}, to : values, key : keys, mode : Modes, checked : BOOLEAN]

Files == {"tracking", "result", "mutations", "config"}
Events ==
  {"artifact_saved", "budget_exceeded", "gate_completed", "gate_mutation", "gate_started",
   "legacy_worker_reconciled", "mutation_tracked", "no_gates_configured", "policy_blocked",
   "review_completed", "run_blocked", "run_completed", "run_resumed", "sensitive_mutation",
   "stage_completed", "stage_started", "stage_transition", "token_usage", "worker_finished",
   "worker_interrupted", "worker_started", "workspace_drift", "workspace_rebaselined"}

\* Writes that no property below looks at.
Quiets == Sort("event", {0}, Events) \cup Sort("file", {0}, Files) \cup Sort("record", Ops, {"ok", "blocked"})

ArtifactWrites ==
  Sort("artifact", ArtifactNames, [file : Qualities, by : Ids]) \cup Sort("meta", ArtifactNames, Entries)

Writes ==
  Quiets \cup ArtifactWrites \cup Sort("state", {0}, RunStates) \cup Sort("worker", Ids, WorkerFiles)
  \cup Sort("report", Ids, Changes) \cup Sort("verdict", Nat, Verdicts)
  \cup Sort("gate", {0}, GateFiles) \cup Sort("baseline", {0}, SUBSET Ids)

Kinds == {"start", "close", "complete", "review"}

Asks ==
  [kind : Kinds, stage : Stages \cup {NoStage}, worker : Ids \cup {NoWorker},
   artifact : Artifacts \cup {None}, verdict : Verdicts \cup {None}, tokens : Nat]

InFlight ==
  [kind : Kinds \cup {"resume"}, op : 0 .. MaxOps, todo : Seq(Writes), reply : {"ok", "blocked"},
   seq : Nat, already : Nat, err : BOOLEAN, down : BOOLEAN]

\* Every variable holds what the code's types allow.
Typed ==
  /\ run \in RunStates
  /\ workers \in [DOMAIN workers -> WorkerFiles] /\ DOMAIN workers \subseteq Ids
  /\ reports \in [DOMAIN reports -> Changes] /\ DOMAIN reports \subseteq DOMAIN workers
  /\ verdicts \in [DOMAIN verdicts -> Verdicts] /\ DOMAIN verdicts \subseteq Nat
  /\ artifacts \in [ArtifactNames -> [file : Qualities, by : Ids \cup {NoWorker}, meta : Entries \cup {<<>>}]]
  /\ gate \in GateFiles
  /\ log \in Seq([op : 0 .. MaxOps, event : Events, seq : Nat])
  /\ records \in [DOMAIN records -> {"ok", "blocked"}] /\ DOMAIN records \subseteq Ops
  /\ changed \in [DOMAIN changed -> Edits] /\ DOMAIN changed \subseteq DOMAIN workers
  /\ baseline \subseteq DOMAIN changed
  /\ cmd \in InFlight \cup {Idle}
  /\ calls \in Seq(Asks) /\ Len(calls) <= MaxOps
  /\ replies \in [Ops -> {None, "ok", "blocked", "error", "dropped"}]
  /\ token \in Nat
  /\ surfaced \subseteq Ids \cup {NoWorker}
  /\ spent \in [crashes : Nat, failures : Nat, resumes : Nat]

-----------------------------------------------------------------------------
(* What the files of a run say together *)

\* The worker of the latest entry into the current stage, once it is opened.
Entry == <<run.agents, run.stage>>

\* The active worker is the latest one, and at work on the current stage.
ActiveIsTheLatest ==
  run.active # NoWorker =>
    /\ run.status = "active" /\ run.active = Entry /\ run.active \in DOMAIN workers
    /\ Kind(run.stage) \in {"worker", "review"} /\ run.stages[run.stage] = "active"

OnlyTheCurrentStageIsActive == \A s \in Stages : run.stages[s] = "active" => s = run.stage

CompletedAtTheEnd == run.status = "completed" => Kind(run.stage) = "terminal"

\* A status file that is ahead of state.json was left by a start that was killed.
WorkersAreCounted ==
  \A id \in DOMAIN workers :
    /\ Kind(StageOf(id)) \in {"worker", "review"}
    /\ id[1] <= run.agents + 1
    /\ Done(id) => id[1] <= run.agents /\ workers[id].closeOp <= Len(calls)

GatesAreNotAhead == gate.after <= run.agents

VerdictsAreNotAhead == "review" \in Stages => \A n \in DOMAIN verdicts : n <= run.iterations["review"]

\* What a close records is what its audit found and the policy says of it.
ClosesAreAudited ==
  \A id \in DOMAIN workers : Done(id) =>
    /\ id \in DOMAIN reports /\ reports[id] = Change(id)
    /\ workers[id].blocks = Violates(StageOf(id), Change(id))

CallsNameTheirWorker ==
  \A op \in DOMAIN calls :
    /\ calls[op].kind \in {"start", "close"} => calls[op].worker = NoWorker
    /\ calls[op].kind = "review" => Kind(StageOf(calls[op].worker)) = "review" /\ calls[op].artifact = None

\* The host's latest call closed its worker, and the host does not know it yet.
Committed ==
  /\ Pending
  /\ Done(calls[Len(calls)].worker)
  /\ workers[calls[Len(calls)].worker].closeOp = Len(calls)

\* Its retry finds the run where that close left it, or has left it.
CommittedIsCurrent ==
  Committed =>
    LET id == calls[Len(calls)].worker IN
    /\ run.active \in {NoWorker, id}
    /\ \/ id = Entry /\ run.stages[run.stage] = "active"
       \/ run.active = NoWorker /\ run.stages[StageOf(id)] = "done" /\ ~workers[id].blocks

\* The stages up to the one that writes an artifact: the workflows never come back to them.
UpTo(s) == IF s = "propose" THEN {"explore", "propose"} ELSE {"explore", "propose", "plan"}

OwnersAreLeftOnce ==
  \A s \in Stages : OwnsArtifact(Workflow[s]) /\ run.stage \in UpTo(s) => run.stages[s] # "done"

\* The new token is on disk, and the host is about to be told.
Rotated == Busy /\ cmd.todo = <<>> /\ cmd.kind = "resume" /\ cmd.reply = "ok"

TokenIsShared == spent.crashes = 0 => token = run.token \/ Rotated

Agreement ==
  /\ ActiveIsTheLatest /\ OnlyTheCurrentStageIsActive /\ CompletedAtTheEnd
  /\ WorkersAreCounted /\ GatesAreNotAhead /\ VerdictsAreNotAhead
  /\ ClosesAreAudited /\ CallsNameTheirWorker /\ CommittedIsCurrent
  /\ NoChangeIsSwallowed /\ ViolationStopsOrIsReconciled
  /\ FixesAreBounded /\ LeftWithItsArtifact /\ OwnersAreLeftOnce

-----------------------------------------------------------------------------
(* What a save of state.json may do to the run: r is the state it writes.    *)

Kept(r) == r.stage = run.stage /\ r.agents = run.agents /\ r.iterations = run.iterations /\ r.token = run.token

\* Nothing but the reason, or the tokens spent.
MayStay(r) ==
  /\ Kept(r)
  /\ r.status = run.status /\ r.active = run.active /\ r.stages = run.stages

Blocks(r) ==
  /\ Kept(r)
  /\ r.status = "blocked" /\ r.active = NoWorker /\ r.stages = run.stages

\* A block on a violation says so, unless a resume finds it without its effect.
Says(r) ==
  Done(run.active) /\ workers[run.active].blocks =>
    r.why = "policy" \/ (spent.resumes > 0 /\ workers[run.active].closeOp # Anonymous)

MayBlock(r) == run.status = "active" /\ Blocks(r) /\ Says(r)

Applies(r) ==
  /\ Kept(r)
  /\ r.status = "active" /\ r.active = NoWorker /\ r.stages = run.stages

ClosedClean(id) == Done(id) /\ ~workers[id].blocks

MayApply(r) == run.active # NoWorker /\ ClosedClean(run.active) /\ Applies(r)

Leaves(r, next) ==
  /\ r.stage = next /\ r.agents = run.agents /\ r.iterations = run.iterations /\ r.token = run.token
  /\ r.status = "active" /\ r.active = NoWorker
  /\ r.stages = [run.stages EXCEPT ![run.stage] = "done"]

ReviewLeaves(r, verdict) ==
  \/ verdict = "approved" /\ Leaves(r, Workflow[run.stage].next)
  \/ verdict = "needs_fixes" /\ ~ReviewsExceeded(run, run.stage) /\ Leaves(r, Workflow[run.stage].onFixes)

ReviewMayLeave(r) ==
  /\ run.status = "active" /\ run.active \in {NoWorker, Entry}
  /\ Kind(run.stage) = "review" /\ run.stages[run.stage] = "active"
  /\ ClosedClean(Entry)
  /\ ReviewLeaves(r, Verdict(run.iterations[run.stage]))

\* What a close may make of the run, and a block.
MayBecome(r) == MayStay(r) \/ MayBlock(r) \/ MayApply(r) \/ ReviewMayLeave(r)

\* Nobody is at work.
Free == run.status = "active" /\ run.active = NoWorker /\ run.stage \in Stages

\* A gate stage is marked active before its gates run.
Entered(r) == r.stages = [run.stages EXCEPT ![run.stage] = "active"]

GateMayBlock(r) ==
  /\ Free /\ Kind(run.stage) = "gate"
  /\ Kept(r) /\ r.status = "blocked" /\ r.active = NoWorker /\ Entered(r)

Counted(r) == r.iterations = [run.iterations EXCEPT ![run.stage] = @ + 1]

\* The entry that its budget refuses is counted all the same.
EntryMayBlock(r) ==
  /\ Free
  /\ r.status = "blocked" /\ r.active = NoWorker /\ r.stages = run.stages
  /\ r.stage = run.stage /\ r.agents = run.agents /\ r.token = run.token /\ Counted(r)

MayLeave(r) ==
  /\ Free
  /\ \/ Kind(run.stage) = "worker" /\ run.stages[run.stage] = "active" /\ ~ArtifactMissing(run.stage)
     \/ Kind(run.stage) = "gate" /\ (GatesPassed \/ "missing" \in GateOutcomes)
     \/ Kind(run.stage) = "terminal"
  /\ Leaves(r, Workflow[run.stage].next)

\* q completes the run that r leaves at its last stage.
Completes(q, r) ==
  /\ Kind(r.stage) = "terminal"
  /\ q.stage = r.stage /\ q.agents = r.agents /\ q.iterations = r.iterations /\ q.token = r.token
  /\ q.status = "completed" /\ q.active = NoWorker
  /\ q.stages = [r.stages EXCEPT !["done"] = "done"]

MayComplete(q) == Free /\ Completes(q, run)

Opens(r) ==
  /\ r.status = "active" /\ r.stage = run.stage /\ r.token = run.token
  /\ r.agents = run.agents + 1 /\ r.active = <<run.agents + 1, run.stage>>
  /\ Entered(r) /\ Counted(r)

MayOpen(r) == Free /\ Kind(run.stage) \in {"worker", "review"} /\ Opens(r) /\ Running(r.active)

\* What a start or a stage close may make of it.
MayMove(r) == GateMayBlock(r) \/ EntryMayBlock(r) \/ MayLeave(r) \/ MayComplete(r) \/ MayOpen(r)

\* A resume gives up the worker; the violation of a legacy close is dealt with otherwise.
Reopens(r) ==
  /\ r.stage = run.stage /\ r.agents = run.agents /\ r.iterations = run.iterations /\ r.stages = run.stages
  /\ run.status # "completed" /\ r.status = "active" /\ r.active = NoWorker /\ r.token = run.token + 1
  /\ Done(run.active) /\ workers[run.active].blocks => workers[run.active].closeOp # Anonymous

MayReopen(r) == Reopens(r) /\ ~Running(run.active) /\ Unreported = {}

-----------------------------------------------------------------------------
(* Where a command stands: what it still has to write.                       *)

\* A write of A lies ahead, behind writes of P; what follows it is a sequence of T.
Ahead(P, A, T) == {s \in Seq(Writes) : \E h \in Seq(P), w \in A, t \in T : s = h \o (<<w>> \o t)}

Rest == Seq(Quiets)
Soon(A, T) == Ahead(Quiets, A, T)

Sets(do, key, to) == {w \in Writes : w.do = do /\ w.key = key /\ w.to = to}
Saves(r) == Sets("state", 0, r)

SaveThen(r) == Soon(Saves(r), Rest)
LeaveThen(r, q) == Soon(Saves(r), SaveThen(q))

Saving(todo) == \E r \in RunStates : MayBecome(r) /\ todo \in SaveThen(r)

\* A start or a stage close, behind what it says of budgets.
Moving(todo) == \E r \in RunStates : MayMove(r) /\ todo \in SaveThen(r)

Ending(todo) == \E r \in RunStates, q \in RunStates : MayLeave(r) /\ Completes(q, r) /\ todo \in LeaveThen(r, q)

OpenThen(r) == Soon(Sets("worker", r.active, WorkerStatus("running", Anonymous, FALSE)), SaveThen(r))

Opening(todo) ==
  /\ Free /\ Kind(run.stage) \in {"worker", "review"}
  /\ \E r \in RunStates : Opens(r) /\ todo \in OpenThen(r)

\* The gates: the stage is entered, they run, and the run goes on, to its end perhaps, or stops.
GateThen(g, ends, r, q) == Soon(Sets("gate", 0, g), IF ends THEN LeaveThen(r, q) ELSE SaveThen(r))

GateLeads(g, ends, r, q) ==
  /\ g.after = run.agents
  /\ \/ ~ends /\ GateMayBlock(r)
     \/ g.passed /\ Leaves(r, Workflow[run.stage].next) /\ (ends => Completes(q, r))

Gating(todo) ==
  /\ Free /\ Kind(run.stage) = "gate"
  /\ \E g \in GateFiles, r \in RunStates, q \in RunStates, ends \in BOOLEAN :
       GateLeads(g, ends, r, q) /\ todo \in GateThen(g, ends, r, q)

EntersGate(a) == Kept(a) /\ a.status = "active" /\ a.active = NoWorker /\ Entered(a)

GateStarting(todo) ==
  /\ Free /\ Kind(run.stage) = "gate"
  /\ \E a \in RunStates, g \in GateFiles, r \in RunStates, q \in RunStates, ends \in BOOLEAN :
       /\ EntersGate(a) /\ GateLeads(g, ends, r, q)
       /\ todo \in Soon(Saves(a), GateThen(g, ends, r, q))

StageWork(todo) == Moving(todo) \/ Ending(todo) \/ Opening(todo) \/ Gating(todo) \/ GateStarting(todo)

\* A close: audit, verdict, close, and what the run makes of it.
Outcome(r, blocks, verdict) ==
  \/ blocks /\ Blocks(r) /\ r.why = "policy"
  \/ ~blocks /\ Applies(r)
  \/ ~blocks /\ Kind(run.stage) = "review" /\ (Blocks(r) \/ ReviewLeaves(r, verdict))

Judgement == Violates(run.stage, Change(run.active))

CloseThen(id, op, blocks, r) == Soon(Sets("worker", id, WorkerStatus("done", op, blocks)), SaveThen(r))

VoteThen(n, verdict, id, op, r) == Soon(Sets("verdict", n, verdict), CloseThen(id, op, FALSE, r))

OwnWrites(s) == {w \in ArtifactWrites : OwnsArtifact(Workflow[s]) /\ w.key = Workflow[s].artifact}

AuditThen(id, change, T) == Ahead(Quiets \cup OwnWrites(StageOf(id)), Sets("report", id, change), T)

Audited == run.active \in DOMAIN reports /\ reports[run.active] = Change(run.active)

CurrentVerdict == Verdict(run.iterations[run.stage])

Closing(todo, op) ==
  /\ Running(run.active) /\ Audited
  /\ \E r \in RunStates : Outcome(r, Judgement, CurrentVerdict) /\ todo \in CloseThen(run.active, op, Judgement, r)

Voting(todo, op) ==
  /\ Running(run.active) /\ Audited /\ Kind(run.stage) = "review" /\ ~Judgement
  /\ \E r \in RunStates, verdict \in Verdicts :
       Outcome(r, FALSE, verdict) /\ todo \in VoteThen(run.iterations[run.stage], verdict, run.active, op, r)

Auditing(todo, op) ==
  /\ Running(run.active)
  /\ \E r \in RunStates :
       /\ Outcome(r, Judgement, CurrentVerdict)
       /\ todo \in AuditThen(run.active, Change(run.active), CloseThen(run.active, op, Judgement, r))

VoteAuditing(todo, op) ==
  /\ Running(run.active) /\ Kind(run.stage) = "review" /\ ~Judgement
  /\ \E r \in RunStates, verdict \in Verdicts :
       /\ Outcome(r, FALSE, verdict)
       /\ todo \in AuditThen(run.active, Change(run.active),
                             VoteThen(run.iterations[run.stage], verdict, run.active, op, r))

CloseWork(todo, op) == Closing(todo, op) \/ Voting(todo, op) \/ Auditing(todo, op) \/ VoteAuditing(todo, op)

\* A resume: the new snapshot, the workers it gives up, and the new token.
Cancels(ids) == {w \in Writes : w.do = "worker" /\ w.key \in ids /\ w.to.status = "canceled"}

RotateThen(ids, r) == Ahead(Quiets \cup Cancels(ids), Saves(r), {<<>>})

GiveUpThen(id, ids, r) == Ahead(Quiets \cup Cancels(ids), Cancels(ids \cap {id}), RotateThen(ids, r))

Undone(ids) == \A id \in ids : ~Done(id)

Rotating(todo) ==
  \E r \in RunStates, ids \in SUBSET DOMAIN workers :
    Reopens(r) /\ Undone(ids) /\ ~Running(run.active) /\ Unreported = {} /\ todo \in RotateThen(ids, r)

GivingUp(todo) ==
  \E r \in RunStates, ids \in SUBSET DOMAIN workers :
    Reopens(r) /\ Undone(ids) /\ Unreported = {} /\ todo \in GiveUpThen(run.active, ids, r)

Rebasing(todo) ==
  \E r \in RunStates, ids \in SUBSET DOMAIN workers :
    /\ Reopens(r) /\ Undone(ids)
    /\ \/ ~Running(run.active) /\ todo \in Soon(Sets("baseline", 0, DOMAIN changed), RotateThen(ids, r))
       \/ todo \in Soon(Sets("baseline", 0, DOMAIN changed), GiveUpThen(run.active, ids, r))

Reopening(todo) == Rotating(todo) \/ GivingUp(todo) \/ Rebasing(todo)

\* A resume that judges a legacy close and stops the run again.
Relapsing(todo) ==
  \E r \in RunStates, ids \in SUBSET DOMAIN workers :
    /\ MayBlock(r) \/ MayStay(r)
    /\ Undone(ids)
    /\ todo \in Ahead(Quiets \cup Cancels(ids) \cup Saves(r), Saves(r), Rest)

Underway(kind, op, reply, todo) ==
  \/ todo \in Rest
  \/ Saving(todo)
  \/ CloseWork(todo, op)
  \/ ~Committed /\ StageWork(todo)
  \/ Reopening(todo) /\ kind = "resume" /\ reply = "ok" /\ spent.resumes > 0
  \/ Relapsing(todo)

\* A command whose storage is down writes nothing more.
InProgress ==
  /\ cmd.op # Anonymous => cmd.op = Len(calls) /\ Pending
  /\ ~cmd.down => Underway(cmd.kind, cmd.op, cmd.reply, cmd.todo)

AnswersFollowCalls == \A op \in Ops : op > Len(calls) => replies[op] = None

HostInv == Typed /\ Agreement /\ TokenIsShared /\ AnswersFollowCalls /\ (Busy => InProgress)
==============================================================================

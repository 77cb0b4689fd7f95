------------------------------- MODULE HostRun -------------------------------
(***************************************************************************)
(* One run driven by a coding host through the transactional commands of   *)
(* internal/engine/host.go: worker start, worker complete, review          *)
(* complete, stage close and run resume.                                   *)
(*                                                                         *)
(* A command is a process of its own.  Under the run lock (module RunLock) *)
(* it reads the runtime directory, decides, and then performs a sequence   *)
(* of durable writes.  Nothing else writes the run meanwhile, so what the  *)
(* command will write is fixed when it starts: Plan computes it, and the   *)
(* steps below carry it out one file operation at a time, with a crash or  *)
(* a failed write possible at every one of them.  The host retries with    *)
(* the same op-id, abandons the call, or resumes the run.                  *)
(***************************************************************************)
EXTENDS Workflows, Sequences, FiniteSets, SequencesExt

CONSTANTS
  Workflow,          \* the run's workflow: Quick, Review or SDD
  \* the frozen configuration
  MaxAgents,         \* budgets.run.maxAgentInvocations, 0 for no limit
  MaxTokens,         \* the resource budgets of checkBudgets, 0 for no limit
  ReviewBudget,      \* reviewIterationBudget, 0 for no limit
  StageBudget,       \* budgets.stage.<stage>.maxIterations, 0 for no limit
  SensitiveBlocks,   \* security.sensitiveMutations is "block"
  GateOutcomes,      \* what a run of the gates can come to (see GatePlan)
  \* what the environment may do, and the bounds of the model
  Edits,             \* the kinds of change an agent may make
  Usage,             \* the token counts a host may report
  Verdicts,          \* the verdicts a reviewer may return
  Artifacts,         \* the artifact payloads a host may send
  MaxOps,            \* bound on the op-ids the host uses
  MaxWorkers,        \* bound on the workers the run opens
  MaxFaults,         \* bound on commands killed midway or whose storage fails
  MaxResumes,        \* bound on run resume
  Transient,         \* a failed write may be followed by one that works
  AllowAnonymous     \* calls without --op-id are made

Stages == DOMAIN Workflow
Ops == 1 .. MaxOps
Anonymous == 0         \* the empty op-id

\* A worker's id is its stage and its invocation number; NoWorker is the empty id.
\* A start that is killed before state.json leaves the status file of an id behind
\* that the next start uses again only if it is for the same stage.
Ids == (1 .. MaxWorkers) \X Stages
NoWorker == <<0, NoStage>>
StageOf(id) == id[2]

VARIABLES
  run,        \* state.json
  workers,    \* workers/<id>/status.json, for the workers that have one
  reports,    \* workers/<id>/mutations.json: the change each audit recorded, likewise
  verdicts,   \* reviews/: the persisted verdict of each review iteration
  artifacts,  \* artifacts/: a required artifact and its provenance metadata
  gate,       \* gates/: the last verdict of the gates, and how many agents had started
  log,        \* events.ndjson
  records,    \* operations/<op-id>.json
  changed,    \* the working tree: what each worker's agent changed, if it did
  baseline,   \* workspace.json: the workers whose changes its snapshot includes
  cmd,        \* the command in flight
  calls,      \* what the host asked for under each op-id
  replies,    \* what the host was last told about each op-id
  token,      \* the driver token the host holds
  surfaced,   \* history: the workers whose policy block reached state.json
  spent       \* how much of each environment bound is used

disk == <<run, workers, reports, verdicts, artifacts, gate, log, records, baseline>>
host == <<calls, replies, token>>
vars == <<disk, changed, cmd, host, surfaced, spent>>

-----------------------------------------------------------------------------
(* Records *)

StageStatus == {"pending", "active", "done"}

None == "none"

\* config.Load and the built-in workflows: what the frozen configuration may be.
ASSUME ConfigAssumption ==
  /\ Workflow \in {Quick, Review, SDD}
  /\ {MaxAgents, MaxTokens, ReviewBudget, StageBudget} \subseteq Nat
  /\ GateOutcomes \subseteq {"pass", "fail", "mutate", "refused", "missing", "required"}

\* core: what an agent, a reviewer and a host can come up with.
ASSUME EnvironmentAssumption ==
  /\ Edits \subseteq {"plain", "sensitive"} /\ Usage \subseteq Nat
  /\ Verdicts \subseteq {"approved", "needs_fixes", "blocked"}
  /\ Artifacts \subseteq {None, "good", "bad"}

ASSUME BoundsAssumption ==
  /\ {MaxOps, MaxWorkers, MaxFaults, MaxResumes} \subseteq Nat
  /\ {SensitiveBlocks, Transient, AllowAnonymous} \subseteq BOOLEAN

WorkerStatus(status, closeOp, blocks) == [status |-> status, closeOp |-> closeOp, blocks |-> blocks]

Request(kind, stage, worker) ==
  [kind |-> kind, stage |-> stage, worker |-> worker, artifact |-> None, verdict |-> None, tokens |-> 0]

Idle == [kind |-> "idle"]

Init ==
  /\ run = [status |-> "active", why |-> "", stage |-> Start, active |-> NoWorker,
            stages |-> [s \in Stages |-> "pending"], iterations |-> [s \in Stages |-> 0],
            agents |-> 0, tokens |-> 0, token |-> 1]
  /\ workers = <<>> /\ reports = <<>> /\ verdicts = <<>>
  /\ artifacts = [a \in {"proposal", "plan"} |-> [file |-> None, by |-> NoWorker, meta |-> <<>>]]
  /\ gate = [passed |-> FALSE, after |-> 0]
  /\ log = <<>>
  /\ records = <<>>
  /\ changed = <<>> /\ baseline = {}
  /\ cmd = Idle
  /\ calls = <<>>
  /\ replies = [op \in Ops |-> None]
  /\ token = 1
  /\ surfaced = {}
  /\ spent = [crashes |-> 0, failures |-> 0, resumes |-> 0]

\* A file of each kind is there or not; Has(id, status) reads a worker's status.
Has(id, status) == id \in DOMAIN workers /\ workers[id].status = status
Running(id) == Has(id, "running")
Done(id) == Has(id, "done")
Change(id) == IF id \in DOMAIN changed THEN changed[id] ELSE "nothing"
Verdict(i) == IF i \in DOMAIN verdicts THEN verdicts[i] ELSE None
Recorded(op) == op \in DOMAIN records

-----------------------------------------------------------------------------
(* The event log *)

\* The events an operation already has in the log: its retry skips as many.
Written(op) ==
  IF op = Anonymous THEN 0 ELSE Cardinality({i \in DOMAIN log : log[i].op = op})

\* checkEventLogCoherence: the events of each operation appear as 1, 2, 3, ...
Coherent ==
  \A i \in DOMAIN log : log[i].op # Anonymous =>
    log[i].seq = Cardinality({j \in 1 .. i : log[j].op = log[i].op})

-----------------------------------------------------------------------------
(* Durable writes.  A "strict" write that fails is remembered, a "hard" one  *)
(* returns its error at once, a "loose" one only warns.  checked: the        *)
(* command consults persistFailed before it goes on to this write.           *)

Write(do, to) == [do |-> do, to |-> to, key |-> 0, mode |-> "strict", checked |-> FALSE]
Keyed(do, key, to) == [Write(do, to) EXCEPT !.key = key]
Hard(w) == [w EXCEPT !.mode = "hard"]
Checked(w) == [w EXCEPT !.checked = TRUE]
Loose(plan) == [i \in DOMAIN plan |-> [plan[i] EXCEPT !.mode = "loose"]]

SaveState(r) == Write("state", r)
Emit(event) == Write("event", event)

\* A plan: the writes of a command, and what it answers when they are done.
Plan(writes, reply) == [writes |-> writes, reply |-> reply]
Then(writes, plan) == Plan(writes \o plan.writes, plan.reply)

Blocked(r, why) == [r EXCEPT !.status = "blocked", !.why = why, !.active = NoWorker]

Block(r, why) ==
  Plan(<<SaveState(Blocked(r, why)), Checked(Emit("run_blocked"))>>, "blocked")

\* The stage is marked done and left in one write; the events follow it.
Advance(r, s, next) ==
  <<SaveState([r EXCEPT !.stages[s] = "done", !.stage = next]),
    Checked(Emit("stage_completed")), Emit("stage_transition")>>

Complete(r) ==
  <<SaveState([r EXCEPT !.status = "completed", !.stage = "done", !.active = NoWorker,
                        !.stages["done"] = "done"]),
    Checked(Emit("run_completed"))>>

Answer(r) == Plan(<<>>, IF r.status = "blocked" THEN "blocked" ELSE "ok")

Kind(s) == IF s \in Stages THEN Workflow[s].kind ELSE None

-----------------------------------------------------------------------------
(* Budgets *)

AgentBudgetExceeded(r) == MaxAgents > 0 /\ r.agents >= MaxAgents
ResourcesExceeded(r) == MaxTokens > 0 /\ r.tokens >= MaxTokens
HostBudgetExceeded(r) == AgentBudgetExceeded(r) \/ ResourcesExceeded(r)

\* stageIterationsBlocked; a stage's own limit replaces the workflow's for reviews.
EntriesExceeded(r, s) == StageBudget > 0 /\ r.iterations[s] > StageBudget
\* Mutant: one review too many.
ReviewsExceededLate(r, s) == ReviewBudget > 0 /\ r.iterations[s] > ReviewBudget

ReviewsExceeded(r, s) ==
  LET budget == IF StageBudget > 0 THEN StageBudget ELSE ReviewBudget IN
  budget > 0 /\ r.iterations[s] >= budget

HostBudgetBlock(r) ==
  Then(<<Emit("budget_exceeded")>>, Block(r, IF AgentBudgetExceeded(r) THEN "agents" ELSE "tokens"))

-----------------------------------------------------------------------------
(* worker start *)

\* A retry finds the worker its first attempt opened.
RecoversStart(op, req) ==
  /\ op # Anonymous
  /\ Running(run.active)
  /\ StageOf(run.active) = req.stage

ValidStart(req) ==
  /\ run.status = "active"
  /\ run.active = NoWorker
  /\ req.stage = run.stage
  /\ Kind(req.stage) \in {"worker", "review"}

OpenWorker(r, s) ==
  LET id == <<r.agents + 1, s>> IN
  Plan(<<Hard(Write("file", "tracking")),
         Keyed("worker", id, WorkerStatus("running", Anonymous, FALSE)),
         SaveState([r EXCEPT !.agents = @ + 1, !.stages[s] = "active", !.active = id]),
         Emit("worker_started")>>, "ok")

StartPlan(op, req) ==
  LET r == [run EXCEPT !.iterations[req.stage] = @ + 1] IN
  IF RecoversStart(op, req) THEN Plan(<<>>, "ok")
  ELSE IF HostBudgetExceeded(run) THEN HostBudgetBlock(run)
  ELSE IF EntriesExceeded(r, req.stage)
       THEN Then(<<Emit("budget_exceeded")>>, Block(r, "iterations"))
  ELSE OpenWorker(r, req.stage)

-----------------------------------------------------------------------------
(* worker complete and review complete *)

\* mutationPolicyVerdict: a read-only stage may change nothing, a worker may
\* not change a sensitive file.
Violates(s, change) ==
  \/ Workflow[s].readOnly /\ change # "nothing"
  \/ SensitiveBlocks /\ change = "sensitive"

\* A retry of the call that closed the worker re-applies what the close recorded.
ResumesCommitted(op, req) ==
  /\ op # Anonymous
  /\ Done(req.worker)
  /\ workers[req.worker].closeOp = op

ValidClose(req) ==
  /\ run.active = req.worker
  /\ Running(req.worker)
  /\ LET s == StageOf(req.worker) IN
     IF req.kind = "review"
       THEN Kind(s) = "review" /\ req.verdict # None
       ELSE req.artifact # None => OwnsArtifact(Workflow[s])

\* Mutant: the closed worker stays the active one.
KeepsActive(r, blocks) == IF blocks THEN Block(r, "policy") ELSE Plan(<<SaveState(r)>>, "ok")

\* The outcome a close recorded, applied on the way of the close and again by its
\* retry: a run that is blocked already keeps its answer.
ApplyWorkerOutcome(r, blocks) ==
  IF r.status = "blocked" THEN Answer(r)
  ELSE IF blocks THEN Block(r, "policy")
  ELSE Plan(<<SaveState([r EXCEPT !.active = NoWorker])>>, "ok")

\* Mutant: the verdict decides, whatever the reviewer's own audit said.
AdvanceOnVerdict(r, s, blocks, verdict) ==
  Plan(Advance([r EXCEPT !.active = NoWorker], s,
               IF verdict = "needs_fixes" THEN Workflow[s].onFixes ELSE Workflow[s].next), "ok")

\* decideFromVerdict and advanceStage: the branch is read back from the verdict.
ApplyReviewOutcome(r, s, blocks, verdict) ==
  LET cleared == [r EXCEPT !.active = NoWorker] IN
  IF r.status = "blocked" THEN Answer(r)
  ELSE IF blocks THEN Block(r, "policy")
  ELSE IF r.stages[s] = "done" THEN Plan(<<SaveState(cleared)>>, "ok")
  ELSE IF verdict \notin {"approved", "needs_fixes"} THEN Block(cleared, "verdict")
  ELSE IF verdict = "needs_fixes" /\ ReviewsExceeded(r, s) THEN Block(cleared, "reviews")
  ELSE Plan(Advance(cleared, s, IF verdict = "approved" THEN Workflow[s].next ELSE Workflow[s].onFixes),
            "ok")

SaveArtifact(id, r, quality) ==
  LET a == Workflow[StageOf(id)].artifact IN
  <<Hard(Keyed("artifact", a, [file |-> quality, by |-> id])),
    Hard(Keyed("meta", a, <<id, r.iterations[StageOf(id)]>>)),
    Emit("artifact_saved")>>

\* persistWorkerResult, applyUsage, materializeArtifacts and trackMutations: the
\* evidence of the close, each part on disk before the next is gathered.
Evidence(id, r, req) ==
  <<Write("file", "result")>>
  \o (IF req.tokens > 0 THEN <<Emit("token_usage")>> ELSE <<>>)
  \o (IF req.artifact # None THEN SaveArtifact(id, r, req.artifact) ELSE <<>>)
  \o <<Checked(Keyed("report", id, Change(id))), Emit("mutation_tracked")>>
  \o (IF Change(id) = "sensitive" THEN <<Emit("sensitive_mutation")>> ELSE <<>>)

\* persistReviewVerdict: a reviewer that violated the policy has no say.
PersistVerdict(r, s, req) ==
  <<Checked(Hard(Keyed("verdict", r.iterations[s], req.verdict))), Emit("review_completed")>>

\* commitWorkerClose: one write closes the worker and records its outcome.  The
\* audit's errors stop the command before it, the verdict's event only after it.
CommitClose(op, id, blocks, audited) ==
  LET close == Keyed("worker", id, WorkerStatus("done", op, blocks)) IN
  <<IF audited THEN Checked(close) ELSE close, Checked(Emit("worker_finished"))>>

\* Mutant: the worker is closed before its evidence is on disk.
CloseThenAudit(op, req) ==
  LET blocks == Violates(StageOf(req.worker), Change(req.worker)) IN
  Then(CommitClose(op, req.worker, blocks, FALSE) \o Evidence(req.worker, run, req),
       ApplyWorkerOutcome(run, blocks))

AuditAndClose(op, req) ==
  LET id == req.worker
      s == StageOf(id)
      blocks == Violates(s, Change(id))
      r == [run EXCEPT !.tokens = @ + req.tokens]
      votes == req.kind = "review" /\ ~blocks
  IN
  Then(Evidence(id, r, req)
         \o (IF votes THEN PersistVerdict(r, s, req) ELSE <<>>)
         \o CommitClose(op, id, blocks, ~votes),
       IF req.kind = "review" THEN ApplyReviewOutcome(r, s, blocks, req.verdict)
                              ELSE ApplyWorkerOutcome(r, blocks))

ClosePlan(op, req) ==
  LET s == StageOf(req.worker)
      blocks == workers[req.worker].blocks
  IN
  IF ~ResumesCommitted(op, req) THEN AuditAndClose(op, req)
  ELSE IF req.kind = "review"
         THEN ApplyReviewOutcome(run, s, blocks, Verdict(run.iterations[s]))
         ELSE ApplyWorkerOutcome(run, blocks)

-----------------------------------------------------------------------------
(* stage close *)

\* The stage is already done: only the op-id that closed it gets an answer, and
\* the proof that it did is that the log has events of it.
RecoversStage(op, req) == op # Anonymous /\ run.stages[req.stage] = "done"

\* Mutant: nor whether anybody worked on the stage.
ValidStageCloseUnworked(req) ==
  /\ run.status = "active"
  /\ run.active = NoWorker
  /\ req.stage = run.stage
  /\ Kind(req.stage) \in {"worker", "gate", "terminal"}

ValidStageClose(req) ==
  /\ run.status = "active"
  /\ run.active = NoWorker
  /\ req.stage = run.stage
  /\ Kind(req.stage) \in {"worker", "gate", "terminal"}
  /\ Kind(req.stage) = "worker" => run.stages[req.stage] = "active"

\* Mutant: the content of the artifact is enough.
ArtifactUnreadable(s) ==
  OwnsArtifact(Workflow[s]) /\ artifacts[Workflow[s].artifact].file # "good"

\* checkRequiredArtifact: there, good, of this stage and this entry, unchanged.
ArtifactMissing(s) ==
  /\ OwnsArtifact(Workflow[s])
  /\ LET a == artifacts[Workflow[s].artifact] IN
     \/ a.file # "good"
     \/ a.meta # <<a.by, run.iterations[s]>>
     \/ StageOf(a.by) # s

Leave(r, s) ==
  LET next == Workflow[s].next IN
  Plan(Advance(r, s, next)
       \o (IF Kind(next) = "terminal"
             THEN Complete([r EXCEPT !.stages[s] = "done", !.stage = next]) ELSE <<>>), "ok")

\* runGateStage: the configured gates run one after the other and the first that
\* fails stops the run; they stand for one gate here.  outcome: "pass", "fail",
\* "mutate" (the gate changed files), "refused" (by the command policy),
\* "missing" (none configured) or "required" (none configured, requireGates).
GatePlan(r, s, outcome) ==
  LET active == [r EXCEPT !.stages[s] = "active"]
      started == <<Emit("stage_started")>>
      ran == <<Checked(Emit("gate_started")), SaveState(active),
               Checked(Hard(Write("gate", [passed |-> outcome # "fail", after |-> r.agents])))>>
      completed == ran \o <<Emit("gate_completed")>>
  IN
  Then(started,
    CASE outcome = "pass"     -> Then(completed, Leave(active, s))
      [] outcome = "fail"     -> Then(completed, Block(active, "gate"))
      [] outcome = "mutate"   -> Then(ran \o <<Write("file", "mutations"), Emit("gate_mutation")>>, Block(active, "gate"))
      [] outcome = "refused"  -> Then(<<Checked(Emit("policy_blocked"))>>, Block(active, "gate"))
      [] outcome = "missing"  -> Then(<<Checked(Emit("no_gates_configured"))>>, Leave(active, s))
      [] outcome = "required" -> Then(<<Checked(Emit("no_gates_configured"))>>, Block(active, "gate")))

StagePlans(op, req) ==
  IF RecoversStage(op, req) THEN {Answer(run)}
  ELSE IF HostBudgetExceeded(run) THEN {HostBudgetBlock(run)}
  ELSE IF Kind(req.stage) = "gate" THEN {GatePlan(run, req.stage, g) : g \in GateOutcomes}
  ELSE IF ArtifactMissing(req.stage) THEN {Block(run, "artifact")}
  ELSE {Leave(run, req.stage)}

-----------------------------------------------------------------------------
(* Commands *)

\* The checks every command passes before its first write.
Accepts(op, req) ==
  /\ Coherent
  /\ token = run.token
  /\ CASE req.kind = "start" -> RecoversStart(op, req) \/ ValidStart(req)
       [] req.kind = "close" -> IF RecoversStage(op, req) THEN Written(op) > 0
                                                          ELSE ValidStageClose(req)
       [] OTHER              -> ResumesCommitted(op, req) \/ ValidClose(req)

\* What an accepted command may do: the outcome of the gates is not its choice.
Plans(op, req) ==
  CASE req.kind = "start" -> {StartPlan(op, req)}
    [] req.kind = "close" -> StagePlans(op, req)
    [] OTHER              -> {ClosePlan(op, req)}

\* recordOp is the last write of a command with an op-id.
WithRecord(op, plan) ==
  IF op = Anonymous THEN plan
  ELSE Plan(plan.writes \o <<Checked(Hard(Keyed("record", op, plan.reply)))>>, plan.reply)

Begin(op, kind, plan) ==
  cmd' = [kind |-> kind, op |-> op, todo |-> plan.writes, reply |-> plan.reply,
          seq |-> 0, already |-> Written(op), err |-> FALSE, down |-> FALSE]

\* What a host sends when its agent, or its reviewer, is done.
CompleteRequest(id, a, t) == [Request("complete", NoStage, id) EXCEPT !.artifact = a, !.tokens = t]
ReviewRequest(id, v, t) == [Request("review", NoStage, id) EXCEPT !.verdict = v, !.tokens = t]

\* The host reads `status` and asks for a step of the stage the run is at.
Requests ==
  {Request("start", s, NoWorker) : s \in {run.stage} \cap Stages}
  \cup {Request("close", s, NoWorker) : s \in {run.stage} \cap Stages}
  \cup {CompleteRequest(run.active, a, t) : a \in Artifacts, t \in Usage}
  \cup {ReviewRequest(run.active, v, t) : v \in Verdicts, t \in Usage}

Sensible(req) == req.kind \in {"complete", "review"} => req.worker # NoWorker

\* A new call; a rejected one leaves no trace and is not taken.
Call(req) ==
  /\ cmd = Idle
  /\ Len(calls) < MaxOps
  /\ req.kind = "start" => run.agents < MaxWorkers
  /\ LET op == Len(calls) + 1 IN
     /\ Accepts(op, req)
     /\ calls' = Append(calls, req)
     /\ \E plan \in Plans(op, req) : Begin(op, req.kind, WithRecord(op, plan))
  /\ UNCHANGED <<disk, changed, replies, token, surfaced, spent>>

\* The host has not been told yet what became of its latest op-id.  It retries that
\* one until it asks for something else.
Pending == calls # <<>> /\ replies[Len(calls)] \in {None, "error"}

CallAnonymously(req) ==
  /\ AllowAnonymous
  /\ cmd = Idle
  /\ req.kind = "start" => run.agents < MaxWorkers
  /\ Accepts(Anonymous, req)
  /\ \E plan \in Plans(Anonymous, req) : Begin(Anonymous, req.kind, plan)
  /\ replies' = IF Pending THEN [replies EXCEPT ![Len(calls)] = "dropped"] ELSE replies
  /\ UNCHANGED <<disk, changed, calls, token, surfaced, spent>>

Retryable(op) ==
  /\ cmd = Idle
  /\ op = Len(calls) /\ Pending
  /\ calls[op].kind = "start" => run.agents < MaxWorkers

\* cachedOpResult: the operation is on record, and only its reply was lost.
RetryCached(op) ==
  /\ Retryable(op)
  /\ Coherent
  /\ Recorded(op)
  /\ replies' = [replies EXCEPT ![op] = records[op]]
  /\ UNCHANGED <<disk, changed, cmd, calls, token, surfaced, spent>>

Retry(op) ==
  /\ Retryable(op)
  /\ ~Recorded(op)
  /\ Accepts(op, calls[op])
  /\ \E plan \in Plans(op, calls[op]) : Begin(op, calls[op].kind, WithRecord(op, plan))
  /\ UNCHANGED <<disk, changed, host, surfaced, spent>>

RetryRejected(op) ==
  /\ Retryable(op)
  /\ ~Recorded(op)
  /\ ~Accepts(op, calls[op])
  /\ replies' = [replies EXCEPT ![op] = "dropped"]
  /\ UNCHANGED <<disk, changed, cmd, calls, token, surfaced, spent>>

-----------------------------------------------------------------------------
(* run resume (ReopenRun): no strict scope, so a plain event or save only    *)
(* warns when it fails.                                                      *)

Unreported ==
  {id \in DOMAIN changed \ baseline : ~(id \in DOMAIN reports /\ reports[id] = changed[id])}

\* Mutant: the open worker's changes count as accounted for.
DriftedElsewhere == Unreported \ {run.active} # {}

\* checkDrift: the tree differs from the snapshot overlaid with the audits.
Drifted == Unreported # {}

\* resolveDrift without and with --accept-changes.
DriftBlock == Plan(Loose(<<Emit("workspace_drift")>> \o Block(run, "drift").writes), "blocked")
Rebaseline ==
  IF Drifted THEN <<Hard(Write("baseline", DOMAIN changed))>> \o Loose(<<Emit("workspace_rebaselined")>>)
             ELSE <<>>

\* A worker closed without an op-id whose outcome never reached state.json.
LegacyClose(id) == id = run.active /\ Done(id) /\ workers[id].closeOp = Anonymous

\* Mutant: only read-only stages are judged again.
LegacyReadOnlyViolation ==
  LegacyClose(run.active) /\ Workflow[StageOf(run.active)].readOnly /\ reports[run.active] # "nothing"

LegacyViolation == LegacyClose(run.active) /\ Violates(StageOf(run.active), reports[run.active])

\* reconcileInterruptedWorkers, for one worker of the run.
Reconcile(r, id) ==
  CASE Running(id)     -> <<Hard(Keyed("worker", id, [workers[id] EXCEPT !.status = "canceled"]))>>
                          \o Loose(<<Emit("worker_interrupted")>>)
    [] LegacyClose(id) -> Loose(<<Emit("legacy_worker_reconciled")>>
                                \o (IF LegacyViolation THEN Block(r, "policy").writes ELSE <<>>))
    [] OTHER           -> <<>>

ReconcileAll(r) ==
  LET order == SetToSeq(DOMAIN workers) IN FlattenSeq([i \in DOMAIN order |-> Reconcile(r, order[i])])

\* Mutant: the token is rotated before the resume is announced.
RotateThenAnnounce(r) ==
  <<Hard(SaveState([r EXCEPT !.active = NoWorker, !.token = @ + 1])), Hard(Emit("run_resumed"))>>

\* rotateTokenAndAnnounceResume: the event first, then the hash of the new token.
Rotate(r) ==
  <<Hard(Emit("run_resumed")), Hard(SaveState([r EXCEPT !.active = NoWorker, !.token = @ + 1]))>>

ResumePlan(accept) ==
  LET r == [run EXCEPT !.status = "active", !.why = ""]
      reopen == Rebaseline \o ReconcileAll(r) \o <<Hard(Write("file", "config"))>>
  IN
  IF Drifted /\ ~accept   THEN DriftBlock
  ELSE IF LegacyViolation THEN Plan(reopen \o <<Hard(SaveState(Blocked(r, "policy")))>>, "blocked")
  ELSE Plan(reopen \o Rotate(r), "ok")

Resume(accept) ==
  /\ cmd = Idle
  /\ spent.resumes < MaxResumes
  /\ Coherent
  /\ run.status # "completed"
  /\ spent' = [spent EXCEPT !.resumes = @ + 1]
  /\ Begin(Anonymous, "resume", ResumePlan(accept))
  /\ UNCHANGED <<disk, changed, host, surfaced>>

-----------------------------------------------------------------------------
(* Carrying out a command *)

Busy == cmd # Idle

FaultsLeft == spent.crashes + spent.failures < MaxFaults

Todo == Head(cmd.todo)

\* persistFailed stops the command before this write.
Stops == cmd.err /\ Todo.checked

\* Mutant: the last event of the previous attempt is written again.
SkippedButOne(w) == w.do = "event" /\ cmd.seq + 1 < cmd.already

\* emit: an event a previous attempt of this op-id appended is not written again.
Skipped(w) == w.do = "event" /\ cmd.seq + 1 <= cmd.already

Put(file, key, content) == [k \in DOMAIN file \cup {key} |-> IF k = key THEN content ELSE file[k]]

Saved(w) ==
  /\ run' = IF w.do = "state" THEN w.to ELSE run
  /\ workers' = IF w.do = "worker" THEN Put(workers, w.key, w.to) ELSE workers
  /\ reports' = IF w.do = "report" THEN Put(reports, w.key, w.to) ELSE reports
  /\ verdicts' = IF w.do = "verdict" THEN Put(verdicts, w.key, w.to) ELSE verdicts
  /\ artifacts' = CASE w.do = "artifact" -> [artifacts EXCEPT ![w.key].file = w.to.file,
                                                              ![w.key].by = w.to.by]
                    [] w.do = "meta"     -> [artifacts EXCEPT ![w.key].meta = w.to]
                    [] OTHER             -> artifacts
  /\ gate' = IF w.do = "gate" THEN w.to ELSE gate
  /\ records' = IF w.do = "record" THEN Put(records, w.key, w.to) ELSE records
  /\ baseline' = IF w.do = "baseline" THEN w.to ELSE baseline

Appended(w) ==
  log' = IF w.do = "event" /\ ~Skipped(w)
           THEN Append(log, [op |-> cmd.op, event |-> w.to,
                             seq |-> IF cmd.op = Anonymous THEN 0 ELSE cmd.seq + 1])
           ELSE log

Remember(w) ==
  surfaced' = IF w.do = "state" /\ w.to.why = "policy" THEN surfaced \cup {run.active} ELSE surfaced

Popped(w) == [cmd EXCEPT !.todo = Tail(@), !.seq = IF w.do = "event" THEN @ + 1 ELSE @]

Step ==
  /\ Busy /\ cmd.todo # <<>> /\ ~Stops
  /\ cmd.down => Skipped(Todo)
  /\ Saved(Todo) /\ Appended(Todo) /\ Remember(Todo)
  /\ cmd' = Popped(Todo)
  /\ UNCHANGED <<changed, host, spent>>

\* The command is over; what it says goes to the host.
Finish(reply) ==
  /\ cmd' = Idle
  /\ replies' = IF cmd.op = Anonymous THEN replies ELSE [replies EXCEPT ![cmd.op] = reply]

Report ==
  /\ Busy /\ cmd.todo = <<>>
  /\ Finish(IF cmd.err THEN "error" ELSE cmd.reply)
  /\ token' = IF cmd.kind = "resume" /\ cmd.reply = "ok" THEN run.token ELSE token
  /\ UNCHANGED <<disk, changed, calls, surfaced, spent>>

Abort ==
  /\ Busy /\ cmd.todo # <<>> /\ Stops
  /\ Finish("error")
  /\ UNCHANGED <<disk, changed, calls, token, surfaced, spent>>

\* A write fails.  A file keeps its old content, for it is renamed into place; an
\* event may have reached the log all the same, when only its fsync failed.  The
\* storage stays down for the rest of the command, unless failures are transient.
FailedWrite ==
  /\ Busy /\ cmd.todo # <<>> /\ ~Stops
  /\ ~Skipped(Todo)
  /\ IF cmd.down THEN UNCHANGED spent
     ELSE /\ FaultsLeft
          /\ spent' = [spent EXCEPT !.failures = @ + 1]
  /\ IF Todo.mode = "hard" THEN Finish("error")
     ELSE /\ cmd' = [Popped(Todo) EXCEPT !.err = @ \/ Todo.mode = "strict", !.down = ~Transient]
          /\ UNCHANGED replies
  /\ UNCHANGED log \/ (Todo.do = "event" /\ ~cmd.down /\ Appended(Todo))
  /\ UNCHANGED <<run, workers, reports, verdicts, artifacts, gate, records, baseline>>
  /\ UNCHANGED <<changed, calls, token, surfaced>>

\* The process is killed.  Its lock is orphaned and the next command takes it.
Crash ==
  /\ Busy
  /\ FaultsLeft
  /\ spent' = [spent EXCEPT !.crashes = @ + 1]
  /\ cmd' = Idle
  /\ UNCHANGED <<disk, changed, host, surfaced>>

-----------------------------------------------------------------------------
(* The agent of the open worker changes the working tree, until the host    *)
(* reports it complete.                                                     *)

Reported(id) ==
  \/ \E op \in DOMAIN calls : calls[op].worker = id
  \/ id \in DOMAIN reports

AgentEdits(change) ==
  /\ cmd = Idle
  /\ Running(run.active)
  /\ run.active \notin DOMAIN changed
  /\ ~Reported(run.active)
  /\ changed' = Put(changed, run.active, change)
  /\ UNCHANGED <<disk, cmd, host, surfaced, spent>>

-----------------------------------------------------------------------------
(* The specification *)

Commands ==
  \/ \E req \in Requests : Sensible(req) /\ (Call(req) \/ CallAnonymously(req))
  \/ \E op \in Ops : RetryCached(op) \/ Retry(op) \/ RetryRejected(op)
  \/ \E accept \in BOOLEAN : Resume(accept)

Execution == Step \/ Report \/ Abort \/ FailedWrite \/ Crash

Next ==
  \/ Commands
  \/ Execution
  \/ \E change \in Edits : AgentEdits(change)

Spec == Init /\ [][Next]_vars

\* A command that is not killed runs to its end, and the host asks for a next step
\* as long as one is accepted; which one it asks for is up to it.
FairSpec ==
  /\ Spec
  /\ WF_vars(Step \/ Report \/ Abort)
  /\ WF_vars(\E req \in Requests : Sensible(req) /\ Call(req))

-----------------------------------------------------------------------------
(* Invariants *)

TypeOK ==
  /\ run.status \in {"active", "blocked", "completed"}
  /\ run.stage \in Stages \cup {NoStage}
  /\ run.active \in Ids \cup {NoWorker}
  /\ run.agents \in 0 .. MaxWorkers
  /\ run.stages \in [Stages -> StageStatus]
  /\ run.iterations \in [Stages -> Nat]
  /\ DOMAIN workers \subseteq Ids
  /\ \A id \in DOMAIN workers : /\ workers[id].status \in {"running", "done", "canceled"}
                                /\ workers[id].closeOp \in {Anonymous} \cup Ops
  /\ DOMAIN reports \subseteq DOMAIN workers /\ DOMAIN changed \subseteq DOMAIN workers
  /\ DOMAIN records \subseteq Ops /\ Len(calls) <= MaxOps
  /\ baseline \subseteq DOMAIN changed
  /\ replies \in [Ops -> {None, "ok", "blocked", "error", "dropped"}]

\* commitWorkerClose: a worker is closed only on the audit of what its agent
\* really changed, whatever crash, failed write, retry or resume came before the close.
ClosedOnItsOwnEvidence ==
  \A id \in DOMAIN workers : Done(id) => id \in DOMAIN reports /\ reports[id] = Change(id)

\* Until its block has reached state.json the run still waits for the worker.
Stopped(id) == id \in surfaced \/ run.active = id

\* A policy violation that closed a worker stops the run.
ViolationStopsTheRun == \A id \in DOMAIN workers : Done(id) /\ workers[id].blocks => Stopped(id)

\* The same, where it is kept: until a human resumes the run, and after that for a
\* close without an op-id, which reconcileLegacyClose judges again.
ViolationStopsOrIsReconciled ==
  \A id \in DOMAIN workers :
    Done(id) /\ workers[id].blocks /\ (spent.resumes = 0 \/ workers[id].closeOp = Anonymous) => Stopped(id)

\* checkDrift and the audits: a change that no audit recorded is the open worker's,
\* or the run is stopped, or a human accepted it on resume; none is swallowed by
\* the snapshot the following worker starts from.
NoChangeIsSwallowed ==
  \A id \in Unreported : run.active = id \/ run.status = "blocked"

\* Any log the kernel wrote is one it accepts: no sequence of crashes, failures
\* and retries makes checkEventLogCoherence refuse the run.
LogStaysCoherent == Coherent

\* reviewIterationBudget: N reviews allow N - 1 fixes.  The run is at `fix` only on
\* the verdict of the current review, and that was not the last one allowed.
FixesAreBounded ==
  LET budget == IF StageBudget > 0 THEN StageBudget ELSE ReviewBudget IN
  run.stage = "fix" =>
    /\ Verdict(run.iterations["review"]) = "needs_fixes"
    /\ budget > 0 => run.iterations["review"] < budget

\* A stage that requires an artifact is left on a good one, written by a worker
\* of the same entry into the stage.
LeftWithItsArtifact ==
  \A s \in Stages : OwnsArtifact(Workflow[s]) /\ run.stages[s] = "done" =>
    LET a == artifacts[Workflow[s].artifact] IN
    a.file = "good" /\ StageOf(a.by) = s /\ a.meta = <<a.by, run.iterations[s]>>

\* rotateTokenAndAnnounceResume: whatever write of a resume fails, the token the
\* host holds is the one the run accepts, unless the command was killed.
FailedResumeKeepsToken == cmd = Idle /\ spent.crashes = 0 => token = run.token

\* Closing the last stage before the terminal one completes the run.
LastCloseCompletes ==
  \A op \in DOMAIN calls :
    calls[op].kind = "close" /\ calls[op].stage = "verify" /\ replies[op] = "ok"
      => run.status = "completed"

-----------------------------------------------------------------------------
(* The run as the kernel promises it.  The worker's status file says what    *)
(* became of it, state.json whether the run has taken note.                  *)

WorkerOutcome ==
  CASE run.active = NoWorker   -> "none"
    [] Done(run.active)        -> IF workers[run.active].blocks THEN "violating" ELSE "clean"
    [] Has(run.active, "canceled") -> "interrupted"
    [] OTHER                   -> "open"

\* The verdict of the clean reviewer of this entry into the stage, if there is one.
Decided ==
  IF /\ Kind(run.stage) = "review" /\ run.stages[run.stage] = "active"
     /\ Done(<<run.agents, run.stage>>) /\ ~workers[<<run.agents, run.stage>>].blocks
    THEN Verdict(run.iterations[run.stage]) ELSE None

\* The stage was worked on, and nobody is at work.
Ready ==
  /\ run.status = "active" /\ run.active = NoWorker
  /\ Kind(run.stage) = "worker" /\ run.stages[run.stage] = "active"

\* The gates passed, and no agent has started since.
GatesPassed == gate.passed /\ gate.after = run.agents

Promise == INSTANCE RunPromise WITH
  GatesOptional <- "missing" \in GateOutcomes,
  status  <- run.status,
  stage   <- run.stage,
  worker  <- WorkerOutcome,
  verdict <- Decided,
  ready   <- Ready,
  passed  <- GatesPassed

\* Whatever is killed, fails, is retried or resumed, the files of a run go through
\* the workflow as RunPromise says: no worker is skipped or opened twice, no stage
\* is left on the work, the verdict or the gates of another.
KeepsThePromise == Promise!Spec

-----------------------------------------------------------------------------
(* Action and temporal properties *)

\* checkBudgets: the agent budget "gates only the START of an agent, so spending it
\* does not block verify/done".
AgentBudgetStopsOnlyStarts ==
  [][run'.status = "blocked" /\ run'.why = "agents" => run.status = "blocked" \/ cmd.kind = "start"]_run

\* The host asked for a worker when it had one: such calls cost the run nothing.
AsksAgain ==
  Cardinality({op \in DOMAIN calls : calls[op].kind = "start" /\ replies[op] = "ok"}) > run.agents

\* A run with an agent budget comes to an end: whichever steps the host asks for and
\* whatever agents, reviewers and gates come to, it completes or stops for a human.
EventuallyStops == <>(run.status \in {"completed", "blocked"} \/ AsksAgain)
=============================================================================

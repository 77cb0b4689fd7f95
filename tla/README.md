# VichuFlow: a verification project in TLA+

VichuFlow runs coding agents through a staged workflow (explore, implement, review, fix, verify,
done). The kernel decides what a run may do next; the agents only propose. Its promise is that
the run directory never lies: a stage is closed on evidence, a policy violation stops the run, a
budget holds, a command that reports success has its effects on disk, and a command that died can
be retried. This directory holds models of that promise, what TLC and TLAPS say of them, and what
is left out.

The subject is the Go program under `src/`; line numbers below refer to it.

## 1. Inventory

For each component: the state it keeps, its operations, whom it talks to, what is hard about it,
what makes it correct, and, in brackets, the module.

**Run lock** (`internal/runtime/lock.go`, `internal/core/lock.go`). State: `lock.json`, with a token,
owner pid and host, and a heartbeat time. Operations: acquire (hard link a complete temporary file;
if it exists, inspect, remove the orphan, link again), heartbeat (read, compare the token, rename a
new file over it), release (read, compare, unlink). Used by every command that mutates a run, by
the headless loop and by the pack installer. Hard: every operation is a check followed by an act by
path, between processes; owners crash, stall, or sit on a machine that cannot be probed. Correct if
at most one live process acts as the owner, nobody is locked out by a dead one, and a process whose
lock was taken over stops. [`RunLock`]

**Host-first commands** (`internal/engine/host.go`). A coding host drives a run by `worker start`,
`worker complete`, `review complete` and `stage close`, each with an optional op-id. State:
`state.json`, `workers/<id>/status.json`, `operations/<op-id>.json`, artifacts and their provenance.
Each command takes the lock, validates the event log, answers from the operation record if there is
one, and otherwise performs a sequence of durable writes and records itself. Hard: there is no
transaction, so any write may be the last; the retry replays the command from the top and must
recognise what is done; several recovery paths exist, each for one crash window. Correct if a closed
worker is closed on the audit of its own changes, an outcome that was committed is applied exactly
once, and what is reported agrees with the disk. [`HostRun`]

**Stage evidence** (`internal/engine/stage.go`). Mutation audits and their policy verdict, review
verdicts and the iteration budget, gates, drift against the workspace snapshot. Called by the
host-first commands and by the headless loop. Hard: evidence goes stale (an edit after the gates or
after a review), is partly written, or is judged again by a retry. Correct if a stage is left only on
the evidence of its own worker. [`HostRun`, `Headless`; by path `Workspace`]

**Resume and the driver token** (`internal/engine/resume.go`, `driver.go`, `ReopenRun` and `Resume` in
`engine.go`). A human reopens a blocked or interrupted run: drift is refused or accepted, running
workers are cancelled, closes without an op-id are judged again, the configuration is frozen anew
and the driver token rotated. Hard: it runs after every possible crash, with writes that mostly
only warn. Correct if no change and no violation gets lost and the host is left with a usable token.
[`HostRun`, `Headless`, `RunStart`]

**Headless loop** (`internal/engine/engine.go`). The kernel runs the agents itself, with budgets,
deadlines, a watcher for `cancel` and a heartbeat that cancels the step when the lock is lost. State: the
run in memory beside `state.json`. Hard: cancel, deadline and lock loss all interrupt the step that
runs; each save is a read and a replace. Correct if agents are launched once per slot and stage, a
completed run is verified, and a cancel that was reported is final. [`Headless`]

**Run start** (`StartRun`, `createRun`, `completeRun`, `issueDriverToken` in `engine.go`; reservations in
`store.go`). Reserves an op-id (the record is written, fsynced, and removed again if either fails), mints a run id,
creates the run file by file and issues its token, without a lock. Hard: calls overlap, die between any two files and are
repeated; a record can be read before it is known to stay. Correct if one op-id has one run, what is reported is whole, and a
repetition undoes nothing. [`RunStart`]

**Cancel** (`cmd/vichu/cmd_misc.go`). Opens the audit log, writes `state.json` without the lock, then the
event; repairs the event when it finds a canceled run without one. Hard: it races every other writer by
design. Correct if a cancel that reported success stays and is recorded. [`Headless`, `RunStart`]

**Run store and event log** (`internal/runtime/store.go`, `atomic.go`, `gate.go`, `paths.go`). One
file per fact, replaced whole by a rename; an append-only `events.ndjson`; exclusive reservation of
op-ids. Hard: appends that are torn or that land although they are reported as failed. Correct if the
log has neither gaps nor repetitions and never tells more than the state. [`HostRun`, `Headless`, `RunStart`]

**Workflows and artifacts** (`internal/workflows/workflows.go`, `internal/core/artifact.go`). Static
stage graphs; which stage owns which artifact. [`Workflows`]

**Budgets** (`internal/core/state.go` and the budget functions of `stage.go`, `host.go`,
`engine.go`). Agent invocations, wall clock, cost, tokens, iterations per stage, reviews. Hard: the
boundary (the N-th of N), counting an attempt and its retry once. [`HostRun`, `Headless`]

**Verdicts** (`internal/core/verdict.go`). Scans a reviewer's free text for JSON objects, takes the last
one with a status, validates it. Hard: nested objects, braces in strings, several verdicts, verdicts that
contradict themselves. Correct if only an approval without defects passes a review. [`ReviewVerdict`]

**Gate runner and rollback** (`internal/gates`, `internal/workspace/backup.go`, `access.go`). Runs
commands, detects what they changed, restores it. Hard: a restore that fails half-way, files that cannot be
read. Correct if a run goes on only from gates that left the tree as it was, and damage is undone or told of.
[`Workspace`]

**Workspace tracking** (`internal/workspace`). Fingerprints and change sets, in git and plain
directories. Hard: what was dirty before, was reverted, replaced by a link, made unreadable or committed;
overlaying the audits of many workers over a snapshot. Correct if an audit names what was touched and drift is
seen when it is there. [`Workspace`]

**Host pack installer** (`cmd/vichu/hostpack.go`, `cmd_uninstall.go`, the checks of `cmd_doctor.go`).
Installs, upgrades and removes files and permission rules in a user's project, with two ownership records,
a ledger of rules and an undo log. Hard: a failure anywhere, including in the undo; projects that were
cloned or installed by an older release. Correct if what is the user's stays, a failed install changes
nothing, and what the program added it can withdraw. [`HostPack`]

Further parts, with no protocol of their own: security policy and configuration (pure data
decisions), review context and context pack (text), agent adapters (subprocesses), confined file
access, status/init/scaffold commands, templates, translations, tools. `PROJECT.json` lists
them all with their status, and, under "hazards", the places where this code is hard to test.

How the parts interact: a command is a process. It takes the run lock, reads the run directory, asks
the stage evidence for a decision and writes through the store. Processes share nothing but files:
the lock serialises commands, the headless loop and resume; `cancel` and `run start` do not take it. The
agents share the working tree with the kernel, which sees their changes only when it audits them.

## 2. Modules

| module | models | with |
|---|---|---|
| `RunLock`, `MCRunLock` | the run lock | one action per file operation |
| `RunLockProofs` | theorems on `RunLock` | TLAPS |
| `Workflows` | the built-in workflows as data | used by the four modules below |
| `RunPromise` | what the kernel promises of a run, without files, commands, retries or crashes | the abstract specification |
| `RunPromiseProofs` | theorems on `RunPromise` | TLAPS |
| `HostRun`, `MCHostRun` | one run driven by a host: commands, evidence, gates, resume, the run directory | one step per durable write; implements `RunPromise` |
| `HostRunInvariant` | what holds between any two writes of `HostRun` | the inductive invariant |
| `HostRunSteps`, `HostRunProofs` | every step keeps it; every plan starts in it, and the theorems on `HostRun` | TLAPS |
| `Headless`, `MCHeadless` | one run driven by the kernel, with resumes, displaced engines and `cancel` | one step per file operation |
| `HeadlessInvariant` | what the files of a run say together, and what the engine that holds it knows of them | the inductive invariant |
| `HeadlessSteps`, `HeadlessProofs` | every place of the loop survives a read, a write and a failed write; every action keeps the invariant; the theorems on `Headless` | TLAPS |
| `RunStart`, `MCRunStart` | `run start` under one op-id, the driver, `cancel` | one step per file operation |
| `RunStartProofs` | theorems on `RunStart` | TLAPS |
| `Workspace`, `MCWorkspace` | the tree, audits, gate rollback, drift | by path, on `Workflows` |
| `HostPack`, `MCHostPack` | the pack installer | one step per path |
| `HostPackInvariant` | what a command still has to change, can put back, and has made of the rest | the inductive invariant |
| `HostPackProofs` | every step keeps it; the theorems on `HostPack` | TLAPS |
| `ReviewVerdict`, `MCReviewVerdict` | from a reviewer's text to the branch of the run | a pure function and two steps |

An `MC` module holds the small sets its configurations draw from. A module's "history" variables are read by
properties only, never by an action, but for `intact` in `Headless` (see its bounds).

### RunLock

`lock` is the file: absent, or its token and whether its heartbeat is within the TTL. A process is its
own token, for it takes the lock at most once. `pc` is where it stands in `acquireLock`, `Heartbeat`
or `Release`, `seen` what it read there. `FastPath`, `FastPathTaken`, `Inspect`, `RemoveOrphan`,
`Relink` and `RelinkTaken` are the statements of `acquireLock` in their order; `HeartbeatRead` and
`HeartbeatWrite`, `ReleaseRead` and `ReleaseUnlink` are the two halves of the other operations. `Die`
is a crash, `Expire` the passing of `HeartbeatTTL` without a renewal, which happens only to the dead
and to the processes of `MayStall`. `misdirected` is a history variable: it becomes true when an
unlink or a renewal hits another lock than the one that was checked before it.

### RunPromise

Six variables say all a user may rely on: the status and stage, whether the active worker is open or how it was
closed, what its clean review decided, whether the stage was worked on, and whether gates passed since the
last agent started. `Open`, `Close`, `Apply`, `LeaveWorker`, `LeaveReview`, `RunGates`, `LeaveGate` and
`Complete` go through the workflow; `Block` may come at any moment of an active run; `Interrupt` and `Resume` are a human who gives up the open worker and reopens a run that is not completed.
`LeaveTerminal` is there because the code allows it (see `HostLastClose` in section 4).

### HostRun

Under the lock nothing else writes the run (the exception, `cancel`, is modelled in `Headless`), so
what a command will write is settled when it starts. `Plan(writes, reply)` is that: `StartPlan`,
`ClosePlan`, `StagePlans` and `ResumePlan` translate the handlers, with their validations in
`ValidStart`, `ValidClose` and `ValidStageClose` and their recovery paths in `RecoversStart`,
`ResumesCommitted` and `RecoversStage`. `Step` carries out one write; `Report` ends the command;
`Crash` kills it anywhere; `FailedWrite` makes a write fail.

How a write fails is what tells the code's writes apart, so each carries a mode. A *strict* write
(`criticalWrite` inside a host-first command) remembers its error and the command goes on until it
consults `persistFailed`, marked `Checked` on the next write; a *hard* write returns its error at once;
a *loose* one (resume has no strict scope) only warns. A failed file write leaves the old file, for
writes go to a temporary file and are renamed; a failed append may have reached the log, for the
error may be that of the fsync. The storage then stays down for the rest of the command, unless
`Transient` is set.

| variable | on disk |
|---|---|
| `run` | `state.json` |
| `workers`, `reports` | `workers/<id>/status.json`, `mutations.json` |
| `verdicts`, `gate`, `artifacts` | `reviews/`, `gates/`, `artifacts/` with provenance |
| `log`, `records` | `events.ndjson`, `operations/<op-id>.json` |
| `baseline` | `workspace.json`: the workers whose changes the snapshot includes |
| `changed` | the working tree: what each worker's agent changed |
| `calls`, `replies`, `token` | what the host asked for, was told and holds |
| `cmd` | the command in flight; nothing of it survives a crash |

The environment: the host reads `status` and asks for any step of the current stage, retries its
latest op-id while it has no answer, abandons it, or calls without op-id; an agent changes the tree
at most once while its worker is open; the gates come out any way `GateOutcomes` allows; a human
resumes, accepting drift or not.

**The refinement.** `Promise` maps `HostRun` to `RunPromise`, on the files alone: a worker is what
`state.json` names as active, with the outcome its status file and its audit give it (`WorkerOutcome`);
`verdict` is the persisted verdict of a clean reviewer; `ready` is a stage that is active with nobody at work; `passed`
is a gate result written after as many agents as have started. Every write of a command but the one that takes
effect maps to a stutter, and so does every retry. `KeepsThePromise` is `Promise!Spec`.

### Headless

An engine is its place in the loop (`pc`), its memory (`mem`, the `RunState` in the process), and the writes it
has still to do before it goes on from that place (`todo`). `Launch`, `Acquire`, `Resume` and `Resumed` are the
two entries (`exec`, `exec resume`) up to `runWithHeartbeat`; `Step` is one round of the loop with its adopted
cancel, budgets and dispatch by kind of stage; `Dispatch` starts the agent or the gates, `AgentEnds` and
`GateEnds` are what they come to, `Settle` and `GatePlan` what the code writes of that; `Branch`,
`Back` and `Exit` end a stage, a step and the process. A save is the two file operations it is in `saveState`: read
`state.json` to adopt a cancel (`Check`), and replace it (`Write`). `WatchCancel`, `Deadline`
and `LoseLock` set the context of the step, which then ends without its agent. `OpenAudit`, `CancelState` and
`RecordCancel` are `vichu cancel`, beside all of it.

`owner` is `lock.json`, reduced to its holder: what can go wrong inside the lock is `RunLock`'s subject, and what
follows for a run is `LoseLock`, after which another engine may resume while this one still runs. The files are
as in `HostRun`. `launched` (history) holds the agents that were started, which nothing on disk
need remember. `intact` (history) is true until a save replaces another state than the one it
checked, or an engine without the lock writes or starts an agent.

### RunStart

`reserved[o]` is the reservation of an op-id: absent, created and not yet filled, or filled. `runs[i]` is a run
directory: state, log and the three inputs that `completeRun` looks for. An attempt with an op-id goes through `Reserve`
(O_EXCL), `Fill` (the write: from here on others can read the record) and `Sync` (fsync and close), and `FillFails` at either of
these removes the file; when the file is there already, through `Taken` and `Reuse`, which reads it: removed meanwhile, not to be
decoded, of another task, or of this one. One without an op-id starts with `Mint`. Then come `Inspect` and `Check` (is the run there,
and is it whole), `Create`, `Announce`, `SaveInput`, `CleanTree` with `Block`, `Token`, which saves the hash of a new token, and
`Answer`, which prints it. `WriteFails` and `Crash` may strike at each; a call killed between its token and its answer
is `lost`: the run has a token that nobody knows, which is why a repetition issues another. `Command` and `Progress` are the driver that got a token, `LoadState` and `CancelState`
`vichu cancel`. `minted`, `intact` and `withdrawn` (the reservations that were removed after they could be read) are history.

### Workspace

`head` and `tree` say what is at each path: a regular file with content and mode, a symlink, a directory, a file that
cannot be read, or nothing. `Changed` is `captureChanged` of either provider, `Mutations` the tracker between two of them,
`Expected` and `Differs` the drift check over the snapshot and the audits in the order the code reads them. A run opens
workers (`WorkerStart`, `WorkerEnd` with its audit and policy), runs gates (`GateStart` with its backup, `GateFinish`
with audit, `RollBack` and verdict), crashes, and is resumed (`Resume`, `ResumeAccepting`). `Edit` is whoever edits:
the agent, the gate or the user. `found` and `left` (history) are the tree when the worker or gate began, and what the run
itself left at each path.

### HostPack

`disk` has one entry per path: the pack's files, the settings, the ledger, the portable and the legacy record. A command
plans from what it sees (`Install`, `Uninstall`, with their refusals) and then changes one path per step;
`InstallStep` pushes the undo of each, `RollBackStep` pops them, `RollBackEnds` tells whether all could be undone.
`InstallFails`, `UninstallFails` and `Crash` strike between any two steps, `Edit` is the user or an agent.
`HostRecordCheck`, `HostFilesCheck` and `HostPermissionsCheck` are what `doctor` finds. `seen`, `touched`, `put` and `lost` are
history: the disk when the command planned, the paths edited since, the rules that installs added, and whether a command left the
ledger behind the settings. `InOrder` keeps an order among the files a plan is about: the
manifest's for an install, by name (`Sorted`) for an uninstall.

### ReviewVerdict

A text is a sequence of characters, of which the scan tells apart braces, quotes and escapes; the fields of a verdict are one more
character. `JsonObjects` and `SkipString` are the scanner, as recursive functions; `ExtractVerdictObject`, `ValidateVerdict` and
`ParseVerdictFromResult` choose and check; `PersistReviewVerdict` and `DecideFromVerdict` are the two steps of the run.

### What is abstracted

* In `HostRun` and `Headless` a change of the tree is per worker ("plain" or "sensitive" in `HostRun`); paths
  are `Workspace`'s.
* Wall clock, cost and the three token budgets are one resource counter. The run-level check is the
  same comparison for each of them.
* All configured gates are one gate in `HostRun` and `Headless`; there, a gate that changes files blocks the run.
* A retry carries the same payload as its first attempt; a different payload is rejected by the
  fingerprint before anything is written.
* `HostPack` starts a history in one of three projects (fresh, cloned, installed by an older release); the pack lock is `RunLock`.
* Roles, prompts, scopes, excerpts, summaries and wording.

## 3. Runs

State counts are distinct states. The passing runs check:

| run | instance | shows |
|---|---|---|
| `runlock` | 3 processes, 2 machines, `p2` may stall; 22 thousand states | `TypeOK`; `ExclusiveUnlessMisdirected`: one owner until a check-then-act pair is overtaken; `EveryCallerIsServed`: a dead or foreign owner locks nobody out; `DisplacedOwnerNotices` |
| `host_review` | `Review`, 10 op-ids, 4 workers, 2 reviews, one fault; 690 thousand | `KeepsThePromise`: the run goes as `RunPromise` says, so the gates are reached from the approval of the latest reviewer only; `FixesAreBounded`: two reviews, one fix, retries included, by the budget that applies (the stage's own, else the reviews') |
| `host_faults` | `Quick`, 2 op-ids and calls without, 2 workers, one fault, one resume; 1.8 million | `KeepsThePromise`, `ClosedOnItsOwnEvidence`, `ViolationStopsOrIsReconciled`, `NoChangeIsSwallowed`, `LogStaysCoherent`, `FailedResumeKeepsToken` |
| `host_artifacts` | `SDD`, 10 op-ids, 4 workers, one fault; 890 thousand | `LeftWithItsArtifact`: no stage is left on a missing, bad or foreign artifact |
| `host_ends` | `Review` with 5 agents, 2 reviews and a resource budget of 1, every gate outcome and verdict, no faults; 220 thousand | `EventuallyStops`: every run completes or stops for a human |
| `headless` | `Quick`, two engines in turn and one cancel, 3 agents, one mishap; 1.4 million | `NeverOverReports`: the log announces no outcome the state has not; `ReportedCancelIsRecorded`; `CancelIsFinalUnlessOvertaken`; `OneAgentPerSlot`: no slot of the budget and no worker id is used twice; `AcceptedStageIsLeft`; `CompletedIsVerified` |
| `headless_review` | `Review`, one engine and a cancel, deadlines, every end of agents and gates, one mishap; 350 thousand | `LeftOnCleanWork`: a stage is left on a clean audit and its own verdict; `CancelStopsTheEngine`: even when its agent never ends |
| `run_start` | four overlapping calls (two of one operation, one of another task under its op-id, one without), the driver, a cancel, one mishap, up to symmetry; 1.2 million | `OneRunUnlessWithdrawn`: one op-id has two runs only if a reservation was removed after it could be read; `ReportedRunIsWhole`; `AnswerHoldsTheKey`; `RepeatKeepsTheRun` |
| `workspace` | both providers, a committed and an ignored file, 7 kinds of entry, 3 workers, 3 edits, one commit, one fault, one resume; 1.9 million | `AuditSeesTheWork`; `ReadOnlyStagesOnlyRead`; `GateKeepsOrPutsBack`; `DamageIsUndoneOrTold`; `DriftIsCaught` |
| `hostpack` | two files, two releases of which the second retires a rule, three projects, 3 commands, an edit, a crash, two failures; 2.2 million | `UserFilesSurvive`; `UserRulesSurvive`; `FailedInstallChangesNothing`; `AddedRulesAreClaimed`; `RetiredRulesGo`; `InstalledMeansUsable`: doctor agrees with an install; `MarkerGoesLast` |
| `review_verdict` | texts of up to three pieces, ten sorts of verdict, prose with open and closed braces and quotes, a budget of two reviews met and not met; 1.1 million | `LastVerdictDecides`: in tidy text the last verdict decides; `ApprovalWasGiven`: in any text |

`headless_resume` finds a disagreement between the repository and its code, listed under "findings":
`RefusedResumeLaunchesNothing`. `resume.go` says that re-opening a run must not clear the active worker "without re-deciding
from the evidence" (line 24) and that it refuses "to resume a run whose evidence is unverifiable" (line 96). The headless `Resume` calls the same reconciliation, which
blocks the run in memory, and does not look at the status it left; the loop stops only for a final status, and launches the
next agent. `ReopenRun`, the host-first resume, does look.

`RunLock`, `HostRun`, `Headless`, `RunStart`, `Workspace` and `HostPack` each define a type invariant `TypeOK`. `runlock` checks
`RunLock`'s; all but `Workspace`'s are proved, and all hold on the instances above, which adding `INVARIANT TypeOK` to their configurations shows.

### Bounds, and why they are enough

* Three processes for the lock: two to reclaim one orphan and a third to have left it; two machines
  make one of them unprobeable.
* One fault, or mishap, per behaviour (`MaxFaults`, `MaxMishaps`): the recovery paths are written for one crash window each. A
  second fault in the retry of the first is not covered, except in `hostpack`, where two failing writes let an undo fail too.
* `MaxOps` and `MaxWorkers` let a run reach the states the properties speak of: `Quick` completes in
  2 op-ids when the other calls are anonymous, and `Review` passes its gates with 10. With the 4 workers
  of `host_review` a second review happens only when `worker complete` closes a reviewer without a
  verdict (the code accepts that) and the stage is started again; the 5 agents of `host_ends` include
  the review that follows a fix, and so do the 6 of `headless_review`.
* `MaxResumes = 1`: every resume sees the state a command left behind, then the run goes on. In `headless` the second engine is
  the resume; it starts after the first has ended, died or lost the lock.
* `Overtaken = FALSE` in `headless` stops following a behaviour once `intact` is lost: after that its
  invariants do not hold, by what section 4 shows. `headless_review` has one engine and sets it `TRUE`.
* `Collisions = FALSE`: run ids are random; an id minted twice is out of the run, though not of the proofs. `run_start` identifies
  states that differ in which of the two calls of one operation is which, and in the run ids: neither is told apart by any definition.
* `review_verdict`: the run is in its first, second or third review. With `Budget = 2` the first lets needs_fixes go to a fix; the others
  block on the budget.
* `workspace`: three edits and a commit let a worker and a gate each change both files after the user did; three workers let a second audit
  overlay a first.
* `hostpack`: three commands are install, upgrade and uninstall, or an install, its repetition and its repair.
* `Transient` and `AllowAnonymous` are on only where a property is about them, to keep the runs
  within minutes.

Deadlock is not checked: a completed, canceled or blocked run, a finished process or command, and a host that used up its
op-ids stop.

### Fairness

`RunLock`: a command takes its next step and is run again while the run is locked; the heartbeat
goroutine beats; time passes; the owner's command comes to its deferred `Release` (strong, for the
heartbeat keeps interrupting it). A process that was displaced is *not* assumed to reach its release,
so only its heartbeat can tell it. `HostRun`: a command that is not killed runs to its end, and the host asks for some
next step as long as one is accepted. Which step is open, and so are the outcomes of agents, reviewers
and gates; `EventuallyStops` makes one exception, for a host that asks for a worker it already has
(`AsksAgain`), since such calls are answered and cost the run nothing. `Headless`: the loop and the watcher goroutine are scheduled, and
an agent or gate whose context was cancelled ends (it is killed); one that nobody cancels may run for ever. The other modules state
safety only, and no fairness.

### Mutants

`PROJECT.json` lists, for every property of a passing run, a change of the model that a plausible bug
would make and that violates it: the definitions introduced by a comment "Mutant:". None of
them is used by a specification.

## 4. Counterexamples outside the passing runs

Each of these configurations gives TLC a statement of the repository, or the strongest form of a property, that the code does not
keep; the traces are short enough to read. They are kept beside the runs because a passing run checks the strongest version that
does hold.

| configuration | statement | what happens | what does hold |
|---|---|---|---|
| `RunLockExclusive` / `Exclusive` | lock.go:64-66: two racing processes "can never both believe they own the run" | two processes inspect one orphan, or a lock that was just released; the first removes it and links its lock; the second removes *that* and links its own | `ExclusiveUnlessMisdirected` |
| `HostPolicyLost` / `ViolationStopsTheRun` | resume.go:69-71: closes with an op-id "need nothing" on resume | a close that committed a violation dies before the block; a resume skips it, and the run continues | `ViolationStopsOrIsReconciled` |
| `HostLastClose` / `LastCloseCompletes` | host.go:947-948: "Advancing into the terminal stage completes the run" | the close of verify dies between its two saves; its retry says ok; the run stays active at done | `KeepsThePromise` |
| `HostAgentBudget` / `AgentBudgetStopsOnlyStarts` | stage.go:824-825: spending the agent budget "does not block verify/done" | the close that follows the last allowed agent blocks on that budget | `EventuallyStops` |
| `HostLogRefused` / `LogStaysCoherent` | store.go:349-350: a gap "could not have come from a correct run" | one append fails, the next works; every later command refuses the run | the same, when storage that failed stays down until the command ends |
| `RunStartWithdrawn` / `OneRunPerOpId` | store.go:508-509: the reservation "is what makes `run start --op-id` create exactly one run even across crashes/retries" | a call writes its record; another one of the op-id reads it, takes the run over and reports it; the fsync of the first fails and it removes the record (store.go:548-551); a third call reserves anew and reports a second run | `OneRunUnlessWithdrawn`: there is no other way; and `OneRunPerOpId` when calls do not overlap (proved) |
| `HeadlessDisplaced` / `DisplacedEngineWritesNoOutcome` | executeStage: a displaced engine stops "WITHOUT writing a terminal state" | the lock is lost while a gate runs; the killed gate counts as failed, and its block is written over the new owner's state | `CancelStopsTheEngine`, and `headless` until then |
| `WorkspaceDrift` / `OwnWorkIsNoDrift` | expectedFingerprints: "sorted = chronological" | worker ids begin with the stage name, so `fix-` sorts before `implement-`: the older hash wins, and the run's own work is reported as drift | `DriftIsCaught` |
| `WorkspaceBlame` / `AuditBlamesNobodyElse` | Tracker.Finish: "the mutations the worker produced" | a file that was already deleted before the worker is reported as its deletion when its worker brings something else in its place and removes it | `AuditSeesTheWork` |
| `WorkspaceGate` / `GateKeeps` | docs/user/configuration.md:370-374: a gate that modifies an existing file blocks the run | a gate puts a dirty file back to the commit; the audit takes the vanished change for benign, and the user's work is gone | `GateKeepsOrPutsBack` |
| `HostPackRetired` / `InstallWithdrawsRetired` | doctor (catalog.go:204): re-run `vichu init --host` to withdraw a retired rule | no ledger claims the rule (a clone, or an older release), so the install leaves it and doctor repeats its advice | `RetiredRulesGo` |
| `ReviewVerdictText` / `LastObjectIsTheVerdict` | extractVerdictObject: the last object with a status is the verdict | a lone quote or an open brace in the prose hides the last verdict; an earlier one decides | `LastVerdictDecides`, `ApprovalWasGiven` |

Read off the code while modelling, and present in the models without a configuration of their own:

* `finishWorker` saves the state without its active worker before the violation blocks the run: a crash between the two loses the
  violation of a headless worker (`Headless`).
* `saveState` and `complete` check for a cancel and then write: a cancel in between is overwritten (`intact` in `Headless`).
* `issueDriverToken` loads and saves the state without the lock: work saved in between is lost (`intact` in `RunStart`).
* A run canceled while it is incomplete is created again, and active, by the repetition of its start (`RunStart`).
* The advice of an uninstall that could not withdraw rules (catalog.go:76) cannot be followed once the records are removed (`HostPack`).
* The settings are read by the plan and written by the step: an edit in between is overwritten (`HostPack`, exempt in its properties).

## 5. Proofs

Assumptions are those the modules state on their constants. What is proved holds for every value of them.

**`RunLockProofs`**, for any set of processes, machines and stalls:

* `RunLockTypeCorrect`: `Spec => []TypeOK`.
* `RunLockExclusive`: `Spec => []ExclusiveUnlessMisdirected`.

Exclusivity is not inductive. `LockInv` adds why it holds: a lock that looks stale belongs to a process
that is dead or missed its heartbeat (`StaleOwnersAreGone`); a process about to remove an orphan
saw one of those, or nothing (`ReclaimsOnlyOrphans`); between the two halves of a heartbeat and of a
release the process has read its own token (`ReadsOwnToken`); and so, until something is misdirected,
whoever acts as the owner and keeps its heartbeat has its own token in the file
(`OwnersHoldTheFile`), from which exclusivity follows, for the file holds one token. The step
proof has one case per action; the interesting one is `RemoveOrphan`: if it took the file of a live owner,
either the removal was misdirected or the reclaimer had seen that owner as gone. The assumptions:
every process has a machine, the stalling ones are processes, and `NoLock` is not a lock.

**`RunStartProofs`**, for any number of calls, op-ids, tasks and run ids, colliding ids included: everything `run_start` checks.

* `OneRunPerOperation`: `Spec => []OneRunUnlessWithdrawn`, and `StartIsTyped`: `Spec => []TypeOK`.
* `RetriesShareOneRun`: `Spec => []OneRunPerOpId` if calls do not overlap (`~Overlap`); `RunStartRetries.cfg` lets TLC look at three such calls with two mishaps.
* `ReportedRunsAreWhole`: `Spec => []ReportedRunIsWhole`.
* `AnswersHoldTheKey`: `Spec => []AnswerHoldsTheKey`.
* `RepeatsKeepTheRun`: `Spec => RepeatKeepsTheRun`.

The invariant has three parts. `TypeOK` is the first. `StartInv` says who may do what: only the call that created a reservation fills
or removes it, and it is alone while the reservation is unfilled; a filled reservation is removed by that call only, before its
fsync is known; whoever has a run for an op-id, from its own mint or by reading, has the one the
filled reservation names, for the task it names, or one that is `withdrawn`. Without overlap no two calls are under way (`OneAtATime`), so
that nobody has read a record which is then removed. `KnowledgeHolds` says what a call knows of the run whose state it is about to save,
which no statement about files alone could carry over the gap between the read and the save: a state that anybody has read, or is about
to write, has work only with a token, and a token only on complete inputs and from a call that got as far as its answer (`Sealed`); a call that
is about to create a run saw no token on it, and one that issues a token takes over what it saw (`Remembers`); what a call has seen done
stays done (`Did`), for logs and inputs only grow (`Grows`); and the token of a call that got to its answer is not taken away while
nobody was overtaken (`KeyIsThere`). So the
two conditions on `intact` fall out of one lemma: a save that loses work, a cancel or a token replaces a state other than the one its
writer has seen. `IdsAssumption` keeps the three marks of a reservation apart from run ids, `CallsAssumption` the empty hash from tokens.
One lemma per group of actions and part of the invariant.

**`RunPromiseProofs`**, for every workflow in which no worker or review stage leads to the terminal one (`GatedWorkflow`):

* `PromiseVerifies`: `Spec => []CompletedIsVerified`: a completed run's gates passed after its last agent started.
* `PromiseIsFinal`: nothing happens to a completed run.

`PromiseInv` says why: at the terminal stage the gates have passed, nobody is at work there, and no agent is opened there, so
nothing withdraws them.

**`HostRunProofs`**, for the three built-in workflows, every number of op-ids, workers, resumes, crashes and faults, every set of
edits, artifacts, verdicts and gate outcomes, and every budget (`ConfigAssumption`, `EnvironmentAssumption` and
`BoundsAssumption` only say what kind of value each constant is):

* `RunIsTyped`: `Spec => []TypeOK`; `EvidenceIsItsOwn`: `ClosedOnItsOwnEvidence`; `ViolationsStopTheRun`: `ViolationStopsOrIsReconciled`;
  `ChangesAreAccountedFor`: `NoChangeIsSwallowed`; `ReviewBudgetBoundsFixes`: `FixesAreBounded`; `ArtifactsAreThere`:
  `LeftWithItsArtifact`; `DriverKeepsItsRun`: `FailedResumeKeepsToken`; `LogIsAlwaysAccepted`: `LogStaysCoherent`.
* `RunKeepsItsPromise`: `Spec => KeepsThePromise`, the refinement of `RunPromise`.
* `HostRunVerifies` and `HostRunIsFinal`: with the two theorems on `RunPromise`, a completed run is verified and keeps its status and stage.

All of them assume `~Transient`: storage that failed stays down until its command ends. The assumption is needed for the log, as
`HostLogRefused` shows, and is kept for the others, where a command that goes on writing behind a failed write is another state space.

The properties are not inductive, and no strengthening on the files alone is: between two writes of a command the files are in the
middle of a transaction, and what makes them right is what the command still has to write. `HostInv` therefore has, beside the types
(`Typed`) and what the files say together between any two writes (`Agreement`: the active worker is the latest, closes are audited, a
committed close is still the current one or its stage was left, a stage that owns an artifact is left once, ...), a description
of the command in flight (`InProgress`): its remaining writes are in one of the phases of a close (audit, verdict, close, effect), of a
stage (open, gates, leave, complete), or of a resume (snapshot, give up, rotate), with writes nobody looks at (`Quiets`) in between.
Each phase names the next write that matters and the conditions under which it will be right when it comes. A crash drops the phase and
leaves the agreement, which is why retries and resumes can start from it.

`HostRunSteps` shows that a step of a command takes a phase to the next one or ends it; `HostRunProofs` that every plan of a handler,
recovery paths included, starts in a phase. There `NextKeeps` proves, for each action, the invariant and the step of the promise together, for both
follow from the same facts: a write that matters is exactly a step of `RunPromise`, any other a stutter. `LogInv` adds the count
of a command's events, which a retry passes silently up to where its first attempt got.

The phases are sets of sequences (`Ahead`, `Soon`), so that the lemmas on steps are about the head of a sequence and the set its tail is in.
The few facts on sequences that need an induction on a length get it from the least element of a set of numbers (`Least`, `Induct`): the
library's induction theorems take an operator as a parameter, which the installed provers cannot instantiate.

**`HeadlessProofs`**, for the three built-in workflows, any number of engines and cancels, every number of workers and mishaps, every
set of edits, verdicts and gate outcomes, and every budget: all the safety properties that `headless` and `headless_review` check.

* `LogTellsTheTruth`: `NeverOverReports`; `AgentsStayInBudget`: `OneAgentPerSlot`; `StagesAreLeftForGood`: `AcceptedStageIsLeft`;
  `CompletionIsVerified`: `CompletedIsVerified`; `CancelIsFinal`: `CancelIsFinalUnlessOvertaken`; `WorkIsAccepted`: `LeftOnCleanWork`;
  `FilesAreTyped`: `Spec => [](intact => TypeOK)`.
* `ReportedCancelsAreRecorded`: `ReportedCancelIsRecorded`, whoever overtakes whom.

All but the last speak of a run that is `intact`, as the properties themselves do: `HeadlessDisplaced` shows what an engine that lost the lock
may write. The last one has a small invariant of its own, `CancelsRecord`, on the cancels alone.

The assumptions (`ConfigAssumption`, `EnvironmentAssumption`, `BoundsAssumption`) say what kind of value each constant is, and
`EnginesAssumption` that the mark of a free lock is not an engine.

What keeps a headless run right is not in its files: it is what the engine in front of them has read, decided and still has to write.
`RunHoldsTogether` proves `HeadlessInv`, which has both halves. On the files (`RunIsSound`): the stages that are done lie before the one the
run is at (`Ordered`), gates that passed after the latest agent stand behind the terminal stage (`Verified`), agents were started once per number and not
beyond the number saved (`SlotsAreCounted`), and the log does not run ahead of the state (`FilesAgree`). On the engine that owns the
lock (`Knows`): at every place of the loop, what its memory has in common with the disk (`Synced`, or less, between a change in memory
and its save), which writes it still has to do there (`AgentPlans`, `AcceptedPlace`, `GatedPlace`, `HaltedPlace`, `Leave`), and which
evidence they rest on; and that between the two halves of a save it has adopted the cancel it found (`SaveIsChecked`), so that
replacing the state cannot undo one. `CancelsKnow` is the same of the cancels, which write beside it; `AgentsAreStarted` of engines that
lost the lock and still have an agent running, whose number must not be given out again. A place knows nothing of an engine whose write failed
(`err`), but that its step will not go on; and an engine without the lock only that it must not write, which is what `intact` says.

`HeadlessSteps` takes the places one by one through a read, a write and a failed write; `HeadlessProofs` has a lemma for each action, first
on the files, then on the owner, and the theorems. The three action properties follow from the invariant in the state before the step.

**`HostPackProofs`**, for every pack, every set of releases, every project a history may start from, and any number of commands, edits,
crashes and failing writes: all the properties that `hostpack` checks.

* `AddedRulesStayClaimed`: `AddedRulesAreClaimed`; `UserFilesAreKept`: `UserFilesSurvive`; `FailedInstallIsUndone`:
  `FailedInstallChangesNothing`; `UserRulesAreKept`: `UserRulesSurvive`; `RetiredRulesAreWithdrawn`: `RetiredRulesGo`;
  `InstalledPackIsUsable`: `InstalledMeansUsable`; `LastRecordGoesLast`: `MarkerGoesLast`; `PackIsTyped`: `Spec => []TypeOK`.

They assume what the code makes sure of: a manifest names no destination twice (`DestsAssumption`: `ValidateDests`) and neither
the settings nor a record, and `Sorted` lists the same files; the catalog of a release has the rules it asks for (`CatalogAssumption`); and each
path of a project holds what such a path may hold (`ProjectsAssumption`).

A step of a command writes what was planned before, and may be followed by a failure that undoes all of it, so the invariant
(`PackInv`, proved by `PackIsConsistent`) ties what is left of the plan and of the undo log to what the command saw. `PlanHolds`: no path is planned twice, and a path
that is still pending and that nobody edited is as it was seen. `InstallGoesOn` and `UninstallGoesOn`: a path is pending, edited by somebody, or what the
command makes of it, and the records go last. `UndoHolds`: a path is as it was seen, edited, or in the undo log
with what was seen. `RulesAreClaimed`: of the rules that installs added, each is claimed by the ledger between commands, and during
an install was claimed before or will be taken back if it fails, and is in the ledger it is about to write if it succeeds.
One lemma per action keeps it; the action properties follow from the invariant in the state before the step.

The proof found that `RetiredRulesGo`, once stated for the rules that the installing release knows, holds of two releases only: with a third,
an older one that is installed in between drops its newer sibling's rule from the ledger, and the third no longer finds it there. It is
therefore stated for rules that all releases know, as `AddedRulesAreClaimed` is.

Only model-checked: the invariants and action properties of `Workspace` and `ReviewVerdict` (the last is about
recursive functions, whose results need an induction that the proof system's installed provers cannot do); and all liveness
(`EveryCallerIsServed`, `DisplacedOwnerNotices`, `EventuallyStops`, `CancelStopsTheEngine`), which is out of its reach.

## 6. What is not modelled

The components marked `not_modelled` in `PROJECT.json`: the security policy and the configuration are pure functions of strings and files, which the
modules take as given; review context, templates, translations and the commands that only report have no state; adapters
and confined file access are subprocesses and system calls, of which the modules use that an agent may do anything and that a file is replaced whole or not at all.

Within the modules: a torn line in the log (every later command refuses the run, by design); saturating counters; late retries of an older op-id while a newer
one is open; several faults in one run; the heartbeat losing the lock in the middle of a host-first gate (the headless case is `HeadlessDisplaced`); a host-first `stage close`
retried after a crash between a gate and its rollback, by path; scopes, renames and the index of git; timeouts and process groups of gates; session continuation.

## 7. What is left to do

1. Theorems on `Workspace`.
2. Late retries of older op-ids, and two faults per run, in `HostRun`.
3. The saturating counters and the permission rules of the security policy as pure operators with lemmas.

------------------------------ MODULE Workspace -----------------------------
(***************************************************************************)
(* What a run knows about the working tree (internal/workspace and the     *)
(* audits of internal/engine/stage.go): the snapshot a run starts from,    *)
(* the audit of a worker, the audit of a gate with its rollback, and the   *)
(* drift check of a resume.                                                *)
(*                                                                         *)
(* The tree is changed by the agent, the gate and the user; whoever edits  *)
(* while a worker or a gate runs is taken for it, by the code and here.    *)
(* Nobody uses git's index: a change is committed or it is not.            *)
(***************************************************************************)
EXTENDS Naturals, Sequences, FiniteSets, Functions, Workflows

CONSTANTS
  Providers,      \* the workspace providers Detect may find: "git", "filesystem"
  Workflow,       \* a workflow of Workflows
  Order,          \* its stage names in the order of their worker directories
  Paths,          \* the files of the project
  Committed,      \* Committed[p]: what the baseline holds of p, or None
  Entries,        \* what may be at a path
  InitialTrees,   \* the trees a run may start from
  Ignored,        \* the files the project's ignore rules exclude
  Sensitive,      \* IsSensitive
  HostLocal,      \* IsHostBookkeeping: the host's own permission file
  GateMutations,  \* security.gateMutations: "block", "warn" or "allow"
  GateOutputs,    \* security.gateOutputs
  SensitiveMutations, \* security.sensitiveMutations: "block" or "warn"
  HostLocalState, \* security.hostLocalState: "block" or "warn"
  Gates,          \* how many gates the gate stage runs
  MaxWorkers,     \* bound on the workers
  MaxEdits,       \* bound on the edits of agents, gates and users
  MaxCommits,     \* bound on the commits
  MaxFaults,      \* bound on crashes and on restores that fail
  MaxResumes      \* bound on the resumes

VARIABLES
  head,     \* the baseline: the last commit, or .vichu/baseline
  tree,     \* what is at each path
  base,     \* the id of the baseline
  run,      \* provider, status, stage and the gate to run next
  pc,       \* what holds the run: "none", "worker" or "gate"
  before,   \* Tracker.before
  backup,   \* the Backup of a gate
  snap,     \* workspace.json; `from` is how many reports are older
  reports,  \* workers/<id>/mutations.json, in the order of their capture
  told,     \* the gate_rollback_failed event of the last gate
  found,    \* history: head and tree when the worker or gate began
  left,     \* history: left[p], what the run and its own work left at p, the latest last
  spent     \* how much of the bounds is used

vars == <<head, tree, base, run, pc, before, backup, snap, reports, told, found, left, spent>>

Provider == run.provider

None == "none"
Missing == [kind |-> "missing", data |-> None, mode |-> "-"]
File(d, m) == [kind |-> "regular", data |-> d, mode |-> m]
Link(d) == [kind |-> "symlink", data |-> d, mode |-> "-"]
Directory == [kind |-> "other", data |-> None, mode |-> "-"]
Locked(d) == [kind |-> "locked", data |-> d, mode |-> "-"]

-----------------------------------------------------------------------------
(* captureChanged: what differs from the baseline *)

\* hashEntry: content, or a link's target under a prefix of its own; None for no file.
Hash(e) == IF e.kind \in {"regular", "symlink"} THEN <<e.kind, e.data>> ELSE <<None, None>>

IsClean(h, p, e) == e.kind = "regular" /\ e.data = h[p]

\* A directory is not an entry; the filesystem provider walks regular files only.
IsListed(e) == e.kind \in {"regular", "locked"} \/ (Provider = "git" /\ e.kind = "symlink")

Reported(h, t, p) == IF h[p] = None THEN IsListed(t[p]) ELSE ~IsClean(h, p, t[p])

Code(h, t, p) ==
  IF h[p] = None THEN IF Provider = "git" /\ p \in Ignored THEN "ignored" ELSE "untracked"
  ELSE IF IsListed(t[p]) THEN "modified" ELSE "deleted"

Signature(h, t, p) ==
  IF IsListed(t[p]) THEN [code |-> Code(h, t, p), hash |-> Hash(t[p]), exists |-> TRUE, mode |-> t[p].mode]
                    ELSE [code |-> Code(h, t, p), hash |-> Hash(Missing), exists |-> FALSE, mode |-> "-"]

\* The content as a capture sees it.
Seen(e) == IF IsListed(e) THEN Hash(e) ELSE Hash(Missing)

\* A file that cannot be read fails the whole capture.
CanCapture(t) == \A p \in Paths : t[p].kind # "locked"

Changed(h, t) == [p \in {q \in Paths : Reported(h, t, q)} |-> Signature(h, t, p)]

Fingerprints(h, t) == [p \in DOMAIN Changed(h, t) |-> Changed(h, t)[p].hash]

Snapshot(h, t, b, n) == [base |-> b, prints |-> Fingerprints(h, t), from |-> n]

-----------------------------------------------------------------------------
(* Tracker.Finish *)

KindFromCode(code) ==
  CASE code \in {"untracked", "ignored"} -> "untracked"
    [] code = "deleted" -> "deleted"
    [] OTHER -> "modified"

ChangedSince(b, a) == b.hash # a.hash \/ b.mode # a.mode

Existing(kind) == IF kind = "untracked" THEN "modified" ELSE kind

\* Mutant: what is neither new nor different now was not touched.
MutationKindChangedOnly(b, h, t, p) ==
  LET a == Changed(h, t) IN
  IF p \in DOMAIN a /\ (p \notin DOMAIN b \/ b[p] # a[p]) THEN KindFromCode(a[p].code) ELSE None

\* mutationFor and vanishedMutation, the kind of what happened to p, or None.
MutationKind(b, h, t, p) ==
  LET a == Changed(h, t) IN
  CASE p \in DOMAIN a /\ (p \notin DOMAIN b \/ ~b[p].exists) -> KindFromCode(a[p].code)
    [] p \in DOMAIN a /\ p \in DOMAIN b /\ b[p].exists ->
         IF ChangedSince(b[p], a[p]) THEN Existing(KindFromCode(a[p].code)) ELSE None
    [] p \notin DOMAIN a /\ p \in DOMAIN b /\ b[p].exists ->
         CASE t[p].kind = "missing" -> "deleted"
           [] t[p].kind = "regular" -> None
           [] OTHER -> Existing(KindFromCode(b[p].code))
    [] OTHER -> None

\* The mutations of a report: kind and hash of each path that was touched.
Mutations(b, h, t) ==
  [p \in {q \in Paths : MutationKind(b, h, t, q) # None} |->
     [kind |-> MutationKind(b, h, t, p),
      hash |-> IF p \in DOMAIN Changed(h, t) THEN Changed(h, t)[p].hash ELSE Hash(Missing)]]

-----------------------------------------------------------------------------
(* The policies *)

\* mutationPolicyVerdict: what a worker of the stage may not have touched.
PolicyAllows(stage, muts) ==
  LET attributed == muts \ HostLocal IN
  /\ HostLocalState = "block" => muts \cap HostLocal = {}
  /\ Workflow[stage].readOnly => attributed = {}
  /\ SensitiveMutations # "warn" => attributed \cap Sensitive = {}

\* gateOutputAllowed
OutputAllowed(p) == p \in GateOutputs \ Sensitive

\* Mutant: only a deletion is damage.
DamagedByDeletion(muts) == {p \in DOMAIN muts : muts[p].kind = "deleted"}

\* What a gate modified or deleted although it was there before.
Damaged(muts) == {p \in DOMAIN muts : muts[p].kind \in {"modified", "deleted"}}

-----------------------------------------------------------------------------
(* The steps *)

Active == run.status = "active"
InStage(kinds) == Workflow[run.stage].kind \in kinds
Spend(f, max) == spent[f] < max /\ spent' = [spent EXCEPT ![f] = @ + 1]
Stopped(status, reason) == [run EXCEPT !.status = status, !.reason = reason]
Began == [head |-> head, tree |-> tree]

Nobody == [head |-> Committed, tree |-> [p \in Paths |-> Missing]]
NoFiles == [p \in {} |-> None]
Content(t) == [p \in Paths |-> IF t[p].kind = "regular" THEN t[p].data ELSE None]

Init ==
  /\ run \in [provider : Providers, status : {"active"}, stage : {Start}, gate : {0}, reason : {None}]
  /\ tree \in InitialTrees
  /\ head = IF Provider = "git" THEN Committed ELSE Content(tree)
  /\ base = 0
  /\ pc = "none" /\ before = NoFiles /\ backup = NoFiles
  /\ snap = Snapshot(head, tree, base, 0)
  /\ reports = <<>> /\ told = FALSE
  /\ found = Nobody /\ left = [p \in Paths |-> <<Seen(tree[p])>>]
  /\ spent = [edits |-> 0, commits |-> 0, faults |-> 0, resumes |-> 0]

\* The agent, the gate or the user changes what is at a path.
Edit ==
  /\ Spend("edits", MaxEdits)
  /\ run.status # "done"
  /\ \E p \in Paths : \E e \in Entries \ {tree[p]} : tree' = [tree EXCEPT ![p] = e]
  /\ UNCHANGED <<head, base, run, pc, before, backup, snap, reports, told, found, left>>

\* The agent or the user commits what is there.
Commit ==
  /\ Provider = "git" /\ pc # "gate"
  /\ run.status # "done"
  /\ Spend("commits", MaxCommits)
  /\ \A p \in Paths : tree[p].kind \in {"regular", "missing"}
  /\ head' = [p \in Paths |-> IF p \in Ignored THEN head[p] ELSE tree[p].data]
  /\ head' # head
  /\ base' = base + 1
  /\ UNCHANGED <<tree, run, pc, before, backup, snap, reports, told, found, left>>

\* BeginTracking, which refuses to run an agent it could not audit.
WorkerStart ==
  /\ Active /\ pc = "none" /\ InStage({"worker", "review"})
  /\ Len(reports) < MaxWorkers
  /\ IF CanCapture(tree)
       THEN pc' = "worker" /\ before' = Changed(head, tree) /\ found' = Began /\ run' = run
       ELSE run' = Stopped("blocked", "untracked") /\ UNCHANGED <<pc, before, found>>
  /\ UNCHANGED <<head, tree, base, backup, snap, reports, told, left, spent>>

\* What changed since `found`, or is reported as changed, is the run's from now on.
Own(t, muts) ==
  [p \in Paths |-> IF t[p] # found.tree[p] \/ p \in DOMAIN muts THEN Append(left[p], Seen(t[p])) ELSE left[p]]

Branches(stage) == {Workflow[stage].next, Workflow[stage].onFixes} \ {NoStage}

Advance(stage) ==
  run' = [run EXCEPT !.stage = stage, !.status = IF Workflow[stage].kind = "terminal" THEN "done" ELSE "active"]

\* Mutant: the policy is asked about what the run left, not about what the worker did.
WorkerEndUnpoliced ==
  /\ pc = "worker"
  /\ pc' = "none" /\ before' = NoFiles
  /\ CanCapture(tree)
  /\ LET muts == Mutations(before, head, tree) IN
     /\ reports' = Append(reports, [stage |-> run.stage, muts |-> muts])
     /\ \E stage \in Branches(run.stage) : Advance(stage)
  /\ left' = Own(tree, reports'[Len(reports')].muts)
  /\ UNCHANGED <<head, tree, base, backup, snap, told, found, spent>>

\* trackMutations: the report, and the policy.
WorkerEnd ==
  /\ pc = "worker"
  /\ pc' = "none" /\ before' = NoFiles
  /\ IF CanCapture(tree)
       THEN LET muts == Mutations(before, head, tree) IN
            /\ reports' = Append(reports, [stage |-> run.stage, muts |-> muts])
            /\ left' = Own(tree, muts)
            /\ IF PolicyAllows(run.stage, DOMAIN muts)
                 THEN \E stage \in Branches(run.stage) : Advance(stage)
                 ELSE run' = Stopped("blocked", "policy")
       ELSE run' = Stopped("blocked", "unaudited") /\ UNCHANGED <<reports, left>>
  /\ UNCHANGED <<head, tree, base, backup, snap, told, found, spent>>

-----------------------------------------------------------------------------
(* The gate: runGate, checkGateMutations and rollbackGate *)

\* A path whose content can be put back; a deleted one or a directory has none.
BackupOf(h, t) ==
  [p \in {q \in DOMAIN Changed(h, t) : t[q].kind \in {"regular", "symlink"}} |-> t[p]]

GateStart ==
  /\ Active /\ pc = "none" /\ InStage({"gate"}) /\ Gates > 0
  /\ IF GateMutations = "allow" \/ CanCapture(tree)
       THEN /\ pc' = "gate" /\ found' = Began /\ told' = FALSE
            /\ backup' = IF GateMutations = "block" THEN BackupOf(head, tree) ELSE NoFiles
            /\ before' = IF GateMutations = "allow" THEN NoFiles ELSE Changed(head, tree)
            /\ run' = run
       ELSE run' = Stopped("blocked", "untracked") /\ UNCHANGED <<pc, found, told, backup, before>>
  /\ UNCHANGED <<head, tree, base, snap, reports, left, spent>>

\* Mutant: what was clean is not restored from the baseline.
RollBackBackupOnly(muts, bad) ==
  /\ tree' = [p \in Paths |-> IF p \in DOMAIN backup \ bad THEN backup[p] ELSE tree[p]]
  /\ told' = (bad # {})

\* Backup.Restore and RestoreBaseline, when the paths of `bad` cannot be written: git
\* restores the others, the filesystem provider stops at the first.
RollBack(muts, bad) ==
  LET clean == Damaged(muts) \ DOMAIN backup IN
  \E done \in SUBSET (clean \ bad) :
    /\ Provider = "git" \/ clean \cap bad = {} => done = clean \ bad
    /\ tree' = [p \in Paths |->
         IF p \in DOMAIN backup \ bad THEN backup[p]
         ELSE IF p \in done /\ head[p] # None THEN File(head[p], "rw")
         ELSE tree[p]]
    /\ told' = (bad \cap (clean \cup {p \in DOMAIN backup : backup[p] # tree[p]}) # {})

EndGate == pc' = "none" /\ before' = NoFiles /\ backup' = NoFiles

NoMutations == [p \in {} |-> [kind |-> None, hash |-> Hash(Missing)]]

\* The gate passed or failed, and the tree is as the policy wants it.
GateVerdict ==
  /\ UNCHANGED <<tree, told, spent>>
  /\ left' = Own(tree, NoMutations)
  /\ \/ IF run.gate + 1 < Gates THEN run' = [run EXCEPT !.gate = @ + 1]
                                 ELSE Advance(Workflow[run.stage].next)
     \/ run' = [Stopped("blocked", "gate failed") EXCEPT !.gate = 0]

BlockGate(muts) ==
  \E bad \in SUBSET Paths :
    /\ spent.faults + Cardinality(bad) <= MaxFaults
    /\ spent' = [spent EXCEPT !.faults = @ + Cardinality(bad)]
    /\ RollBack(muts, bad)
    /\ run' = [Stopped("blocked", "gate damage") EXCEPT !.gate = 0]

GateFinish ==
  /\ pc = "gate"
  /\ EndGate
  /\ LET muts == Mutations(before, head, tree) IN
     CASE GateMutations = "allow" -> GateVerdict
       [] GateMutations # "allow" /\ ~CanCapture(tree) -> BlockGate(NoMutations) /\ left' = left
       [] GateMutations # "allow" /\ CanCapture(tree) ->
            IF GateMutations = "block" /\ \E p \in Damaged(muts) : ~OutputAllowed(p)
              THEN BlockGate(muts) /\ left' = Own(tree', NoMutations)
              ELSE GateVerdict
  /\ UNCHANGED <<head, base, snap, reports, found>>

-----------------------------------------------------------------------------
(* Crash and resume *)

Crash ==
  /\ pc # "none"
  /\ Spend("faults", MaxFaults)
  /\ run' = [Stopped("stopped", None) EXCEPT !.gate = 0]
  /\ EndGate
  /\ UNCHANGED <<head, tree, base, snap, reports, told, found, left>>

\* The reports that mention p and are not older than the snapshot, the last directory first.
Mentions(p) == {i \in snap.from + 1 .. Len(reports) : p \in DOMAIN reports[i].muts}
Rank(stage) == CHOOSE k \in DOMAIN Order : Order[k] = stage
Before(i, j) ==
  \/ Rank(reports[i].stage) < Rank(reports[j].stage)
  \/ reports[i].stage = reports[j].stage /\ i <= j

LastReport(p) == CHOOSE i \in Mentions(p) : \A j \in Mentions(p) : Before(j, i)

\* expectedFingerprints
Expected ==
  [p \in DOMAIN snap.prints \cup {q \in Paths : Mentions(q) # {}} |->
     IF Mentions(p) # {} THEN reports[LastReport(p)].muts[p].hash ELSE snap.prints[p]]

\* Mutant: a file that vanished is not looked for.
DiffersNewOnly(current, expected) ==
  \E p \in DOMAIN current : p \in DOMAIN expected => expected[p] # current[p]

\* driftReason
Differs(current, expected) ==
  \/ \E p \in DOMAIN current : p \in DOMAIN expected => expected[p] # current[p]
  \/ \E p \in DOMAIN expected : expected[p] # Hash(Missing) /\ p \notin DOMAIN current

\* checkDrift: a tree that cannot be read has not drifted.
Drifted == base # snap.base \/ (CanCapture(tree) /\ Differs(Fingerprints(head, tree), Expected))

\* resolveDrift and what follows it.
Resume ==
  /\ pc = "none" /\ run.status \in {"blocked", "stopped"}
  /\ Spend("resumes", MaxResumes)
  /\ run' = [run EXCEPT !.status = IF Drifted THEN "blocked" ELSE "active", !.reason = IF Drifted THEN "drift" ELSE None]
  /\ UNCHANGED <<head, tree, base, pc, before, backup, snap, reports, told, found, left>>

\* --accept-changes: a new snapshot, which is a new baseline of the filesystem provider.
ResumeAccepting ==
  /\ pc = "none" /\ run.status \in {"blocked", "stopped"} /\ Drifted /\ CanCapture(tree)
  /\ Spend("resumes", MaxResumes)
  /\ head' = IF Provider = "git" THEN head ELSE Content(tree)
  /\ base' = IF head' = head THEN base ELSE base + 1
  /\ snap' = Snapshot(head', tree, base', Len(reports))
  /\ run' = Stopped("active", None)
  /\ left' = [p \in Paths |-> <<Seen(tree[p])>>]
  /\ UNCHANGED <<tree, pc, before, backup, reports, told, found>>

Next ==
  \/ Edit \/ Commit \/ WorkerStart \/ WorkerEnd \/ GateStart \/ GateFinish
  \/ Crash \/ Resume \/ ResumeAccepting

Spec == Init /\ [][Next]_vars

-----------------------------------------------------------------------------
(* Properties *)

TypeOK ==
  /\ DOMAIN head = Paths /\ DOMAIN tree = Paths /\ Range(tree) \subseteq Entries
  /\ run.status \in {"active", "blocked", "stopped", "done"} /\ run.stage \in DOMAIN Workflow
  /\ pc \in {"none", "worker", "gate"}
  /\ (pc = "none" => before = NoFiles /\ backup = NoFiles)
  /\ DOMAIN snap.prints \subseteq Paths /\ snap.from \in 0 .. Len(reports)

\* Put back to the baseline: no audit sees a file that is as it was committed.
PutBack(p) == IsClean(head, p, tree[p])

\* What the worker or gate changed: a file that is not what or where it was.
Touched == {p \in Paths : tree[p] # found.tree[p] /\ (IsListed(tree[p]) \/ IsListed(found.tree[p]))}

LastMutations == DOMAIN reports'[Len(reports')].muts

\* trackMutations: the report of a worker names every file it touched, unless that is put
\* back or the worker committed.
AuditSeesTheWork ==
  [][Len(reports') > Len(reports) /\ head = found.head =>
       \A p \in Touched : PutBack(p) \/ p \in LastMutations]_vars

\* Tracker.Finish: "returns the mutations the worker produced", and no others.
AuditBlamesNobodyElse ==
  [][Len(reports') > Len(reports) => LastMutations \subseteq Touched]_vars

\* mutationPolicyVerdict: a run never leaves a read-only stage whose worker touched the tree.
ReadOnlyStagesOnlyRead ==
  [][pc = "worker" /\ run'.stage # run.stage /\ Workflow[run.stage].readOnly /\ head = found.head =>
       \A p \in Touched \ HostLocal : PutBack(p)]_vars

GateEnds == pc = "gate" /\ pc' = "none"
GoesOn == run'.status \in {"active", "done"}

\* The files that were there before the gate.
Present == {p \in Paths : IsListed(found.tree[p])}

\* checkGateMutations: a gate the run goes on from has kept every file it was not declared
\* to write, or put it back.
GateKeepsOrPutsBack ==
  [][GateEnds /\ GoesOn => \A p \in Present : tree'[p] = found.tree[p] \/ OutputAllowed(p) \/ PutBack(p)]_vars

\* configuration.md: a gate that modified a file that already existed blocks the run.
GateKeeps ==
  [][GateEnds /\ GoesOn => \A p \in Present : tree'[p] = found.tree[p] \/ OutputAllowed(p)]_vars

\* rollbackGate: when the run blocks on a gate's damage that it could audit, every file is
\* as it was (but for the mode of a file that was clean), or the log tells of the failure.
DamageIsUndoneOrTold ==
  [][GateEnds /\ run'.reason = "gate damage" /\ CanCapture(tree) /\ ~told' =>
       \A p \in Present : Hash(tree'[p]) = Hash(found.tree[p])
                          /\ (~IsClean(head, p, found.tree[p]) => tree'[p].mode = found.tree[p].mode)]_vars

\* checkDrift: a run that goes on without a new snapshot finds at each path what is
\* committed there or something that it has itself left there.
DriftIsCaught ==
  [][run.status \in {"blocked", "stopped"} /\ run'.status = "active" /\ snap' = snap /\ CanCapture(tree) =>
       \A p \in Paths : PutBack(p) \/ Seen(tree[p]) \in Range(left[p])]_vars

\* expectedFingerprints: the tree as the run itself left it has not drifted.
OwnWorkIsNoDrift ==
  [][run'.reason = "drift" /\ run.reason # "drift" /\ base = snap.base =>
       \E p \in Paths : Seen(tree[p]) # left[p][Len(left[p])]]_vars
=============================================================================

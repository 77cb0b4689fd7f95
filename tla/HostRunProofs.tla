---------------------------- MODULE HostRunProofs ----------------------------
(***************************************************************************)
(* What a command plans is a phase of HostRunInvariant: one lemma for each *)
(* operator of HostRun that computes writes, then one for each command that *)
(* begins.  With HostRunSteps, the invariant holds of every run.  What it  *)
(* says of every run follows: the safety properties of HostRun, that its   *)
(* files keep the promise of RunPromise, and so what is proved of          *)
(* RunPromise.                                                             *)
(***************************************************************************)
EXTENDS HostRunSteps

-----------------------------------------------------------------------------
(* The writes a plan is built from *)

\* Events, records and bookkeeping files are quiet writes.
LEMMA QuietWrites ==
  /\ \A event \in Events : Emit(event) \in Quiets /\ Checked(Emit(event)) \in Quiets /\ Hard(Emit(event)) \in Quiets
  /\ \A file \in Files : Write("file", file) \in Quiets /\ Hard(Write("file", file)) \in Quiets
  /\ \A op \in Ops, reply \in {"ok", "blocked"} : Checked(Hard(Keyed("record", op, reply))) \in Quiets
<1> USE DEF Quiets, Sort, Modes
<1>1. \A event \in Events : Emit(event) \in Quiets /\ Checked(Emit(event)) \in Quiets /\ Hard(Emit(event)) \in Quiets
  BY DEF Emit, Write, Checked, Hard
<1>2. \A file \in Files : Write("file", file) \in Quiets /\ Hard(Write("file", file)) \in Quiets
  BY DEF Write, Hard
<1>3. \A op \in Ops, reply \in {"ok", "blocked"} : Checked(Hard(Keyed("record", op, reply))) \in Quiets
  BY DEF Keyed, Write, Checked, Hard
<1> QED BY <1>1, <1>2, <1>3

\* SaveState writes state.json.
LEMMA SaveWrites ==
  ASSUME NEW r \in RunStates
  PROVE  SaveState(r) \in Saves(r) /\ Hard(SaveState(r)) \in Saves(r)
<1>1. SaveState(r) \in Writes /\ Hard(SaveState(r)) \in Writes
  BY DEF SaveState, Hard, Write, Writes, Sort, Modes
<1> QED BY <1>1 DEF SaveState, Hard, Write, Saves, Sets

\* Each write of a file is of its own kind.
LEMMA KeyedWrites ==
  /\ \A id \in Ids, file \in WorkerFiles :
       /\ Keyed("worker", id, file) \in Sets("worker", id, file)
       /\ Checked(Keyed("worker", id, file)) \in Sets("worker", id, file)
       /\ Hard(Keyed("worker", id, file)) \in Sets("worker", id, file)
  /\ \A id \in Ids, change \in Changes : Checked(Keyed("report", id, change)) \in Sets("report", id, change)
  /\ \A n \in Nat, verdict \in Verdicts : Checked(Hard(Keyed("verdict", n, verdict))) \in Sets("verdict", n, verdict)
  /\ \A g \in GateFiles : Checked(Hard(Write("gate", g))) \in Sets("gate", 0, g)
  /\ \A ids \in SUBSET Ids : Hard(Write("baseline", ids)) \in Sets("baseline", 0, ids)
<1> USE DEF Keyed, Write, Checked, Hard, Sets, Writes, Sort, Modes
<1>1. \A id \in Ids, file \in WorkerFiles :
        /\ Keyed("worker", id, file) \in Sets("worker", id, file)
        /\ Checked(Keyed("worker", id, file)) \in Sets("worker", id, file)
        /\ Hard(Keyed("worker", id, file)) \in Sets("worker", id, file)
  BY ZenonT(30)
<1>2. \A id \in Ids, change \in Changes : Checked(Keyed("report", id, change)) \in Sets("report", id, change)
  OBVIOUS
<1>3. \A n \in Nat, verdict \in Verdicts : Checked(Hard(Keyed("verdict", n, verdict))) \in Sets("verdict", n, verdict)
  OBVIOUS
<1>4. \A g \in GateFiles : Checked(Hard(Write("gate", g))) \in Sets("gate", 0, g)
  OBVIOUS
<1>5. \A ids \in SUBSET Ids : Hard(Write("baseline", ids)) \in Sets("baseline", 0, ids)
  OBVIOUS
<1> QED BY <1>1, <1>2, <1>3, <1>4, <1>5

\* A plan of two writes.
LEMMA Two ==
  ASSUME NEW a \in Writes, NEW b \in Writes
  PROVE  <<a, b>> = <<a>> \o <<b>> /\ <<b>> \in Seq(Writes) /\ <<a, b>> \in Seq(Writes)
<1> DEFINE s == <<a>> \o <<b>>
           t == <<a, b>>
<1>1. s \in Seq(Writes) /\ t \in Seq(Writes) /\ Len(s) = 2 /\ Len(t) = 2
  OBVIOUS
<1>2. s[1] = a /\ s[2] = b
  OBVIOUS
<1>3. \A i \in 1 .. Len(s) : s[i] = t[i]
  BY <1>1, <1>2
<1>4. <<b>> \in Seq(Writes)
  OBVIOUS
<1> HIDE DEF s, t
<1>5. s = t
  BY <1>1, <1>3, SeqEqual
<1> QED BY <1>1, <1>4, <1>5 DEF s, t

\* A plan of three writes.
LEMMA Three ==
  ASSUME NEW a \in Writes, NEW b \in Writes, NEW c \in Writes
  PROVE  <<a, b, c>> = <<a>> \o <<b, c>> /\ <<a, b, c>> \in Seq(Writes)
OBVIOUS

\* Quiet writes, one after the other, are quiet.
LEMMA RestProperties ==
  /\ <<>> \in Rest
  /\ \A w \in Quiets : <<w>> \in Rest
  /\ \A s \in Rest, t \in Rest : s \o t \in Rest
BY EmptySeq, ConcatProperties DEF Rest

\* A write of A, and quiet ones after it and before it.
LEMMA SoonCons ==
  ASSUME NEW A \in SUBSET Writes, NEW T \in SUBSET Seq(Writes), NEW w \in A, NEW t \in T
  PROVE  <<w>> \o t \in Soon(A, T)
BY AheadCons, WriteSets DEF Soon

\* Quiet writes in front change nothing.
LEMMA SoonPrefix ==
  ASSUME NEW A \in SUBSET Writes, NEW T \in SUBSET Seq(Writes), NEW h \in Rest, NEW s \in Soon(A, T)
  PROVE  h \o s \in Soon(A, T)
BY AheadPrefix, WriteSets DEF Soon, Rest

\* Quiet writes at the end follow what already follows.
LEMMA SoonAppend ==
  ASSUME NEW A \in SUBSET Writes, NEW T \in SUBSET Seq(Writes), NEW U \in SUBSET Seq(Writes),
         NEW e \in Rest, \A t \in T : t \o e \in U, NEW s \in Soon(A, T)
  PROVE  s \o e \in Soon(A, U)
<1>1. e \in Seq(Writes) /\ Quiets \in SUBSET Writes
  BY WriteSets
<1>2. s \in Ahead(Quiets, A, T)
  BY DEF Soon
<1>3. s \o e \in Ahead(Quiets, A, U)
  BY <1>1, <1>2, AheadAppend
<1> QED BY <1>3 DEF Soon

\* The write, and the event that tells of it.
LEMMA SoonPair ==
  ASSUME NEW A \in SUBSET Writes, NEW w \in A, NEW e \in Quiets
  PROVE  <<w, e>> \in Soon(A, Rest)
<1>1. w \in Writes /\ e \in Writes
  BY WriteSets
<1>2. <<w, e>> = <<w>> \o <<e>>
  BY <1>1, Two
<1> DEFINE t == <<e>>
<1>3. t \in Rest
  BY RestProperties
<1> HIDE DEF t
<1>4. <<w>> \o t \in Soon(A, Rest)
  BY <1>3, SoonCons, WriteSets
<1> QED BY <1>2, <1>4 DEF t

\* One quiet write in front.
LEMMA SoonAfter ==
  ASSUME NEW A \in SUBSET Writes, NEW T \in SUBSET Seq(Writes), NEW e \in Quiets, NEW s \in Soon(A, T)
  PROVE  <<e>> \o s \in Soon(A, T)
<1> DEFINE h == <<e>>
<1>1. h \in Rest
  BY RestProperties
<1> HIDE DEF h
<1>2. h \o s \in Soon(A, T)
  BY <1>1, SoonPrefix
<1> QED BY <1>2 DEF h

\* Two writes between two quiet ones.
LEMMA SoonFour ==
  ASSUME NEW A \in SUBSET Writes, NEW B \in SUBSET Writes,
         NEW a \in Quiets, NEW b \in A, NEW c \in B, NEW d \in Quiets
  PROVE  <<a, b, c, d>> \in Soon(A, Soon(B, Rest))
<1>1. <<a, b, c, d>> = <<a>> \o (<<b>> \o <<c, d>>)
  <2>1. <<a, b, c, d>> = <<a>> \o <<b, c, d>>
    OBVIOUS
  <2>2. <<b, c, d>> = <<b>> \o <<c, d>>
    OBVIOUS
  <2> QED BY <2>1, <2>2, Zenon
<1> DEFINE t == <<c, d>>
           u == <<b>> \o t
<1>2. t \in Soon(B, Rest)
  BY SoonPair
<1> HIDE DEF t
<1>3. Soon(B, Rest) \in SUBSET Seq(Writes)
  BY AheadType DEF Soon
<1>4. u \in Soon(A, Soon(B, Rest))
  BY <1>2, <1>3, SoonCons
<1> HIDE DEF u
<1>5. <<a>> \o u \in Soon(A, Soon(B, Rest))
  BY <1>3, <1>4, SoonAfter
<1> QED BY <1>1, <1>5 DEF t, u

\* recordOp comes last, and changes nothing of what comes before it.
LEMMA RecordLast ==
  ASSUME NEW e \in Rest, NEW r, NEW q
  PROVE  /\ \A s \in SaveThen(r) : s \o e \in SaveThen(r)
         /\ \A s \in LeaveThen(r, q) : s \o e \in LeaveThen(r, q)
<1>1. \A s \in SaveThen(r) : s \o e \in SaveThen(r)
  BY SoonAppend, RestProperties, WriteSets DEF SaveThen
<1>2. \A s \in SaveThen(q) : s \o e \in SaveThen(q)
  BY SoonAppend, RestProperties, WriteSets DEF SaveThen
<1>3. \A s \in LeaveThen(r, q) : s \o e \in LeaveThen(r, q)
  BY <1>2, SoonAppend, WriteSets DEF LeaveThen
<1> QED BY <1>1, <1>3

\* The operation record goes last: behind a start or a stage close,
LEMMA RecordLastOfStage ==
  ASSUME NEW e \in Rest, NEW todo, StageWork(todo)
  PROVE  StageWork(todo \o e)
<1>1. CASE Moving(todo)
  BY <1>1, RecordLast DEF Moving, StageWork
<1>2. CASE Ending(todo)
  BY <1>2, RecordLast DEF Ending, StageWork
<1>3. CASE Opening(todo)
  <2>1. \A r : \A s \in OpenThen(r) : s \o e \in OpenThen(r)
    <3> TAKE r
    <3>1. \A s \in SaveThen(r) : s \o e \in SaveThen(r)
      BY RecordLast
    <3> QED BY <3>1, SoonAppend, WriteSets DEF OpenThen
  <2> QED BY <1>3, <2>1 DEF Opening, StageWork
<1>4. \A g, r, q : \A ends \in BOOLEAN : \A s \in GateThen(g, ends, r, q) : s \o e \in GateThen(g, ends, r, q)
  <2> TAKE g, r, q
  <2> TAKE ends \in BOOLEAN
  <2> DEFINE T == IF ends THEN LeaveThen(r, q) ELSE SaveThen(r)
             A == Sets("gate", 0, g)
  <2>1. T \in SUBSET Seq(Writes) /\ A \in SUBSET Writes /\ \A s \in T : s \o e \in T
    BY RecordLast, WriteSets
  <2> HIDE DEF T, A
  <2>2. \A s \in Soon(A, T) : s \o e \in Soon(A, T)
    BY <2>1, SoonAppend
  <2> QED BY <2>2 DEF T, A, GateThen
<1>5. CASE Gating(todo)
  BY <1>4, <1>5 DEF Gating, StageWork
<1>6. CASE GateStarting(todo)
  <2>1. PICK a \in RunStates, g \in GateFiles, r \in RunStates, q \in RunStates, ends \in BOOLEAN :
          /\ EntersGate(a) /\ GateLeads(g, ends, r, q)
          /\ todo \in Soon(Saves(a), GateThen(g, ends, r, q))
    BY <1>6 DEF GateStarting
  <2>2. todo \o e \in Soon(Saves(a), GateThen(g, ends, r, q))
    BY <1>4, <2>1, SoonAppend, WriteSets
  <2> QED BY <1>6, <2>1, <2>2 DEF GateStarting, StageWork
<1> QED BY <1>1, <1>2, <1>3, <1>5, <1>6 DEF StageWork

\* and behind the close of a worker.
LEMMA RecordLastOfClose ==
  ASSUME NEW e \in Rest, NEW todo, NEW op
  PROVE  /\ Saving(todo) => Saving(todo \o e)
         /\ CloseWork(todo, op) => CloseWork(todo \o e, op)
<1>1. Saving(todo) => Saving(todo \o e)
  BY RecordLast DEF Saving
<1>2. \A id, blocks, r : \A s \in CloseThen(id, op, blocks, r) : s \o e \in CloseThen(id, op, blocks, r)
  <2> TAKE id, blocks, r
  <2> DEFINE A == Sets("worker", id, WorkerStatus("done", op, blocks))
  <2>1. A \in SUBSET Writes /\ \A s \in SaveThen(r) : s \o e \in SaveThen(r)
    BY RecordLast, WriteSets
  <2> HIDE DEF A
  <2>2. \A s \in Soon(A, SaveThen(r)) : s \o e \in Soon(A, SaveThen(r))
    BY <2>1, SoonAppend, WriteSets
  <2> QED BY <2>2 DEF A, CloseThen
<1>3. \A n, verdict, id, r : \A s \in VoteThen(n, verdict, id, op, r) : s \o e \in VoteThen(n, verdict, id, op, r)
  <2> TAKE n, verdict, id, r
  <2> DEFINE A == Sets("verdict", n, verdict)
             T == CloseThen(id, op, FALSE, r)
  <2>1. A \in SUBSET Writes /\ T \in SUBSET Seq(Writes) /\ \A s \in T : s \o e \in T
    BY <1>2, WriteSets
  <2> HIDE DEF A, T
  <2>2. \A s \in Soon(A, T) : s \o e \in Soon(A, T)
    BY <2>1, SoonAppend
  <2> QED BY <2>2 DEF A, T, VoteThen
<1>4. ASSUME NEW id, NEW change, NEW T \in SUBSET Seq(Writes), \A t \in T : t \o e \in T, NEW s \in AuditThen(id, change, T)
      PROVE  s \o e \in AuditThen(id, change, T)
  <2> DEFINE Q == Quiets \cup OwnWrites(StageOf(id))
             A == Sets("report", id, change)
  <2>1. Q \in SUBSET Writes /\ A \in SUBSET Writes /\ e \in Seq(Writes)
    BY WriteSets
  <2>2. s \in Ahead(Q, A, T)
    BY DEF AuditThen
  <2> HIDE DEF Q, A
  <2>3. s \o e \in Ahead(Q, A, T)
    BY <1>4, <2>1, <2>2, AheadAppend
  <2> QED BY <2>3 DEF Q, A, AuditThen
<1>5. Auditing(todo, op) => Auditing(todo \o e, op)
  BY <1>2, <1>4, WriteSets DEF Auditing
<1>6. VoteAuditing(todo, op) => VoteAuditing(todo \o e, op)
  BY <1>3, <1>4, WriteSets DEF VoteAuditing
<1>7. (Closing(todo, op) => Closing(todo \o e, op)) /\ (Voting(todo, op) => Voting(todo \o e, op))
  BY <1>2, <1>3 DEF Closing, Voting
<1> QED BY <1>1, <1>5, <1>6, <1>7 DEF CloseWork

-----------------------------------------------------------------------------
(* What a start and a stage close write *)

\* Block: the blocked state, and its event.
LEMMA BlockWrites ==
  ASSUME NEW r \in RunStates, NEW why \in Reasons
  PROVE  /\ Blocked(r, why) \in RunStates
         /\ Block(r, why).writes \in SaveThen(Blocked(r, why)) /\ Block(r, why).reply = "blocked"
<1>1. Blocked(r, why) \in RunStates
  BY DEF Blocked, RunStates
<1> DEFINE b == Blocked(r, why)
<1>2. SaveState(b) \in Saves(b) /\ Checked(Emit("run_blocked")) \in Quiets
  BY <1>1, SaveWrites, QuietWrites DEF Events
<1> HIDE DEF b
<1>5. <<SaveState(b), Checked(Emit("run_blocked"))>> \in SaveThen(b)
  BY <1>2, SoonPair, WriteSets DEF SaveThen
<1>6. Block(r, why) = Plan(<<SaveState(b), Checked(Emit("run_blocked"))>>, "blocked")
  BY DEF Block, b
<1>7. Block(r, why).writes = <<SaveState(b), Checked(Emit("run_blocked"))>> /\ Block(r, why).reply = "blocked"
  BY <1>6 DEF Plan
<1> QED BY <1>1, <1>5, <1>7 DEF b

\* Then puts its writes in front of the plan.
LEMMA ThenWrites ==
  ASSUME NEW h, NEW plan
  PROVE  Then(h, plan).writes = h \o plan.writes /\ Then(h, plan).reply = plan.reply
BY DEF Then, Plan

\* A budget that is spent: what is said of it, and the block.
LEMMA BudgetBlockWrites ==
  ASSUME NEW r \in RunStates, NEW why \in Reasons
  PROVE  /\ Then(<<Emit("budget_exceeded")>>, Block(r, why)).writes \in SaveThen(Blocked(r, why))
         /\ Then(<<Emit("budget_exceeded")>>, Block(r, why)).reply = "blocked"
<1>1. <<Emit("budget_exceeded")>> \in Rest
  BY QuietWrites, RestProperties DEF Events
<1> QED BY <1>1, ThenWrites, BlockWrites, SoonPrefix, WriteSets, ZenonT(30) DEF SaveThen

\* The run that has left its stage s, and the one that is completed after it.
Gone(r, s, next) == [r EXCEPT !.stages[s] = "done", !.stage = next]
Ended(r) == [r EXCEPT !.status = "completed", !.stage = "done", !.active = NoWorker, !.stages["done"] = "done"]

\* advanceStage: the stage is left in one write.
LEMMA AdvanceWrites ==
  ASSUME NEW r \in RunStates, NEW s \in Stages, NEW next \in Stages \cup {NoStage}
  PROVE  /\ Gone(r, s, next) \in RunStates
         /\ Advance(r, s, next) \in SaveThen(Gone(r, s, next))
         /\ \A q : \A t \in SaveThen(q) :
              Advance(r, s, next) \o t \in LeaveThen(Gone(r, s, next), q)
<1> DEFINE x == Gone(r, s, next)
           a == SaveState(x)
           b == Checked(Emit("stage_completed"))
           c == Emit("stage_transition")
<1>1. x \in RunStates
  BY DEF Gone, Ended, RunStates, StageStatus
<1> HIDE DEF x
<1>2. a \in Saves(x) /\ b \in Quiets /\ c \in Quiets
  BY <1>1, SaveWrites, QuietWrites DEF Events
<1>3. Advance(r, s, next) = <<a, b, c>>
  BY DEF Advance, Gone, x
<1> HIDE DEF a, b, c
<1>4. a \in Writes /\ b \in Writes /\ c \in Writes
  BY <1>2, WriteSets
<1>5. <<a, b, c>> = <<a>> \o <<b, c>> /\ <<b, c>> \in Rest
  BY <1>2, <1>4, Two, Three DEF Rest
<1>6. Advance(r, s, next) \in SaveThen(x)
  BY <1>2, <1>3, <1>5, SoonCons, WriteSets DEF SaveThen
<1>7. ASSUME NEW q, NEW t \in SaveThen(q)
      PROVE  Advance(r, s, next) \o t \in LeaveThen(x, q)
  <2> DEFINE e == <<b, c>>
             v == <<a>>
  <2>1. v \in Seq(Writes) /\ e \in Rest /\ e \in Seq(Writes) /\ t \in Seq(Writes)
    <3>1. e \in Rest /\ t \in SaveThen(q)
      BY <1>5
    <3>2. v \in Seq(Writes)
      BY <1>4
    <3> HIDE DEF e, v
    <3> QED BY <3>1, <3>2, WriteSets
  <2>2. Advance(r, s, next) = v \o e
    BY <1>3, <1>5
  <2> HIDE DEF e
  <2>3. v \o (e \o t) \in LeaveThen(x, q)
    <3>1. e \o t \in SaveThen(q)
      BY <2>1, <1>7, SoonPrefix, WriteSets DEF SaveThen
    <3> QED BY <3>1, <1>2, SoonCons, WriteSets DEF LeaveThen
  <2> HIDE DEF v
  <2>4. (v \o e) \o t = v \o (e \o t)
    BY <2>1, Associative
  <2> QED BY <2>2, <2>3, <2>4
<1> QED BY <1>1, <1>6, <1>7 DEF x

\* complete: the run is completed in one write.
LEMMA CompleteWrites ==
  ASSUME NEW r \in RunStates, "done" \in Stages
  PROVE  Ended(r) \in RunStates /\ Complete(r) \in SaveThen(Ended(r))
<1> DEFINE x == Ended(r)
           a == SaveState(x)
           b == Checked(Emit("run_completed"))
<1>1. x \in RunStates
  BY DEF Gone, Ended, RunStates, StageStatus
<1> HIDE DEF x
<1>2. a \in Saves(x) /\ b \in Quiets
  BY <1>1, SaveWrites, QuietWrites DEF Events
<1>3. Complete(r) = <<a, b>>
  BY DEF Complete, Ended, x
<1> HIDE DEF a, b
<1>6. Complete(r) \in SaveThen(x)
  BY <1>2, <1>3, SoonPair, WriteSets DEF SaveThen
<1> QED BY <1>1, <1>6 DEF x

\* OpenWorker: the file of the worker, then the state that counts it.
LEMMA OpenPlan ==
  ASSUME Typed, Free, Kind(run.stage) \in {"worker", "review"}, run.agents < MaxWorkers
  PROVE  /\ Opening(OpenWorker([run EXCEPT !.iterations[run.stage] = @ + 1], run.stage).writes)
         /\ OpenWorker([run EXCEPT !.iterations[run.stage] = @ + 1], run.stage).reply = "ok"
<1> DEFINE s == run.stage
           i == [run EXCEPT !.iterations[s] = @ + 1]
           id == <<i.agents + 1, s>>
           x == [i EXCEPT !.agents = @ + 1, !.stages[s] = "active", !.active = id]
           a == Hard(Write("file", "tracking"))
           b == Keyed("worker", id, WorkerStatus("running", Anonymous, FALSE))
           c == SaveState(x)
           d == Emit("worker_started")
<1>1. run \in RunStates /\ s \in Stages /\ MaxWorkers \in Nat /\ i.agents = run.agents /\ run.agents \in Nat
  BY BoundsAssumption DEF Typed, Free, RunStates
<1>2. id \in Ids /\ id = <<run.agents + 1, run.stage>>
  BY <1>1 DEF Ids
<1>3. x \in RunStates /\ Opens(x) /\ x.active = id
  <2>1. i \in RunStates
    BY <1>1 DEF RunStates
  <2>2. x \in RunStates
    <3>1. i.agents + 1 \in 0 .. MaxWorkers
      BY <1>1
    <3> HIDE DEF i, id
    <3>2. id \in Ids /\ i \in RunStates
      BY <1>2, <2>1 DEF i, id
    <3> QED BY <1>1, <3>1, <3>2 DEF RunStates, StageStatus
  <2>3. Opens(x)
    BY <1>1, <1>2 DEF Opens, Entered, Counted, Free, RunStates
  <2> QED BY <1>1, <2>2, <2>3 DEF RunStates
<1>4. OpenWorker(i, s) = Plan(<<a, b, c, d>>, "ok")
  BY DEF OpenWorker
<1> HIDE DEF x, id, i
<1>5. /\ a \in Quiets /\ c \in Saves(x) /\ d \in Quiets
      /\ b \in Sets("worker", x.active, WorkerStatus("running", Anonymous, FALSE))
  <2>1. WorkerStatus("running", Anonymous, FALSE) \in WorkerFiles
    BY BoundsAssumption DEF WorkerStatus, WorkerFiles, Anonymous
  <2> QED BY <1>2, <1>3, <2>1, QuietWrites, SaveWrites, KeyedWrites DEF Events, Files
<1> HIDE DEF a, b, c, d
<1>8. <<a, b, c, d>> \in OpenThen(x)
  BY <1>5, SoonFour, WriteSets DEF OpenThen, SaveThen
<1>9. Opening(<<a, b, c, d>>)
  BY <1>3, <1>8 DEF Opening
<1> QED BY <1>4, <1>9 DEF Plan, i

-----------------------------------------------------------------------------
(* A stage close *)

\* leaveStage: the run leaves the stage, and is completed when it leaves for the last.
LEMMA LeaveWrites ==
  ASSUME NEW r \in RunStates, NEW s \in Stages, NEW next, next = Workflow[s].next
  PROVE  /\ Gone(r, s, next) \in RunStates /\ Leave(r, s).reply = "ok"
         /\ Kind(next) # "terminal" => Leave(r, s).writes \in SaveThen(Gone(r, s, next))
         /\ Kind(next) = "terminal" =>
              /\ Ended(Gone(r, s, next)) \in RunStates /\ Completes(Ended(Gone(r, s, next)), Gone(r, s, next))
              /\ Leave(r, s).writes \in LeaveThen(Gone(r, s, next), Ended(Gone(r, s, next)))
<1> DEFINE x == Gone(r, s, next)
<1>1. next \in Stages \cup {NoStage} /\ (Kind(next) = "terminal" => next = "done" /\ next \in Stages)
  BY WorkflowFacts DEF StageFacts
<1>2. /\ x \in RunStates /\ Advance(r, s, next) \in SaveThen(x)
      /\ \A q : \A t \in SaveThen(q) : Advance(r, s, next) \o t \in LeaveThen(x, q)
  BY <1>1, AdvanceWrites
<1>3. x.stage = next
  BY DEF Gone, RunStates
<1>4. /\ Leave(r, s).writes = Advance(r, s, next) \o (IF Kind(next) = "terminal" THEN Complete(x) ELSE <<>>)
      /\ Leave(r, s).reply = "ok"
  BY DEF Leave, Plan, Gone
<1> HIDE DEF x
<1>5. CASE Kind(next) # "terminal"
  <2>1. Leave(r, s).writes = Advance(r, s, next) \o <<>>
    BY <1>4, <1>5
  <2>2. Advance(r, s, next) \in Seq(Writes)
    BY <1>2, WriteSets
  <2>3. Leave(r, s).writes = Advance(r, s, next)
    BY <2>1, <2>2, ConcatEmptySeq
  <2> QED BY <1>2, <1>4, <1>5, <2>3 DEF x
<1>6. CASE Kind(next) = "terminal"
  <2>1. Ended(x) \in RunStates /\ Complete(x) \in SaveThen(Ended(x))
    BY <1>1, <1>2, <1>6, CompleteWrites
  <2>2. Leave(r, s).writes \in LeaveThen(x, Ended(x))
    BY <1>2, <1>4, <1>6, <2>1
  <2>3. Completes(Ended(x), x)
    BY <1>1, <1>2, <1>3, <1>6 DEF Completes, Ended, RunStates
  <2> QED BY <1>2, <1>4, <1>6, <2>1, <2>2, <2>3 DEF x
<1> QED BY <1>5, <1>6

\* The run goes on from where it may be left, to its end perhaps.
LEMMA LeavePlan ==
  ASSUME Typed, Free, NEW r \in RunStates, MayLeave(Gone(r, run.stage, Workflow[run.stage].next))
  PROVE  StageWork(Leave(r, run.stage).writes) /\ Leave(r, run.stage).reply = "ok"
<1>1. run.stage \in Stages
  BY DEF Free
<1>2. CASE Kind(Workflow[run.stage].next) # "terminal"
  BY <1>1, <1>2, LeaveWrites DEF StageWork, Moving, MayMove
<1>3. CASE Kind(Workflow[run.stage].next) = "terminal"
  BY <1>1, <1>3, LeaveWrites DEF StageWork, Ending
<1> QED BY <1>2, <1>3

\* The gates: what they are run between, and what follows them.
LEMMA RanWrites ==
  ASSUME NEW A \in SUBSET Writes, NEW B \in SUBSET Writes, NEW T \in SUBSET Seq(Writes),
         \A h \in Rest, u \in T : h \o u \in T,
         NEW c \in Quiets, NEW a \in A, NEW b \in B, NEW e \in Rest, NEW t \in T
  PROVE  (<<c, a, b>> \o e) \o t \in Soon(A, Soon(B, T))
<1> DEFINE v == <<b>>
           u == <<a, b>>
           w == <<c, a, b>>
<1>1. v \in Soon(B, Rest)
  <2>1. v \o <<>> = v
    OBVIOUS
  <2>2. v \o <<>> \in Soon(B, Rest)
    BY SoonCons, RestProperties, WriteSets
  <2> QED BY <2>1, <2>2
<1>2. u = <<a>> \o v /\ w = <<c>> \o u
  <2>1. c \in Writes /\ a \in Writes /\ b \in Writes
    BY WriteSets
  <2> QED BY <2>1, Two, Three
<1> HIDE DEF v, u, w
<1>3. Soon(B, Rest) \in SUBSET Seq(Writes) /\ Soon(B, T) \in SUBSET Seq(Writes) /\ Soon(A, Soon(B, Rest)) \in SUBSET Seq(Writes)
  BY AheadType DEF Soon
<1>4. u \in Soon(A, Soon(B, Rest))
  BY <1>1, <1>2, <1>3, SoonCons
<1>5. w \in Soon(A, Soon(B, Rest))
  BY <1>2, <1>3, <1>4, SoonAfter
<1>6. w \o e \in Soon(A, Soon(B, Rest))
  <2>1. \A x \in Soon(B, Rest) : x \o e \in Soon(B, Rest)
    BY SoonAppend, RestProperties, WriteSets
  <2> QED BY <1>3, <1>5, <2>1, SoonAppend
<1>7. \A x \in Soon(B, Rest) : x \o t \in Soon(B, T)
  <2> SUFFICES ASSUME NEW x \in Ahead(Quiets, B, Rest) PROVE x \o t \in Ahead(Quiets, B, T)
    BY DEF Soon
  <2>1. \A h \in Rest : h \o t \in T
    OBVIOUS
  <2>2. t \in Seq(Writes) /\ Quiets \in SUBSET Writes /\ Rest \in SUBSET Seq(Writes)
    BY WriteSets
  <2> QED BY <2>1, <2>2, AheadAppend
<1>8. w \o e \in Ahead(Quiets, A, Soon(B, Rest)) /\ t \in Seq(Writes) /\ Quiets \in SUBSET Writes
  BY <1>6, WriteSets DEF Soon
<1>9. (w \o e) \o t \in Ahead(Quiets, A, Soon(B, T))
  BY <1>3, <1>7, <1>8, AheadAppend
<1> QED BY <1>9 DEF Soon, w

\* runGateStage marks the stage active, runs the gates and writes their verdict, then leaves or blocks.
LEMMA RunGatesWrites ==
  ASSUME Typed, Free, Kind(run.stage) = "gate", NEW passed \in BOOLEAN, NEW e \in Rest,
         NEW r \in RunStates, NEW q \in RunStates, NEW ends \in BOOLEAN,
         GateLeads([passed |-> passed, after |-> run.agents], ends, r, q),
         NEW t \in IF ends THEN LeaveThen(r, q) ELSE SaveThen(r)
  PROVE  GateStarting(<<Emit("stage_started")>> \o
           ((<<Checked(Emit("gate_started")), SaveState([run EXCEPT !.stages[run.stage] = "active"]),
               Checked(Hard(Write("gate", [passed |-> passed, after |-> run.agents])))>> \o e) \o t))
<1> DEFINE x == [run EXCEPT !.stages[run.stage] = "active"]
           g == [passed |-> passed, after |-> run.agents]
           T == IF ends THEN LeaveThen(r, q) ELSE SaveThen(r)
           a == Checked(Emit("gate_started"))
           b == SaveState(x)
           c == Checked(Hard(Write("gate", g)))
<1>1. x \in RunStates /\ EntersGate(x) /\ g \in GateFiles
  BY DEF Typed, Free, RunStates, StageStatus, EntersGate, Kept, Entered, GateFiles
<1> HIDE DEF x, g
<1>2. a \in Quiets /\ b \in Saves(x) /\ c \in Sets("gate", 0, g)
  BY <1>1, QuietWrites, SaveWrites, KeyedWrites DEF Events
<1>3. T \in SUBSET Seq(Writes) /\ \A h \in Rest, u \in T : h \o u \in T
  BY SoonPrefix, WriteSets DEF SaveThen, LeaveThen
<1>4. t \in T /\ Saves(x) \in SUBSET Writes /\ Sets("gate", 0, g) \in SUBSET Writes
  BY WriteSets
<1> HIDE DEF T, a, b, c
<1>5. (<<a, b, c>> \o e) \o t \in Soon(Saves(x), Soon(Sets("gate", 0, g), T))
  BY <1>2, <1>3, <1>4, RanWrites
<1>6. (<<a, b, c>> \o e) \o t \in Soon(Saves(x), GateThen(g, ends, r, q))
  BY <1>5 DEF GateThen, T
<1>7. <<Emit("stage_started")>> \o ((<<a, b, c>> \o e) \o t) \in Soon(Saves(x), GateThen(g, ends, r, q))
  BY <1>4, <1>6, SoonAfter, QuietWrites, WriteSets DEF Events
<1>8. GateLeads(g, ends, r, q)
  BY DEF g
<1>9. GateStarting(<<Emit("stage_started")>> \o ((<<a, b, c>> \o e) \o t))
  BY <1>1, <1>7, <1>8 DEF GateStarting
<1> QED BY <1>9 DEF a, b, c, x, g

-----------------------------------------------------------------------------
(* A start and a stage close begin where the invariant has them *)

\* Two prefixes, one after the other.
LEMMA ThenTwice ==
  ASSUME NEW h, NEW e, NEW plan, NEW whole, whole = Then(h, Then(e, plan))
  PROVE  whole.writes = h \o (e \o plan.writes) /\ whole.reply = plan.reply
BY DEF Then, Plan

\* runGateStage, whatever the gates come to.
LEMMA GatePlanBegins ==
  ASSUME Typed, Free, Kind(run.stage) = "gate", NEW outcome \in GateOutcomes
  PROVE  /\ StageWork(GatePlan(run, run.stage, outcome).writes)
         /\ GatePlan(run, run.stage, outcome).reply \in {"ok", "blocked"}
<1> DEFINE s == run.stage
           x == [run EXCEPT !.stages[s] = "active"]
           h == <<Emit("stage_started")>>
           ran(passed) == <<Checked(Emit("gate_started")), SaveState(x),
                            Checked(Hard(Write("gate", [passed |-> passed, after |-> run.agents])))>>
           next == Workflow[s].next
           r == Gone(x, s, next)
           b == Blocked(x, "gate")
           plan == GatePlan(run, s, outcome)
<1>1. run \in RunStates /\ s \in Stages /\ x \in RunStates /\ x.agents = run.agents /\ b \in RunStates
  <2>1. run \in RunStates /\ s \in Stages
    BY DEF Typed, Free
  <2>2. x \in RunStates /\ x.agents = run.agents
    BY <2>1 DEF RunStates, StageStatus
  <2> HIDE DEF x
  <2> QED BY <2>1, <2>2, BlockWrites DEF Reasons
<1>2. GateMayBlock(b)
  BY <1>1 DEF GateMayBlock, Blocked, Kept, Entered, Free, RunStates
<1>3. Leaves(r, next)
  BY <1>1 DEF Leaves, Gone, Free, RunStates
<1> HIDE DEF x, b, r
<1>4. b = Blocked(x, "gate") /\ r = Gone(x, s, next)
  BY DEF b, r
<1>5. Block(x, "gate").writes \in SaveThen(b) /\ Block(x, "gate").reply = "blocked"
  BY <1>1, <1>4, BlockWrites DEF Reasons
<1>6. /\ \A event \in Events : <<Emit(event)>> \in Rest /\ <<Checked(Emit(event))>> \in Rest
      /\ <<Write("file", "mutations"), Emit("gate_mutation")>> \in Rest
  <2>1. Write("file", "mutations") \in Quiets /\ Emit("gate_mutation") \in Quiets
    BY QuietWrites DEF Files, Events
  <2>2. <<Write("file", "mutations"), Emit("gate_mutation")>> \in Seq(Quiets)
    BY <2>1
  <2> QED BY <2>2, QuietWrites, RestProperties DEF Rest
<1>7. CASE outcome = "pass"
  <2> DEFINE g == [passed |-> TRUE, after |-> run.agents]
             e == <<Emit("gate_completed")>>
             leave == Leave(x, s)
  <2>1. plan = Then(h, Then(ran(TRUE) \o e, leave))
    BY <1>1, <1>7 DEF GatePlan, x
  <2>2. r \in RunStates /\ leave.reply = "ok"
        /\ (Kind(next) # "terminal" => leave.writes \in SaveThen(r))
        /\ (Kind(next) = "terminal" => Ended(r) \in RunStates /\ Completes(Ended(r), r) /\ leave.writes \in LeaveThen(r, Ended(r)))
    BY <1>1, <1>4, LeaveWrites
  <2>3. plan.writes = h \o ((ran(TRUE) \o e) \o leave.writes) /\ plan.reply = "ok"
    <3> DEFINE f == ran(TRUE) \o e
    <3>1. plan = Then(h, Then(f, leave))
      BY <2>1
    <3> HIDE DEF h, leave, f, plan
    <3>2. plan.writes = h \o (f \o leave.writes) /\ plan.reply = "ok"
      BY <3>1, <2>2, ThenTwice
    <3> QED BY <3>2 DEF f
  <2>4. e \in Rest
    BY <1>6 DEF Events
  <2> HIDE DEF e, leave
  <2>5. CASE Kind(next) = "terminal"
    <3>1. GateLeads(g, TRUE, r, Ended(r))
      BY <1>3, <2>2, <2>5 DEF GateLeads
    <3>2. leave.writes \in IF TRUE THEN LeaveThen(r, Ended(r)) ELSE SaveThen(r)
      BY <2>2, <2>5
    <3>3. GateStarting(h \o ((ran(TRUE) \o e) \o leave.writes))
      BY <2>2, <2>4, <2>5, <3>1, <3>2, RunGatesWrites DEF x
    <3> QED BY <2>3, <3>3 DEF StageWork
  <2>6. CASE Kind(next) # "terminal"
    <3>1. GateLeads(g, FALSE, r, r)
      BY <1>3 DEF GateLeads
    <3>2. leave.writes \in IF FALSE THEN LeaveThen(r, r) ELSE SaveThen(r)
      BY <2>2, <2>6
    <3>3. GateStarting(h \o ((ran(TRUE) \o e) \o leave.writes))
      BY <2>2, <2>4, <2>6, <3>1, <3>2, RunGatesWrites DEF x
    <3> QED BY <2>3, <3>3 DEF StageWork
  <2> QED BY <2>5, <2>6
<1>8. ASSUME NEW passed \in BOOLEAN, NEW e \in Rest, plan = Then(h, Then(ran(passed) \o e, Block(x, "gate")))
      PROVE  StageWork(plan.writes) /\ plan.reply = "blocked"
  <2> HIDE DEF h, ran, plan
  <2>1. plan.writes = h \o ((ran(passed) \o e) \o Block(x, "gate").writes) /\ plan.reply = "blocked"
    <3> DEFINE f == ran(passed) \o e
    <3>1. plan = Then(h, Then(f, Block(x, "gate")))
      BY <1>8
    <3> HIDE DEF f
    <3>2. plan.writes = h \o (f \o Block(x, "gate").writes) /\ plan.reply = "blocked"
      BY <1>5, <3>1, ThenTwice
    <3> QED BY <3>2 DEF f
  <2>2. GateLeads([passed |-> passed, after |-> run.agents], FALSE, b, b)
    BY <1>2 DEF GateLeads
  <2>3. Block(x, "gate").writes \in IF FALSE THEN LeaveThen(b, b) ELSE SaveThen(b)
    BY <1>5
  <2>4. GateStarting(h \o ((ran(passed) \o e) \o Block(x, "gate").writes))
    BY <1>1, <2>2, <2>3, RunGatesWrites DEF h, ran, x
  <2> QED BY <2>1, <2>4 DEF StageWork
<1>9. CASE outcome = "fail"
  <2>1. plan = Then(h, Then(ran(FALSE) \o <<Emit("gate_completed")>>, Block(x, "gate")))
    BY <1>1, <1>9 DEF GatePlan, x
  <2> HIDE DEF plan
  <2>2. <<Emit("gate_completed")>> \in Rest
    BY <1>6 DEF Events
  <2>3. StageWork(plan.writes) /\ plan.reply = "blocked"
    BY <1>8, <2>1, <2>2
  <2> QED BY <2>3 DEF plan
<1>10. CASE outcome = "mutate"
  <2>1. plan = Then(h, Then(ran(TRUE) \o <<Write("file", "mutations"), Emit("gate_mutation")>>, Block(x, "gate")))
    BY <1>1, <1>10 DEF GatePlan, x
  <2> HIDE DEF plan
  <2>2. StageWork(plan.writes) /\ plan.reply = "blocked"
    BY <1>6, <1>8, <2>1
  <2> QED BY <2>2 DEF plan
<1>11. ASSUME NEW e \in Rest, plan = Then(h, Then(e, Block(x, "gate")))
       PROVE  StageWork(plan.writes) /\ plan.reply = "blocked"
  <2>1. h \in Rest
    BY <1>6 DEF Events
  <2> HIDE DEF h, plan
  <2>2. plan.writes = h \o (e \o Block(x, "gate").writes) /\ plan.reply = "blocked"
    BY <1>5, <1>11, ThenTwice
  <2>3. h \o (e \o Block(x, "gate").writes) \in SaveThen(b)
    <3>1. e \o Block(x, "gate").writes \in SaveThen(b)
      BY <1>5, <1>11, SoonPrefix, WriteSets DEF SaveThen
    <3> QED BY <2>1, <3>1, SoonPrefix, WriteSets DEF SaveThen
  <2> QED BY <1>1, <1>2, <2>2, <2>3 DEF StageWork, Moving, MayMove
<1>12. CASE outcome = "refused"
  <2>1. plan = Then(h, Then(<<Checked(Emit("policy_blocked"))>>, Block(x, "gate")))
    BY <1>12 DEF GatePlan, x
  <2> HIDE DEF plan
  <2>2. <<Checked(Emit("policy_blocked"))>> \in Rest
    BY <1>6 DEF Events
  <2>3. StageWork(plan.writes) /\ plan.reply = "blocked"
    BY <1>11, <2>1, <2>2
  <2> QED BY <2>3 DEF plan
<1>13. CASE outcome = "required"
  <2>1. plan = Then(h, Then(<<Checked(Emit("no_gates_configured"))>>, Block(x, "gate")))
    BY <1>13 DEF GatePlan, x
  <2> HIDE DEF plan
  <2>2. <<Checked(Emit("no_gates_configured"))>> \in Rest
    BY <1>6 DEF Events
  <2>3. StageWork(plan.writes) /\ plan.reply = "blocked"
    BY <1>11, <2>1, <2>2
  <2> QED BY <2>3 DEF plan
<1>14. CASE outcome = "missing"
  <2> DEFINE e == <<Checked(Emit("no_gates_configured"))>>
             leave == Leave(x, s)
  <2>1. plan = Then(h, Then(e, leave))
    BY <1>14 DEF GatePlan, x
  <2>2. e \in Rest /\ h \in Rest
    BY <1>6 DEF Events
  <2>3. r \in RunStates /\ leave.reply = "ok"
        /\ (Kind(next) # "terminal" => leave.writes \in SaveThen(r))
        /\ (Kind(next) = "terminal" => Ended(r) \in RunStates /\ Completes(Ended(r), r) /\ leave.writes \in LeaveThen(r, Ended(r)))
    BY <1>1, <1>4, LeaveWrites
  <2> HIDE DEF h, e, leave
  <2>4. plan.writes = h \o (e \o leave.writes) /\ plan.reply = "ok"
    <3> HIDE DEF plan
    <3> QED BY <2>1, <2>3, ThenTwice
  <2> HIDE DEF plan
  <2>5. MayLeave(r)
    BY <1>3, <1>14 DEF MayLeave
  <2>6. CASE Kind(next) = "terminal"
    <3>1. e \o leave.writes \in LeaveThen(r, Ended(r))
      BY <2>2, <2>3, <2>6, SoonPrefix, WriteSets DEF LeaveThen
    <3>2. h \o (e \o leave.writes) \in LeaveThen(r, Ended(r))
      BY <2>2, <3>1, SoonPrefix, WriteSets DEF LeaveThen
    <3>3. Ending(plan.writes)
      BY <2>3, <2>4, <2>5, <2>6, <3>2 DEF Ending
    <3> QED BY <2>4, <3>3 DEF StageWork, plan
  <2>7. CASE Kind(next) # "terminal"
    <3>1. e \o leave.writes \in SaveThen(r)
      BY <2>2, <2>3, <2>7, SoonPrefix, WriteSets DEF SaveThen
    <3>2. h \o (e \o leave.writes) \in SaveThen(r)
      BY <2>2, <3>1, SoonPrefix, WriteSets DEF SaveThen
    <3>3. Moving(plan.writes)
      BY <2>3, <2>4, <2>5, <3>2 DEF Moving, MayMove
    <3> QED BY <2>4, <3>3 DEF StageWork, plan
  <2> QED BY <2>6, <2>7
<1> QED BY <1>7, <1>9, <1>10, <1>12, <1>13, <1>14, ConfigAssumption

\* Nobody is at work when a start or a stage close is accepted.
LEMMA NobodyAtWork ==
  ASSUME Typed, run.status = "active", run.active = NoWorker, NEW r, NEW why
  PROVE  MayBlock(Blocked(run, why))
<1>1. ~Done(run.active)
  BY IdFacts DEF Typed, Done, Has
<1> QED BY <1>1 DEF MayBlock, Blocks, Says, Kept, Blocked, Typed, RunStates

\* HostBudgetBlock: the run stops, and nothing else.
LEMMA BudgetPlanBegins ==
  ASSUME Typed, run.status = "active", run.active = NoWorker
  PROVE  Saving(HostBudgetBlock(run).writes) /\ HostBudgetBlock(run).reply = "blocked"
<1> DEFINE why == IF AgentBudgetExceeded(run) THEN "agents" ELSE "tokens"
           b == Blocked(run, why)
<1>1. why \in Reasons /\ run \in RunStates
  BY DEF Reasons, Typed
<1>2. MayBecome(b)
  BY NobodyAtWork DEF MayBecome
<1> HIDE DEF why
<1>3. b \in RunStates
  BY <1>1, BlockWrites
<1>4. HostBudgetBlock(run) = Then(<<Emit("budget_exceeded")>>, Block(run, why))
  BY DEF HostBudgetBlock, why
<1>5. HostBudgetBlock(run).writes \in SaveThen(b) /\ HostBudgetBlock(run).reply = "blocked"
  BY <1>1, <1>4, BudgetBlockWrites
<1> QED BY <1>2, <1>3, <1>5 DEF Saving

\* A command with nothing to do answers what the run is.
LEMMA AnswerBegins ==
  /\ Answer(run).writes \in Rest /\ Answer(run).reply \in {"ok", "blocked"}
  /\ Plan(<<>>, "ok").writes \in Rest /\ Plan(<<>>, "ok").reply = "ok"
BY RestProperties DEF Answer, Plan

\* The state a retried stage close finds, a gate, an artifact that is missing, or the way on.
LEMMA StagePlansBegin ==
  ASSUME Typed, NEW op, NEW req, req.kind = "close", Accepts(op, req), NEW plan \in StagePlans(op, req)
  PROVE  /\ plan.writes \in Rest \/ Saving(plan.writes) \/ StageWork(plan.writes)
         /\ plan.reply \in {"ok", "blocked"}
<1>1. CASE RecoversStage(op, req)
  <2>1. plan = Answer(run)
    BY <1>1 DEF StagePlans
  <2> QED BY <2>1, AnswerBegins
<1>2. CASE ~RecoversStage(op, req)
  <2>1. ValidStageClose(req)
    BY <1>2 DEF Accepts
  <2>2. Free /\ req.stage = run.stage /\ run \in RunStates /\ run.stage \in Stages
    BY <2>1 DEF Free, ValidStageClose, Kind, Typed, None
  <2>3. CASE HostBudgetExceeded(run)
    <3>1. plan = HostBudgetBlock(run)
      BY <1>2, <2>3 DEF StagePlans
    <3> QED BY <3>1, <2>2, BudgetPlanBegins DEF Free
  <2>4. CASE ~HostBudgetExceeded(run) /\ Kind(run.stage) = "gate"
    <3>1. PICK outcome \in GateOutcomes : plan = GatePlan(run, run.stage, outcome)
      BY <1>2, <2>2, <2>4 DEF StagePlans
    <3> QED BY <3>1, <2>2, <2>4, GatePlanBegins
  <2>5. CASE ~HostBudgetExceeded(run) /\ Kind(run.stage) # "gate" /\ ArtifactMissing(run.stage)
    <3>1. plan = Block(run, "artifact")
      BY <1>2, <2>2, <2>5 DEF StagePlans
    <3>2. MayBecome(Blocked(run, "artifact"))
      BY <2>2, NobodyAtWork DEF MayBecome, Free
    <3> QED BY <3>1, <3>2, <2>2, BlockWrites DEF Saving, Reasons
  <2>6. CASE ~HostBudgetExceeded(run) /\ Kind(run.stage) # "gate" /\ ~ArtifactMissing(run.stage)
    <3>1. plan = Leave(run, run.stage)
      BY <1>2, <2>2, <2>6 DEF StagePlans
    <3>2. Leaves(Gone(run, run.stage, Workflow[run.stage].next), Workflow[run.stage].next)
      BY <2>2 DEF Leaves, Gone, Free, RunStates
    <3>3. MayLeave(Gone(run, run.stage, Workflow[run.stage].next))
      BY <3>2, <2>1, <2>2, <2>6 DEF MayLeave, ValidStageClose
    <3> QED BY <3>1, <3>3, <2>2, LeavePlan
  <2> QED BY <2>3, <2>4, <2>5, <2>6
<1> QED BY <1>1, <1>2

\* A start finds its worker, is refused by a budget, or opens the worker.
LEMMA StartPlanBegins ==
  ASSUME Typed, NEW op, NEW req, req.kind = "start", Accepts(op, req), run.agents < MaxWorkers
  PROVE  /\ \/ StartPlan(op, req).writes \in Rest
            \/ Saving(StartPlan(op, req).writes)
            \/ StageWork(StartPlan(op, req).writes)
         /\ StartPlan(op, req).reply \in {"ok", "blocked"}
<1> DEFINE plan == StartPlan(op, req)
           i == [run EXCEPT !.iterations[run.stage] = @ + 1]
<1>1. CASE RecoversStart(op, req)
  <2>1. plan = Plan(<<>>, "ok")
    BY <1>1 DEF StartPlan
  <2> HIDE DEF plan
  <2>2. plan.writes \in Rest /\ plan.reply = "ok"
    BY <2>1, AnswerBegins
  <2> QED BY <2>2 DEF plan
<1>2. CASE ~RecoversStart(op, req)
  <2>1. ValidStart(req)
    BY <1>2 DEF Accepts
  <2>2. Free /\ req.stage = run.stage /\ run \in RunStates /\ run.stage \in Stages /\ Kind(run.stage) \in {"worker", "review"}
    BY <2>1 DEF Free, ValidStart, Kind, Typed, None
  <2>3. CASE HostBudgetExceeded(run)
    <3>1. plan = HostBudgetBlock(run)
      BY <1>2, <2>3 DEF StartPlan
    <3> QED BY <3>1, <2>2, BudgetPlanBegins DEF Free
  <2>4. CASE ~HostBudgetExceeded(run) /\ EntriesExceeded(i, run.stage)
    <3>1. plan = Then(<<Emit("budget_exceeded")>>, Block(i, "iterations"))
      BY <1>2, <2>2, <2>4 DEF StartPlan
    <3>2. i \in RunStates
      BY <2>2 DEF RunStates
    <3>3. EntryMayBlock(Blocked(i, "iterations"))
      BY <2>2 DEF EntryMayBlock, Blocked, Counted, RunStates
    <3> HIDE DEF plan, i
    <3>4. plan.writes \in SaveThen(Blocked(i, "iterations")) /\ plan.reply = "blocked" /\ Blocked(i, "iterations") \in RunStates
      BY <3>1, <3>2, BudgetBlockWrites, BlockWrites DEF Reasons
    <3>5. Moving(plan.writes)
      BY <3>3, <3>4 DEF Moving, MayMove
    <3> QED BY <3>4, <3>5 DEF StageWork, plan
  <2>5. CASE ~HostBudgetExceeded(run) /\ ~EntriesExceeded(i, run.stage)
    <3>1. plan = OpenWorker(i, run.stage)
      BY <1>2, <2>2, <2>5 DEF StartPlan
    <3>2. Opening(plan.writes) /\ plan.reply = "ok"
      BY <3>1, <2>2, OpenPlan
    <3> QED BY <3>2 DEF StageWork
  <2> QED BY <2>3, <2>4, <2>5
<1> QED BY <1>1, <1>2

-----------------------------------------------------------------------------
(* A close begins where the invariant has it *)

\* applyWorkerOutcome saves the block of a violation, or the run without its worker.
LEMMA WorkerOutcomeWrites ==
  ASSUME NEW r \in RunStates, r.status = "active", NEW blocks \in BOOLEAN
  PROVE  /\ blocks => ApplyWorkerOutcome(r, blocks).writes \in SaveThen(Blocked(r, "policy"))
                      /\ Blocked(r, "policy") \in RunStates
         /\ ~blocks => ApplyWorkerOutcome(r, blocks).writes \in SaveThen([r EXCEPT !.active = NoWorker])
                       /\ [r EXCEPT !.active = NoWorker] \in RunStates
         /\ ApplyWorkerOutcome(r, blocks).reply \in {"ok", "blocked"}
<1> DEFINE c == [r EXCEPT !.active = NoWorker]
<1>1. c \in RunStates
  BY DEF RunStates
<1> HIDE DEF c
<1>2. <<SaveState(c)>> \in SaveThen(c)
  <2>1. SaveState(c) \in Saves(c)
    BY <1>1, SaveWrites
  <2>2. <<SaveState(c)>> \o <<>> \in SaveThen(c)
    BY <2>1, SoonCons, RestProperties, WriteSets DEF SaveThen
  <2> QED BY <2>2
<1>3. CASE blocks
  <2>1. ApplyWorkerOutcome(r, blocks) = Block(r, "policy")
    BY <1>3 DEF ApplyWorkerOutcome
  <2> QED BY <1>3, <2>1, BlockWrites DEF Reasons
<1>4. CASE ~blocks
  <2>1. ApplyWorkerOutcome(r, blocks) = Plan(<<SaveState(c)>>, "ok")
    BY <1>4 DEF ApplyWorkerOutcome, c
  <2> QED BY <1>1, <1>2, <1>4, <2>1 DEF Plan, c
<1> QED BY <1>3, <1>4

\* What a reviewer's close makes of the run r at stage s.
Decides(x, r, s, blocks, verdict) ==
  \/ blocks /\ x = Blocked(r, "policy")
  \/ ~blocks /\ \E why \in Reasons : x = Blocked([r EXCEPT !.active = NoWorker], why)
  \/ ~blocks /\ verdict = "approved" /\ x = Gone([r EXCEPT !.active = NoWorker], s, Workflow[s].next)
  \/ /\ ~blocks /\ verdict = "needs_fixes" /\ ~ReviewsExceeded(r, s)
     /\ x = Gone([r EXCEPT !.active = NoWorker], s, Workflow[s].onFixes)

\* The same of applyReviewOutcome, which may leave the stage.
LEMMA ReviewOutcomeWrites ==
  ASSUME NEW r \in RunStates, r.status = "active", NEW s \in Stages, r.stages[s] # "done", NEW blocks \in BOOLEAN, NEW verdict
  PROVE  /\ \E x \in RunStates : Decides(x, r, s, blocks, verdict) /\ ApplyReviewOutcome(r, s, blocks, verdict).writes \in SaveThen(x)
         /\ ApplyReviewOutcome(r, s, blocks, verdict).reply \in {"ok", "blocked"}
<1> DEFINE c == [r EXCEPT !.active = NoWorker]
           plan == ApplyReviewOutcome(r, s, blocks, verdict)
<1>1. c \in RunStates
  BY DEF RunStates
<1>2. Workflow[s].next \in Stages \cup {NoStage} /\ Workflow[s].onFixes \in Stages \cup {NoStage}
  BY WorkflowFacts DEF StageFacts
<1> HIDE DEF c
<1>3. CASE blocks
  <2>1. plan = Block(r, "policy")
    BY <1>3 DEF ApplyReviewOutcome
  <2> HIDE DEF plan
  <2>2. plan.writes \in SaveThen(Blocked(r, "policy")) /\ Blocked(r, "policy") \in RunStates /\ plan.reply = "blocked"
    BY <2>1, BlockWrites DEF Reasons
  <2> QED BY <1>3, <2>2 DEF Decides, plan
<1>4. ASSUME ~blocks, NEW why \in Reasons, plan = Block(c, why)
      PROVE  (\E x \in RunStates : Decides(x, r, s, blocks, verdict) /\ plan.writes \in SaveThen(x)) /\ plan.reply = "blocked"
  <2> HIDE DEF plan
  <2>1. plan.writes \in SaveThen(Blocked(c, why)) /\ Blocked(c, why) \in RunStates /\ plan.reply = "blocked"
    BY <1>1, <1>4, BlockWrites
  <2>2. Decides(Blocked(c, why), r, s, blocks, verdict)
    BY <1>4 DEF Decides, c
  <2> QED BY <2>1, <2>2
<1>5. CASE ~blocks /\ verdict \notin {"approved", "needs_fixes"}
  <2>1. plan = Block(c, "verdict")
    BY <1>5 DEF ApplyReviewOutcome, c
  <2> QED BY <1>4, <1>5, <2>1 DEF Reasons
<1>6. CASE ~blocks /\ verdict = "needs_fixes" /\ ReviewsExceeded(r, s)
  <2>1. plan = Block(c, "reviews")
    BY <1>6 DEF ApplyReviewOutcome, c
  <2> QED BY <1>4, <1>6, <2>1 DEF Reasons
<1>7. CASE ~blocks /\ verdict = "approved"
  <2>1. plan = Plan(Advance(c, s, Workflow[s].next), "ok")
    BY <1>7 DEF ApplyReviewOutcome, c
  <2>2. Decides(Gone(c, s, Workflow[s].next), r, s, blocks, verdict)
    BY <1>7 DEF Decides, c
  <2> HIDE DEF plan
  <2>3. plan.writes = Advance(c, s, Workflow[s].next) /\ plan.reply = "ok"
    BY <2>1 DEF Plan
  <2>4. plan.writes \in SaveThen(Gone(c, s, Workflow[s].next)) /\ Gone(c, s, Workflow[s].next) \in RunStates
    BY <1>1, <1>2, <2>3, AdvanceWrites
  <2> QED BY <2>2, <2>3, <2>4 DEF plan
<1>8. CASE ~blocks /\ verdict = "needs_fixes" /\ ~ReviewsExceeded(r, s)
  <2>1. plan = Plan(Advance(c, s, Workflow[s].onFixes), "ok")
    BY <1>8 DEF ApplyReviewOutcome, c
  <2>2. Decides(Gone(c, s, Workflow[s].onFixes), r, s, blocks, verdict)
    BY <1>8 DEF Decides, c
  <2> HIDE DEF plan
  <2>3. plan.writes = Advance(c, s, Workflow[s].onFixes) /\ plan.reply = "ok"
    BY <2>1 DEF Plan
  <2>4. plan.writes \in SaveThen(Gone(c, s, Workflow[s].onFixes)) /\ Gone(c, s, Workflow[s].onFixes) \in RunStates
    BY <1>1, <1>2, <2>3, AdvanceWrites
  <2> QED BY <2>2, <2>3, <2>4 DEF plan
<1> QED BY <1>3, <1>5, <1>6, <1>7, <1>8

\* The close of the host's latest call, asked for again: what it recorded is applied
\* to the run as that close left it.
LEMMA RetriedCloseBegins ==
  ASSUME Typed, Agreement, Committed, NEW op, op = Len(calls), calls[op].kind \in {"complete", "review"}
  PROVE  /\ ClosePlan(op, calls[op]).writes \in Rest \/ Saving(ClosePlan(op, calls[op]).writes)
         /\ ClosePlan(op, calls[op]).reply \in {"ok", "blocked"}
<1> DEFINE req == calls[op]
           id == req.worker
           blocks == workers[id].blocks
           s == StageOf(id)
           plan == ClosePlan(op, req)
           cleared == [run EXCEPT !.active = NoWorker]
<1>1. /\ op \in Ops /\ op \in DOMAIN calls /\ op # Anonymous /\ Done(id) /\ workers[id].closeOp = op
      /\ run \in RunStates /\ id \in DOMAIN workers /\ id \in Ids /\ blocks \in BOOLEAN /\ s \in Stages
      /\ Kind(s) \in {"worker", "review"}
  <2>1. op \in Nat /\ op >= 1 /\ op <= MaxOps /\ MaxOps \in Nat
    BY BoundsAssumption DEF Committed, Pending, Typed
  <2>2. Done(id) /\ workers[id].closeOp = op
    BY DEF Committed
  <2>3. id \in DOMAIN workers /\ id \in Ids /\ workers[id] \in WorkerFiles
    BY <2>2 DEF Done, Has, Typed
  <2>4. s \in Stages
    BY <2>3, IdFacts
  <2>5. Kind(s) \in {"worker", "review"}
    BY <2>3 DEF Agreement, WorkersAreCounted
  <2> QED BY <2>1, <2>2, <2>3, <2>4, <2>5 DEF Ops, Anonymous, Typed, WorkerFiles
<1>2. ResumesCommitted(op, req)
  BY <1>1 DEF ResumesCommitted
<1>3. /\ run.active \in {NoWorker, id}
      /\ \/ id = Entry /\ run.stages[run.stage] = "active" /\ s = run.stage /\ run.status # "completed"
         \/ run.active = NoWorker /\ run.stages[s] = "done" /\ ~blocks
  <2>1. /\ run.active \in {NoWorker, id}
        /\ \/ id = Entry /\ run.stages[run.stage] = "active"
           \/ run.active = NoWorker /\ run.stages[s] = "done" /\ ~blocks
    BY DEF Agreement, CommittedIsCurrent
  <2>2. id = Entry => s = run.stage
    BY IdFacts DEF Entry
  <2>3. s = run.stage => run.status # "completed"
    BY <1>1 DEF Agreement, CompletedAtTheEnd
  <2> QED BY <2>1, <2>2, <2>3
<1> HIDE DEF id, blocks, s, req
<1>4. CASE run.status = "blocked"
  <2>1. plan = Answer(run)
    BY <1>2, <1>4 DEF ClosePlan, ApplyWorkerOutcome, ApplyReviewOutcome
  <2> QED BY <2>1, AnswerBegins DEF req
<1>5. ASSUME NEW x \in RunStates, MayBecome(x), plan.writes \in SaveThen(x)
      PROVE  Saving(plan.writes)
  BY <1>5 DEF Saving
<1>6. run.status # "blocked" => MayBecome(cleared) \/ blocks
  <2>1. cleared.status = run.status /\ cleared.active = NoWorker /\ cleared.stages = run.stages /\ Kept(cleared)
    BY <1>1 DEF Kept, RunStates
  <2> HIDE DEF cleared
  <2>2. run.active = NoWorker => MayStay(cleared)
    BY <2>1 DEF MayStay
  <2>3. run.status = "active" /\ run.active = id /\ ~blocks => MayApply(cleared)
    BY <1>1, <2>1, IdFacts DEF MayApply, Applies, ClosedClean, blocks
  <2>4. run.active = id => run.status = "active"
    BY <1>1, IdFacts DEF Agreement, ActiveIsTheLatest
  <2> QED BY <1>3, <2>2, <2>3, <2>4 DEF MayBecome
<1>7. blocks /\ run.status # "blocked" => MayBecome(Blocked(run, "policy")) /\ run.status = "active"
  <2>1. blocks /\ run.status # "blocked" => run.status = "active"
    BY <1>1, <1>3 DEF RunStates
  <2> QED BY <1>1, <2>1 DEF MayBecome, MayBlock, Blocks, Says, Kept, Blocked, RunStates
<1>8. CASE run.status # "blocked" /\ req.kind # "review"
  <2>1. plan = ApplyWorkerOutcome(run, blocks)
    BY <1>2, <1>8 DEF ClosePlan, blocks, id
  <2> HIDE DEF plan
  <2>2. CASE run.status = "active"
    BY <1>1, <1>5, <1>6, <1>7, <1>8, <2>1, <2>2, WorkerOutcomeWrites DEF plan, req
  <2>3. CASE run.status = "completed"
    <3>1. ~blocks /\ cleared \in RunStates
      BY <1>1, <1>3, <2>3 DEF RunStates
    <3>2. plan = Plan(<<SaveState(cleared)>>, "ok")
      BY <2>1, <2>3, <3>1 DEF ApplyWorkerOutcome
    <3>3. MayBecome(cleared)
      BY <1>6, <1>8, <3>1
    <3> HIDE DEF cleared
    <3>4. <<SaveState(cleared)>> \o <<>> \in SaveThen(cleared)
      BY <3>1, SaveWrites, SoonCons, RestProperties, WriteSets DEF SaveThen
    <3>5. plan.writes = <<SaveState(cleared)>> \o <<>> /\ plan.reply = "ok"
      BY <3>2 DEF Plan
    <3> QED BY <1>5, <3>1, <3>3, <3>4, <3>5 DEF plan, req
  <2> QED BY <1>1, <1>8, <2>2, <2>3 DEF RunStates
<1>9. CASE run.status # "blocked" /\ req.kind = "review"
  <2> DEFINE verdict == Verdict(run.iterations[s])
  <2>1. plan = ApplyReviewOutcome(run, s, blocks, verdict)
    BY <1>2, <1>9 DEF ClosePlan, blocks, id, s
  <2>2. Kind(s) = "review"
    BY <1>1, <1>9 DEF Agreement, CallsNameTheirWorker, req, id, s
  <2> HIDE DEF plan, verdict
  <2>3. CASE run.stages[s] = "done"
    <3>1. ~blocks
      BY <1>1, <1>3, <2>3
    <3>2. plan = Plan(<<SaveState(cleared)>>, "ok") /\ cleared \in RunStates
      BY <1>1, <1>9, <2>1, <2>3, <3>1 DEF ApplyReviewOutcome, RunStates
    <3>3. MayBecome(cleared)
      BY <1>6, <1>9, <3>1
    <3> HIDE DEF cleared
    <3>4. <<SaveState(cleared)>> \o <<>> \in SaveThen(cleared)
      BY <3>2, SaveWrites, SoonCons, RestProperties, WriteSets DEF SaveThen
    <3>5. plan.writes = <<SaveState(cleared)>> \o <<>> /\ plan.reply = "ok"
      BY <3>2 DEF Plan
    <3> QED BY <1>5, <3>2, <3>3, <3>4, <3>5 DEF plan, req
  <2>4. CASE run.stages[s] # "done"
    <3>1. id = Entry /\ run.stages[run.stage] = "active" /\ s = run.stage /\ run.status = "active"
      BY <1>1, <1>3, <1>9, <2>4 DEF RunStates
    <3>2. plan.reply \in {"ok", "blocked"}
      BY <1>1, <2>1, <2>4, <3>1, ReviewOutcomeWrites
    <3>3. PICK x \in RunStates : Decides(x, run, s, blocks, verdict) /\ plan.writes \in SaveThen(x)
      BY <1>1, <2>1, <2>4, <3>1, ReviewOutcomeWrites
    <3>4. MayBecome(x)
      <4>1. CASE blocks
        BY <1>7, <1>9, <3>3, <4>1 DEF Decides
      <4>2. CASE ~blocks /\ \E why \in Reasons : x = Blocked(cleared, why)
        <5>1. Blocks(x)
          BY <1>1, <4>2 DEF Blocks, Kept, Blocked, RunStates
        <5>2. Says(x)
          BY <1>1, <1>3, <4>2, IdFacts DEF Says, blocks, Done, Has, Typed
        <5> QED BY <3>1, <5>1, <5>2 DEF MayBecome, MayBlock
      <4>3. CASE ~blocks /\ \E next : x = Gone(cleared, s, next) /\
                     \/ verdict = "approved" /\ next = Workflow[s].next
                     \/ verdict = "needs_fixes" /\ ~ReviewsExceeded(run, s) /\ next = Workflow[s].onFixes
        <5>1. ASSUME NEW next PROVE Leaves(Gone(cleared, s, next), next)
          BY <1>1, <3>1 DEF Leaves, Gone, RunStates
        <5>2. ReviewLeaves(x, verdict)
          <6> HIDE DEF cleared
          <6> QED BY <4>3, <5>1, <3>1 DEF ReviewLeaves
        <5>3. ClosedClean(Entry)
          BY <1>1, <3>1, <4>3 DEF ClosedClean, blocks
        <5> QED BY <1>3, <2>2, <3>1, <5>2, <5>3 DEF MayBecome, ReviewMayLeave, verdict
      <4> QED BY <3>3, <4>1, <4>2, <4>3 DEF Decides
    <3> QED BY <1>5, <3>2, <3>3, <3>4 DEF plan, req
  <2> QED BY <2>3, <2>4
<1> QED BY <1>4, <1>8, <1>9 DEF req

\* A sequence that has its write of A, and one that may follow quiet writes.
LEMMA AheadThen ==
  ASSUME NEW P \in SUBSET Writes, NEW A \in SUBSET Writes, NEW T \in SUBSET Seq(Writes),
         \A h \in Rest, u \in T : h \o u \in T, NEW s \in Ahead(P, A, Rest), NEW t \in T
  PROVE  s \o t \in Ahead(P, A, T)
<1>1. \A h \in Rest : h \o t \in T
  OBVIOUS
<1>2. t \in Seq(Writes) /\ Rest \in SUBSET Seq(Writes)
  BY WriteSets
<1> QED BY <1>1, <1>2, AheadAppend

\* A phase continued by another that tolerates quiet writes in front.
LEMMA SoonThen ==
  ASSUME NEW A \in SUBSET Writes, NEW T \in SUBSET Seq(Writes),
         \A h \in Rest, u \in T : h \o u \in T, NEW s \in Soon(A, Rest), NEW t \in T
  PROVE  s \o t \in Soon(A, T)
BY AheadThen, WriteSets DEF Soon

\* persistWorkerResult to trackMutations: the report is among quiet writes, and those
\* of the artifact that the stage owns.
LEMMA EvidenceWrites ==
  ASSUME NEW id \in Ids, NEW r \in RunStates, NEW req, req.artifact \in Artifacts \cup {None},
         req.artifact # None => OwnsArtifact(Workflow[StageOf(id)]), Change(id) \in Changes
  PROVE  Evidence(id, r, req) \in AuditThen(id, Change(id), Rest)
<1> DEFINE P == Quiets \cup OwnWrites(StageOf(id))
           A == Sets("report", id, Change(id))
           a == <<Write("file", "result")>>
           b == IF req.tokens > 0 THEN <<Emit("token_usage")>> ELSE <<>>
           c == IF req.artifact # None THEN SaveArtifact(id, r, req.artifact) ELSE <<>>
           w == Checked(Keyed("report", id, Change(id)))
           e == Emit("mutation_tracked")
           d == IF Change(id) = "sensitive" THEN <<Emit("sensitive_mutation")>> ELSE <<>>
<1>1. StageOf(id) \in Stages
  BY IdFacts
<1>2. P \in SUBSET Writes /\ A \in SUBSET Writes /\ Quiets \subseteq P
  BY WriteSets
<1>3. a \in Seq(P)
  BY QuietWrites DEF Files
<1>4. b \in Seq(P)
  <2>1. Emit("token_usage") \in P
    BY QuietWrites DEF Events
  <2> HIDE DEF P
  <2> QED BY <2>1, EmptySeq
<1>5. c \in Seq(P)
  <2>1. CASE req.artifact # None
    <3> DEFINE owned == Workflow[StageOf(id)].artifact
               u == Hard(Keyed("artifact", owned, [file |-> req.artifact, by |-> id]))
               v == Hard(Keyed("meta", owned, <<id, r.iterations[StageOf(id)]>>))
    <3>1. owned \in ArtifactNames
      BY <1>1, <2>1, WorkflowFacts DEF StageFacts, OwnsArtifact
    <3>2. req.artifact \in Qualities /\ r.iterations[StageOf(id)] \in Nat
      BY <1>1, EnvironmentAssumption DEF Qualities, RunStates
    <3>3. u \in ArtifactWrites /\ u.key = owned
      BY <3>1, <3>2 DEF ArtifactWrites, Sort, Modes, Hard, Keyed, Write
    <3>4. v \in ArtifactWrites /\ v.key = owned
      BY <3>1, <3>2 DEF ArtifactWrites, Sort, Modes, Hard, Keyed, Write, Entries
    <3> HIDE DEF u, v
    <3>5. u \in P /\ v \in P /\ Emit("artifact_saved") \in P
      BY <2>1, <3>3, <3>4, QuietWrites DEF OwnWrites, Events
    <3>6. c = <<u, v, Emit("artifact_saved")>>
      BY <2>1 DEF SaveArtifact, u, v
    <3> HIDE DEF P, c
    <3>7. <<u, v, Emit("artifact_saved")>> \in Seq(P)
      BY <3>5
    <3> QED BY <3>6, <3>7
  <2>2. CASE req.artifact = None
    BY <2>2, EmptySeq
  <2> QED BY <2>1, <2>2
<1>6. w \in A /\ e \in Quiets
  BY KeyedWrites, QuietWrites DEF Events
<1>7. d \in Rest
  <2>1. Emit("sensitive_mutation") \in Quiets
    BY QuietWrites DEF Events
  <2> QED BY <2>1, RestProperties
<1>8. Evidence(id, r, req) = (((a \o b) \o c) \o <<w, e>>) \o d
  BY DEF Evidence
<1> HIDE DEF P, A, a, b, c, w, e, d
<1>9. (a \o b) \o c \in Seq(P)
  BY <1>3, <1>4, <1>5, ConcatProperties
<1>10. <<w, e>> \in Ahead(P, A, Rest)
  <2>1. <<w, e>> = <<w>> \o <<e>> /\ <<e>> \in Rest
    BY <1>2, <1>6, Two, WriteSets, RestProperties
  <2> QED BY <1>2, <1>6, <2>1, AheadCons, WriteSets
<1>11. ((a \o b) \o c) \o <<w, e>> \in Ahead(P, A, Rest)
  <2> HIDE DEF Rest
  <2> DEFINE h == (a \o b) \o c
             s == <<w, e>>
  <2> HIDE DEF h, s
  <2>1. h \o s \in Ahead(P, A, Rest)
    BY <1>2, <1>9, <1>10, AheadPrefix, WriteSets DEF h, s
  <2> QED BY <2>1 DEF h, s
<1>12. (((a \o b) \o c) \o <<w, e>>) \o d \in Ahead(P, A, Rest)
  <2> DEFINE s == ((a \o b) \o c) \o <<w, e>>
  <2>1. \A h \in Rest, u \in Rest : h \o u \in Rest
    BY RestProperties
  <2>2. s \in Ahead(P, A, Rest) /\ Rest \in SUBSET Seq(Writes)
    BY <1>11, WriteSets
  <2> HIDE DEF s
  <2>3. s \o d \in Ahead(P, A, Rest)
    BY <1>2, <1>7, <2>1, <2>2, AheadThen
  <2> QED BY <2>3 DEF s
<1> QED BY <1>8, <1>12 DEF AuditThen, P, A

\* commitWorkerClose and the outcome, behind the evidence.
LEMMA CommitWrites ==
  ASSUME NEW id \in Ids, NEW op \in 0 .. MaxOps, NEW blocks \in BOOLEAN, NEW audited \in BOOLEAN
  PROVE  CommitClose(op, id, blocks, audited) \in Soon(Sets("worker", id, WorkerStatus("done", op, blocks)), Rest)
<1> DEFINE file == WorkerStatus("done", op, blocks)
           close == Keyed("worker", id, file)
           w == IF audited THEN Checked(close) ELSE close
           A == Sets("worker", id, file)
           e == Checked(Emit("worker_finished"))
<1>1. file \in WorkerFiles
  BY DEF WorkerStatus, WorkerFiles
<1>2. CommitClose(op, id, blocks, audited) = <<w, e>>
  BY DEF CommitClose
<1> HIDE DEF file
<1>3. w \in A /\ e \in Quiets
  BY <1>1, KeyedWrites, QuietWrites DEF Events
<1>4. A \in SUBSET Writes
  BY WriteSets
<1> HIDE DEF w, e, A
<1>5. <<w, e>> \in Soon(A, Rest)
  BY <1>3, <1>4, SoonPair
<1> QED BY <1>2, <1>5 DEF A, file

\* A close is its evidence, then the status file, then what the run makes of it.
LEMMA CloseWrites ==
  ASSUME NEW id \in Ids, NEW op \in 0 .. MaxOps, NEW blocks \in BOOLEAN, NEW audited \in BOOLEAN, NEW change,
         NEW r, NEW o \in SaveThen(r), NEW evidence \in AuditThen(id, change, Rest)
  PROVE  (evidence \o CommitClose(op, id, blocks, audited)) \o o
           \in AuditThen(id, change, CloseThen(id, op, blocks, r))
<1> DEFINE P == Quiets \cup OwnWrites(StageOf(id))
           A == Sets("report", id, change)
           B == Sets("worker", id, WorkerStatus("done", op, blocks))
           c == CommitClose(op, id, blocks, audited)
           T == Soon(B, Rest)
           U == Soon(B, SaveThen(r))
<1>1. P \in SUBSET Writes /\ A \in SUBSET Writes /\ B \in SUBSET Writes /\ Rest \in SUBSET Seq(Writes)
  BY WriteSets
<1>2. T \in SUBSET Seq(Writes) /\ U \in SUBSET Seq(Writes) /\ SaveThen(r) \in SUBSET Seq(Writes)
  BY AheadType, WriteSets DEF Soon
<1>3. c \in T /\ evidence \in Ahead(P, A, Rest)
  BY CommitWrites DEF AuditThen
<1> HIDE DEF P, A, B, c
<1>4. \A h \in Rest, u \in T : h \o u \in T
  BY <1>1, SoonPrefix
<1>5. \A h \in Rest, u \in SaveThen(r) : h \o u \in SaveThen(r)
  BY <1>1, SoonPrefix, WriteSets DEF SaveThen
<1>6. \A u \in T : u \o o \in U
  BY <1>1, <1>2, <1>5, SoonThen
<1> HIDE DEF T, U
<1>7. evidence \o c \in Ahead(P, A, T)
  BY <1>1, <1>2, <1>3, <1>4, AheadThen
<1>8. (evidence \o c) \o o \in Ahead(P, A, U)
  BY <1>1, <1>2, <1>6, <1>7, AheadAppend
<1> QED BY <1>8 DEF AuditThen, CloseThen, P, A, B, U, c

\* The same with the verdict between the evidence and the close.
LEMMA VoteWrites ==
  ASSUME NEW id \in Ids, NEW op \in 0 .. MaxOps, NEW audited \in BOOLEAN, NEW change,
         NEW r, NEW o \in SaveThen(r), NEW evidence \in AuditThen(id, change, Rest),
         NEW x \in RunStates, NEW s \in Stages, NEW req, req.verdict \in Verdicts
  PROVE  ((evidence \o PersistVerdict(x, s, req)) \o CommitClose(op, id, FALSE, audited)) \o o
           \in AuditThen(id, change, VoteThen(x.iterations[s], req.verdict, id, op, r))
<1> DEFINE n == x.iterations[s]
           P == Quiets \cup OwnWrites(StageOf(id))
           A == Sets("report", id, change)
           V == Sets("verdict", n, req.verdict)
           B == Sets("worker", id, WorkerStatus("done", op, FALSE))
           v == PersistVerdict(x, s, req)
           c == CommitClose(op, id, FALSE, audited)
           S == Soon(V, Rest)
           T == Soon(V, Soon(B, Rest))
           U == Soon(V, Soon(B, SaveThen(r)))
<1>1. P \in SUBSET Writes /\ A \in SUBSET Writes /\ B \in SUBSET Writes /\ V \in SUBSET Writes /\ Rest \in SUBSET Seq(Writes)
  BY WriteSets
<1>2. /\ S \in SUBSET Seq(Writes) /\ T \in SUBSET Seq(Writes) /\ U \in SUBSET Seq(Writes)
      /\ Soon(B, Rest) \in SUBSET Seq(Writes) /\ Soon(B, SaveThen(r)) \in SUBSET Seq(Writes) /\ SaveThen(r) \in SUBSET Seq(Writes)
  BY AheadType, WriteSets DEF Soon
<1>3. c \in Soon(B, Rest) /\ evidence \in Ahead(P, A, Rest)
  <2>1. FALSE \in BOOLEAN
    OBVIOUS
  <2> QED BY <2>1, CommitWrites, Zenon DEF AuditThen
<1>4. v \in S
  <2> DEFINE w == Checked(Hard(Keyed("verdict", n, req.verdict)))
             e == Emit("review_completed")
  <2>1. n \in Nat
    BY DEF RunStates
  <2>2. v = <<w, e>>
    BY DEF PersistVerdict
  <2> HIDE DEF n
  <2>3. w \in V /\ e \in Quiets
    BY <2>1, KeyedWrites, QuietWrites DEF Events
  <2> HIDE DEF w, e, V, v
  <2> QED BY <1>1, <2>2, <2>3, SoonPair
<1> HIDE DEF P, A, B, V, c, v, n
<1>5. \A h \in Rest, u \in S : h \o u \in S
  BY <1>1, SoonPrefix
<1>6. \A h \in Rest, u \in Soon(B, Rest) : h \o u \in Soon(B, Rest)
  BY <1>1, SoonPrefix
<1>7. \A h \in Rest, u \in SaveThen(r) : h \o u \in SaveThen(r)
  BY <1>1, SoonPrefix, WriteSets DEF SaveThen
<1>8. \A u \in S : u \o c \in T
  BY <1>1, <1>2, <1>3, <1>6, SoonThen
<1>9. \A u \in Soon(B, Rest) : u \o o \in Soon(B, SaveThen(r))
  BY <1>1, <1>2, <1>7, SoonThen
<1>10. \A u \in T : u \o o \in U
  <2> DEFINE X == Soon(B, Rest)
             Y == Soon(B, SaveThen(r))
  <2>1. X \in SUBSET Seq(Writes) /\ Y \in SUBSET Seq(Writes) /\ \A u \in X : u \o o \in Y
    BY <1>2, <1>9
  <2> HIDE DEF X, Y
  <2>2. o \in Seq(Writes) /\ Quiets \in SUBSET Writes
    BY <1>2, WriteSets
  <2>3. \A u \in Soon(V, X) : u \o o \in Soon(V, Y)
    BY <1>1, <2>1, <2>2, AheadAppend DEF Soon
  <2> QED BY <2>3 DEF X, Y
<1> HIDE DEF S, T, U
<1>11. evidence \o v \in Ahead(P, A, S)
  BY <1>1, <1>2, <1>3, <1>4, <1>5, AheadThen
<1>12. (evidence \o v) \o c \in Ahead(P, A, T)
  BY <1>1, <1>2, <1>3, <1>8, <1>11, AheadAppend
<1>13. ((evidence \o v) \o c) \o o \in Ahead(P, A, U)
  BY <1>1, <1>2, <1>10, <1>12, AheadAppend
<1> QED BY <1>13 DEF AuditThen, VoteThen, CloseThen, P, A, B, V, U, c, v, n

\* A first close: audit, verdict, close and outcome, in this order.
LEMMA CloseBegins ==
  ASSUME Typed, Agreement, NEW op \in 0 .. MaxOps, NEW req \in Asks, req.kind \in {"complete", "review"},
         req.kind = "review" => req.artifact = None, ValidClose(req)
  PROVE  /\ CloseWork(AuditAndClose(op, req).writes, op)
         /\ AuditAndClose(op, req).reply \in {"ok", "blocked"}
<1> DEFINE id == req.worker
           s == StageOf(id)
           blocks == Violates(s, Change(id))
           r == [run EXCEPT !.tokens = @ + req.tokens]
           votes == req.kind = "review" /\ ~blocks
           evidence == Evidence(id, r, req)
           outcome == IF req.kind = "review" THEN ApplyReviewOutcome(r, s, blocks, req.verdict)
                                             ELSE ApplyWorkerOutcome(r, blocks)
           plan == AuditAndClose(op, req)
<1>1. run.active = id /\ Running(id) /\ id \in Ids /\ run \in RunStates /\ id \in DOMAIN workers
  BY DEF ValidClose, Running, Has, Typed
<1>2. /\ s = run.stage /\ s \in Stages /\ run.status = "active" /\ run.stages[s] = "active" /\ run.active = Entry
      /\ Kind(s) \in {"worker", "review"}
  <2>1. /\ run.status = "active" /\ run.active = Entry /\ run.stages[run.stage] = "active"
        /\ Kind(run.stage) \in {"worker", "review"}
    BY <1>1, IdFacts DEF Agreement, ActiveIsTheLatest
  <2>2. s = run.stage
    BY <1>1, <2>1, IdFacts DEF Entry
  <2> QED BY <1>1, <2>1, <2>2, IdFacts
<1>3. Change(id) \in Changes
  BY DEF Typed, Change, Changes
<1>4. blocks \in BOOLEAN /\ blocks = Judgement
  <2>1. Workflow[s].readOnly \in BOOLEAN
    BY <1>2, WorkflowFacts DEF StageFacts
  <2> QED BY <1>1, <1>2, <2>1 DEF Violates, Judgement
<1>5. r \in RunStates /\ r.status = "active" /\ r.stages = run.stages /\ r.iterations = run.iterations /\ Kept(r)
  BY <1>1, <1>2 DEF RunStates, Kept, Asks
<1>6. req.artifact \in Artifacts \cup {None} /\ (req.artifact # None => OwnsArtifact(Workflow[s]))
  BY DEF ValidClose, Asks
<1>7. req.kind = "review" => Kind(s) = "review" /\ req.verdict \in Verdicts
  BY DEF ValidClose, Asks
<1>8. plan = Then((evidence \o (IF votes THEN PersistVerdict(r, s, req) ELSE <<>>)) \o CommitClose(op, id, blocks, ~votes), outcome)
  BY DEF AuditAndClose
<1>9. votes \in BOOLEAN /\ (~votes) \in BOOLEAN
  BY <1>4
<1> HIDE DEF id, s, r, evidence, outcome, plan, blocks
<1>10. evidence \in AuditThen(id, Change(id), Rest)
  BY <1>1, <1>3, <1>5, <1>6, EvidenceWrites DEF evidence, s
<1>11. /\ outcome.reply \in {"ok", "blocked"}
       /\ \E x \in RunStates : /\ Outcome(x, blocks, req.verdict) /\ outcome.writes \in SaveThen(x)
                               /\ ~votes => \A verdict : Outcome(x, blocks, verdict)
  <2>1. CASE req.kind # "review"
    <3>1. outcome = ApplyWorkerOutcome(r, blocks)
      BY <2>1 DEF outcome
    <3>2. outcome.reply \in {"ok", "blocked"}
      BY <1>4, <1>5, <3>1, WorkerOutcomeWrites
    <3>3. CASE blocks
      <4>1. outcome.writes \in SaveThen(Blocked(r, "policy")) /\ Blocked(r, "policy") \in RunStates
        BY <1>4, <1>5, <3>1, <3>3, WorkerOutcomeWrites
      <4>2. \A verdict : Outcome(Blocked(r, "policy"), blocks, verdict)
        BY <1>5, <3>3 DEF Outcome, Blocks, Blocked, Kept, RunStates
      <4> QED BY <3>2, <4>1, <4>2
    <3>4. CASE ~blocks
      <4> DEFINE c == [r EXCEPT !.active = NoWorker]
      <4>1. outcome.writes \in SaveThen(c) /\ c \in RunStates
        BY <1>4, <1>5, <3>1, <3>4, WorkerOutcomeWrites
      <4>2. \A verdict : Outcome(c, blocks, verdict)
        BY <1>5, <3>4 DEF Outcome, Applies, Kept, RunStates
      <4> QED BY <3>2, <4>1, <4>2
    <3> QED BY <3>3, <3>4
  <2>2. CASE req.kind = "review"
    <3>1. outcome = ApplyReviewOutcome(r, s, blocks, req.verdict) /\ r.stages[s] # "done"
      BY <1>2, <1>5, <2>2 DEF outcome
    <3>2. outcome.reply \in {"ok", "blocked"}
      BY <1>2, <1>4, <1>5, <3>1, ReviewOutcomeWrites
    <3>3. PICK x \in RunStates : Decides(x, r, s, blocks, req.verdict) /\ outcome.writes \in SaveThen(x)
      BY <1>2, <1>4, <1>5, <3>1, ReviewOutcomeWrites
    <3>4. Outcome(x, blocks, req.verdict) /\ (blocks => \A verdict : Outcome(x, blocks, verdict))
      <4> DEFINE c == [r EXCEPT !.active = NoWorker]
      <4>1. CASE blocks /\ x = Blocked(r, "policy")
        BY <1>5, <4>1 DEF Outcome, Blocks, Blocked, Kept, RunStates
      <4>2. CASE ~blocks /\ \E why \in Reasons : x = Blocked(c, why)
        <5>1. Blocks(x)
          BY <1>5, <4>2 DEF Blocks, Blocked, Kept, RunStates
        <5> QED BY <1>2, <1>7, <2>2, <4>2, <5>1 DEF Outcome
      <4>3. CASE ~blocks /\ \E next : x = Gone(c, s, next) /\
                     \/ req.verdict = "approved" /\ next = Workflow[s].next
                     \/ req.verdict = "needs_fixes" /\ ~ReviewsExceeded(r, s) /\ next = Workflow[s].onFixes
        <5>1. ASSUME NEW next PROVE Leaves(Gone(c, s, next), next)
          BY <1>1, <1>2, <1>5 DEF Leaves, Gone, Kept, RunStates
        <5>2. ReviewsExceeded(r, s) = ReviewsExceeded(run, run.stage)
          BY <1>2, <1>5 DEF ReviewsExceeded
        <5>3. ReviewLeaves(x, req.verdict)
          <6> HIDE DEF c
          <6> QED BY <4>3, <5>1, <5>2, <1>2 DEF ReviewLeaves
        <5> QED BY <1>2, <1>7, <2>2, <4>3, <5>3 DEF Outcome
      <4> QED BY <3>3, <4>1, <4>2, <4>3 DEF Decides
    <3> QED BY <2>2, <3>2, <3>3, <3>4
  <2> QED BY <2>1, <2>2
<1>12. PICK x \in RunStates : /\ Outcome(x, blocks, req.verdict) /\ outcome.writes \in SaveThen(x)
                              /\ ~votes => \A verdict : Outcome(x, blocks, verdict)
  BY <1>11
<1>13. CASE votes
  <2> DEFINE v == PersistVerdict(r, s, req)
             c == CommitClose(op, id, FALSE, ~votes)
             todo == ((evidence \o v) \o c) \o outcome.writes
  <2>1. plan = Then((evidence \o v) \o c, outcome)
    <3>1. blocks = FALSE
      BY <1>4, <1>13
    <3>2. CommitClose(op, id, blocks, ~votes) = c
      BY <3>1
    <3> HIDE DEF c, votes
    <3> QED BY <1>8, <1>13, <3>2
  <2>2. todo \in AuditThen(id, Change(id), VoteThen(r.iterations[s], req.verdict, id, op, x))
    <3> HIDE DEF votes
    <3>1. req.verdict \in Verdicts
      BY <1>7, <1>13 DEF votes
    <3> QED BY <1>1, <1>2, <1>5, <1>9, <1>10, <1>12, <3>1, VoteWrites, ZenonT(30)
  <2> HIDE DEF v, c
  <2>3. plan.writes = todo /\ plan.reply = outcome.reply
    BY <2>1, ThenWrites
  <2> HIDE DEF todo
  <2>4. Outcome(x, FALSE, req.verdict)
    <3>1. blocks = FALSE
      BY <1>4, <1>13
    <3> QED BY <1>12, <3>1
  <2>5. VoteAuditing(todo, op)
    BY <1>1, <1>2, <1>4, <1>5, <1>7, <1>13, <2>2, <2>4, Zenon DEF VoteAuditing
  <2> QED BY <1>11, <2>3, <2>5 DEF CloseWork, plan
<1>14. CASE ~votes
  <2> DEFINE c == CommitClose(op, id, blocks, ~votes)
             todo == (evidence \o c) \o outcome.writes
  <2>1. plan = Then((evidence \o <<>>) \o c, outcome)
    <3> HIDE DEF votes
    <3> QED BY <1>8, <1>14
  <2>2. evidence \o <<>> = evidence
    <3>1. evidence \in Seq(Writes)
      BY <1>10, WriteSets
    <3> QED BY <3>1, ConcatEmptySeq
  <2>3. todo \in AuditThen(id, Change(id), CloseThen(id, op, blocks, x))
    <3> HIDE DEF votes
    <3> QED BY <1>1, <1>4, <1>9, <1>10, <1>12, CloseWrites, Zenon
  <2> HIDE DEF c
  <2>4. plan.writes = todo /\ plan.reply = outcome.reply
    BY <2>1, <2>2, ThenWrites
  <2> HIDE DEF todo
  <2>5. Outcome(x, blocks, CurrentVerdict)
    BY <1>12, <1>14
  <2>6. Auditing(todo, op)
    BY <1>1, <1>4, <1>12, <2>3, <2>5, Zenon DEF Auditing
  <2> QED BY <1>11, <2>4, <2>6 DEF CloseWork, plan
<1> QED BY <1>13, <1>14

-----------------------------------------------------------------------------
(* A resume begins where the invariant has it *)

\* A plain event or save of a resume only warns when it fails.
LEMMA LooseWrites ==
  ASSUME NEW P, \A w \in P : [w EXCEPT !.mode = "loose"] \in P, NEW plan \in Seq(P)
  PROVE  Loose(plan) \in Seq(P)
<1>1. Len(plan) \in Nat /\ DOMAIN plan = 1 .. Len(plan) /\ \A i \in 1 .. Len(plan) : plan[i] \in P
  BY LenProperties, ElementOfSeq
<1>2. Loose(plan) \in [1 .. Len(plan) -> P]
  BY <1>1 DEF Loose
<1> QED BY <1>1, <1>2, SeqDef

\* A loose write is of the same kind as a strict one.
LEMMA LooseKinds ==
  /\ \A w \in Quiets : [w EXCEPT !.mode = "loose"] \in Quiets
  /\ \A r : \A w \in Saves(r) : [w EXCEPT !.mode = "loose"] \in Saves(r)
  /\ \A ids : \A w \in Cancels(ids) : [w EXCEPT !.mode = "loose"] \in Cancels(ids)
<1>1. \A w \in Quiets : [w EXCEPT !.mode = "loose"] \in Quiets
  BY DEF Quiets, Sort, Modes
<1>2. ASSUME NEW w \in Writes
      PROVE  /\ [w EXCEPT !.mode = "loose"] \in Writes /\ [w EXCEPT !.mode = "loose"].do = w.do
             /\ [w EXCEPT !.mode = "loose"].key = w.key /\ [w EXCEPT !.mode = "loose"].to = w.to
  BY DEF Writes, Quiets, ArtifactWrites, Sort, Modes
<1>3. \A r : \A w \in Saves(r) : [w EXCEPT !.mode = "loose"] \in Saves(r)
  BY <1>2 DEF Saves, Sets
<1>4. \A ids : \A w \in Cancels(ids) : [w EXCEPT !.mode = "loose"] \in Cancels(ids)
  BY <1>2 DEF Cancels
<1> QED BY <1>1, <1>3, <1>4

\* A worker that is given up is written as canceled.
LEMMA CancelWrites ==
  ASSUME Typed, NEW ids \in SUBSET DOMAIN workers, NEW id \in ids
  PROVE  Hard(Keyed("worker", id, [workers[id] EXCEPT !.status = "canceled"])) \in Cancels(ids \cap {id})
<1> DEFINE file == [workers[id] EXCEPT !.status = "canceled"]
<1>1. file \in WorkerFiles /\ file.status = "canceled" /\ id \in Ids
  <2>1. id \in DOMAIN workers /\ id \in Ids /\ workers[id] \in WorkerFiles
    BY DEF Typed
  <2> QED BY <2>1 DEF WorkerFiles
<1> HIDE DEF file
<1>2. Hard(Keyed("worker", id, file)) \in Sets("worker", id, file)
  BY <1>1, KeyedWrites
<1> QED BY <1>1, <1>2 DEF Cancels, Sets, file

\* resolveDrift without --accept-changes: the run stops, or stays stopped, for another reason.
LEMMA DriftBlockBegins ==
  ASSUME Typed, Agreement, run.status # "completed", Drifted
  PROVE  Relapsing(DriftBlock.writes) /\ DriftBlock.reply = "blocked"
<1> DEFINE r == Blocked(run, "drift")
           P == Quiets \cup Cancels({}) \cup Saves(r)
           a == Emit("workspace_drift")
           b == SaveState(r)
           c == Checked(Emit("run_blocked"))
           L(w) == [w EXCEPT !.mode = "loose"]
<1>1. r \in RunStates /\ run \in RunStates
  BY BlockWrites DEF Typed, Reasons
<1>2. MayBlock(r) \/ MayStay(r)
  <2>1. PICK id \in Unreported : run.active = id \/ run.status = "blocked"
    BY DEF Drifted, Agreement, NoChangeIsSwallowed
  <2>2. CASE run.status = "blocked"
    <3>1. run.active = NoWorker
      BY <2>2 DEF Agreement, ActiveIsTheLatest
    <3> QED BY <1>1, <2>2, <3>1 DEF MayStay, Kept, Blocked, RunStates
  <2>3. CASE run.status # "blocked" /\ run.active = id
    <3>1. ~Done(id)
      BY <2>1 DEF Unreported, Agreement, ClosesAreAudited, Change, Done, Has
    <3>2. run.status = "active"
      BY <1>1, <2>3 DEF RunStates
    <3> QED BY <1>1, <2>3, <3>1, <3>2 DEF MayBlock, Blocks, Says, Kept, Blocked, RunStates
  <2> QED BY <2>1, <2>2, <2>3
<1> HIDE DEF r
<1>3. L(a) \in P /\ L(b) \in Saves(r) /\ L(c) \in Quiets
  BY <1>1, LooseKinds, QuietWrites, SaveWrites DEF Events
<1>4. DriftBlock.writes = Loose(<<a>> \o <<b, c>>) /\ DriftBlock.reply = "blocked"
  BY DEF DriftBlock, Block, Plan, r
<1>5. Loose(<<a>> \o <<b, c>>) = <<L(a), L(b), L(c)>>
  <2>1. a \in Writes /\ b \in Writes /\ c \in Writes
    BY <1>1, QuietWrites, SaveWrites, WriteSets DEF Events
  <2>2. <<a>> \o <<b, c>> = <<a, b, c>>
    BY <2>1, Three
  <2> HIDE DEF a, b, c
  <2> QED BY <2>2 DEF Loose
<1> HIDE DEF a, b, c, L
<1>6. <<L(a), L(b), L(c)>> \in Ahead(P, Saves(r), Rest)
  <2> DEFINE x == L(a)
             y == L(b)
             z == L(c)
  <2>1. x \in P /\ y \in Saves(r) /\ z \in Quiets /\ x \in Writes /\ y \in Writes /\ z \in Writes /\ P \in SUBSET Writes
    BY <1>3, WriteSets
  <2> HIDE DEF x, y, z, P
  <2>2. <<x, y, z>> = <<x>> \o <<y, z>> /\ <<y, z>> = <<y>> \o <<z>> /\ <<z>> \in Rest /\ <<x>> \in Seq(P)
    <3>1. <<x, y, z>> = <<x>> \o <<y, z>> /\ <<y, z>> = <<y>> \o <<z>>
      <4>1. x \in Writes /\ y \in Writes /\ z \in Writes
        BY <2>1
      <4>2. <<x, y, z>> = <<x>> \o <<y, z>>
        BY <4>1, Three
      <4> QED BY <4>1, <4>2, Two
    <3>2. <<z>> \in Rest
      BY <2>1, RestProperties
    <3>3. <<x>> \in Seq(P)
      BY <2>1
    <3> QED BY <3>1, <3>2, <3>3
  <2>3. <<y, z>> \in Ahead(P, Saves(r), Rest)
    BY <2>1, <2>2, AheadCons, WriteSets
  <2>4. <<x, y, z>> \in Ahead(P, Saves(r), Rest)
    <3> DEFINE v == <<x>>
               u == <<y, z>>
    <3>1. v \in Seq(P) /\ u \in Ahead(P, Saves(r), Rest) /\ <<x, y, z>> = v \o u
      BY <2>2, <2>3
    <3> HIDE DEF v, u
    <3>2. v \o u \in Ahead(P, Saves(r), Rest)
      BY <2>1, <3>1, AheadPrefix, WriteSets
    <3> QED BY <3>1, <3>2
  <2> QED BY <2>4 DEF x, y, z
<1>7. Undone({})
  BY DEF Undone
<1> QED BY <1>1, <1>2, <1>4, <1>5, <1>6, <1>7 DEF Relapsing, P

\* The workers that a resume finds running are the ones it gives up.
Given == {id \in DOMAIN workers : Running(id)}

\* Only workers that are still running are given up.
LEMMA GivenUndone ==
  Given \in SUBSET DOMAIN workers /\ Undone(Given)
BY DEF Given, Undone, Running, Done, Has

\* reconcileInterruptedWorkers: it cancels workers, says so, and judges a legacy close.
LEMMA ReconcileWrites ==
  ASSUME Typed, NEW r \in RunStates, NEW P, Quiets \subseteq P, Cancels(Given) \subseteq P,
         LegacyViolation => Saves(Blocked(r, "policy")) \subseteq P,
         P \subseteq Writes, NEW id \in DOMAIN workers
  PROVE  /\ Reconcile(r, id) \in Seq(P)
         /\ Running(id) => Reconcile(r, id) \in Ahead(P, Cancels(Given \cap {id}), Seq(P))
<1>1. CASE Running(id)
  <2> DEFINE w == Hard(Keyed("worker", id, [workers[id] EXCEPT !.status = "canceled"]))
             e == Loose(<<Emit("worker_interrupted")>>)
             A == Cancels(Given \cap {id})
  <2>1. w \in A
    BY <1>1, CancelWrites, GivenUndone DEF Given
  <2>2. e \in Seq(P)
    <3>1. <<Emit("worker_interrupted")>> \in Seq(Quiets)
      BY QuietWrites DEF Events
    <3>2. e \in Seq(Quiets)
      BY <3>1, LooseWrites, LooseKinds
    <3> QED BY <3>2, SeqMonotonic
  <2>3. Reconcile(r, id) = <<w>> \o e
    <3>1. ~LegacyClose(id)
      BY <1>1 DEF Running, LegacyClose, Done, Has
    <3> HIDE DEF w, e
    <3> QED BY <1>1, <3>1 DEF Reconcile, w, e
  <2>4. A \subseteq P /\ A \in SUBSET Writes
    BY WriteSets DEF Cancels
  <2> HIDE DEF w, e, A
  <2>5. <<w>> \o e \in Seq(P)
    BY <2>1, <2>2, <2>4, ConcatProperties
  <2>6. <<w>> \o e \in Ahead(P, A, Seq(P))
    <3>1. Seq(P) \in SUBSET Seq(Writes)
      BY SeqMonotonic
    <3> QED BY <2>1, <2>2, <2>4, <3>1, AheadCons
  <2> QED BY <2>3, <2>5, <2>6 DEF A
<1>2. CASE ~Running(id) /\ LegacyClose(id)
  <2> DEFINE e == Emit("legacy_worker_reconciled")
             b == SaveState(Blocked(r, "policy"))
             c == Checked(Emit("run_blocked"))
  <2>1. Reconcile(r, id) = Loose(<<e>> \o (IF LegacyViolation THEN Block(r, "policy").writes ELSE <<>>))
    BY <1>2 DEF Reconcile
  <2>2. e \in Quiets /\ c \in Quiets /\ b \in Saves(Blocked(r, "policy"))
    BY QuietWrites, SaveWrites, BlockWrites DEF Events, Reasons
  <2>3. Block(r, "policy").writes = <<b, c>>
    BY DEF Block, Plan
  <2> HIDE DEF e, b, c
  <2>4. CASE LegacyViolation
    <3> DEFINE Q == Quiets \cup Saves(Blocked(r, "policy"))
    <3>1. <<e>> \o <<b, c>> \in Seq(Q)
      <4>1. <<e>> \in Seq(Q) /\ <<b, c>> \in Seq(Q)
        BY <2>2
      <4> QED BY <4>1, ConcatProperties
    <3>2. \A w \in Q : [w EXCEPT !.mode = "loose"] \in Q
      BY LooseKinds
    <3>3. Q \subseteq P
      BY <2>4
    <3> HIDE DEF Q
    <3>4. Loose(<<e>> \o <<b, c>>) \in Seq(P)
      BY <3>1, <3>2, <3>3, LooseWrites, SeqMonotonic
    <3> QED BY <1>2, <2>1, <2>3, <2>4, <3>4
  <2>5. CASE ~LegacyViolation
    <3>1. <<e>> \o <<>> \in Seq(Quiets)
      BY <2>2
    <3>2. Loose(<<e>> \o <<>>) \in Seq(P)
      BY <3>1, LooseWrites, LooseKinds, SeqMonotonic
    <3> QED BY <1>2, <2>1, <2>5, <3>2
  <2> QED BY <2>4, <2>5
<1>3. CASE ~Running(id) /\ ~LegacyClose(id)
  <2>1. Reconcile(r, id) = <<>>
    BY <1>3 DEF Reconcile
  <2> QED BY <1>3, <2>1, EmptySeq
<1> QED BY <1>1, <1>2, <1>3

\* reconcileInterruptedWorkers gives up the running workers, the active one among them.
LEMMA ReconcileAllWrites ==
  ASSUME Typed, NEW r \in RunStates, NEW P, Quiets \subseteq P, Cancels(Given) \subseteq P,
         LegacyViolation => Saves(Blocked(r, "policy")) \subseteq P, P \subseteq Writes
  PROVE  /\ ReconcileAll(r) \in Seq(P)
         /\ Running(run.active) => ReconcileAll(r) \in Ahead(P, Cancels(Given \cap {run.active}), Seq(P))
<1> DEFINE D == DOMAIN workers
           order == SetToSeq(D)
           ss == [i \in DOMAIN order |-> Reconcile(r, order[i])]
<1>1. IsFiniteSet(D)
  BY IdFacts, FS_Subset DEF Typed
<1>2. order \in Seq(D) /\ \A d \in D : \E i \in 1 .. Len(order) : order[i] = d
  BY <1>1, SetToSeqType
<1> HIDE DEF order
<1>3. DOMAIN order = 1 .. Len(order) /\ Len(order) \in Nat /\ \A i \in 1 .. Len(order) : order[i] \in D
  BY <1>2, LenProperties, ElementOfSeq
<1>4. \A i \in 1 .. Len(order) : ss[i] = Reconcile(r, order[i]) /\ ss[i] \in Seq(P)
  BY <1>3, ReconcileWrites
<1>5. ss \in Seq(Seq(P)) /\ Len(ss) = Len(order)
  <2>1. ss \in [1 .. Len(order) -> Seq(P)]
    BY <1>3, <1>4
  <2> HIDE DEF ss
  <2> QED BY <1>3, <2>1, SeqDef, LenProperties
<1>6. ReconcileAll(r) = FlattenSeq(ss)
  BY DEF ReconcileAll, order
<1> HIDE DEF ss
<1>7. ReconcileAll(r) \in Seq(P)
  BY <1>5, <1>6, FlattenType
<1>8. ASSUME Running(run.active)
      PROVE  ReconcileAll(r) \in Ahead(P, Cancels(Given \cap {run.active}), Seq(P))
  <2> DEFINE A == Cancels(Given \cap {run.active})
  <2>1. run.active \in D
    BY <1>8 DEF Running, Has
  <2>2. PICK k \in 1 .. Len(order) : order[k] = run.active
    BY <1>2, <2>1
  <2>3. ss[k] \in Ahead(P, A, Seq(P))
    BY <1>4, <1>8, <2>1, <2>2, ReconcileWrites
  <2>4. A \in SUBSET P /\ P \in SUBSET Writes
    BY DEF Cancels
  <2> HIDE DEF A
  <2>5. FlattenSeq(ss) \in Ahead(P, A, Seq(P))
    BY <1>5, <2>2, <2>3, <2>4, FlattenAhead
  <2> QED BY <1>6, <2>5 DEF A
<1> QED BY <1>7, <1>8

\* A legacy close that violated the policy is judged again, and stops the run.
LEMMA RelapseBegins ==
  ASSUME Typed, Agreement, LegacyViolation, NEW accept, Drifted => accept
  PROVE  Relapsing(ResumePlan(accept).writes) /\ ResumePlan(accept).reply = "blocked"
<1> DEFINE r == [run EXCEPT !.status = "active", !.why = ""]
           x == Blocked(r, "policy")
           P == Quiets \cup Cancels(Given) \cup Saves(x)
           cfg == <<Hard(Write("file", "config"))>>
           w == Hard(SaveState(x))
           rec == ReconcileAll(r)
<1>1. run \in RunStates /\ r \in RunStates /\ x \in RunStates
  <2>1. run \in RunStates
    BY DEF Typed
  <2>2. r \in RunStates
    BY <2>1 DEF RunStates, Reasons
  <2> HIDE DEF r
  <2> QED BY <2>1, <2>2, BlockWrites DEF Reasons
<1>2. Done(run.active) /\ run.active # NoWorker /\ run.status = "active"
  <2>1. Done(run.active) /\ run.active \in DOMAIN workers
    BY DEF LegacyViolation, LegacyClose, Done, Has
  <2> QED BY <2>1, IdFacts DEF Typed, Agreement, ActiveIsTheLatest
<1>3. ~Drifted
  <2> SUFFICES ASSUME NEW id \in Unreported PROVE FALSE
    BY DEF Drifted
  <2>1. run.active = id
    BY <1>2 DEF Agreement, NoChangeIsSwallowed
  <2> QED BY <1>2, <2>1 DEF Unreported, Agreement, ClosesAreAudited, Change, Done, Has
<1>4. MayBlock(x)
  BY <1>1, <1>2 DEF MayBlock, Blocks, Says, Kept, Blocked, RunStates
<1>5. ResumePlan(accept) = Plan(((<<>> \o rec) \o cfg) \o <<w>>, "blocked")
  BY <1>3 DEF ResumePlan, Rebaseline
<1> HIDE DEF r, x, P, rec
<1>6. Quiets \subseteq P /\ Cancels(Given) \subseteq P /\ Saves(x) \subseteq P /\ P \in SUBSET Writes
  BY WriteSets DEF P
<1>7. rec \in Seq(P)
  BY <1>1, <1>6, ReconcileAllWrites DEF rec, x
<1>8. cfg \in Seq(P) /\ w \in Saves(x)
  BY <1>1, <1>6, QuietWrites, SaveWrites DEF Files
<1> HIDE DEF cfg, w
<1>9. ((<<>> \o rec) \o cfg) \o <<w>> \in Ahead(P, Saves(x), Rest)
  <2> DEFINE h == rec \o cfg
             u == <<w>>
  <2>1. <<>> \o rec = rec /\ h \in Seq(P)
    BY <1>7, <1>8, ConcatEmptySeq, ConcatProperties
  <2>2. u \in Ahead(P, Saves(x), Rest)
    <3>1. <<w>> \o <<>> \in Ahead(P, Saves(x), Rest)
      BY <1>6, <1>8, AheadCons, RestProperties, WriteSets
    <3> QED BY <3>1
  <2> HIDE DEF h, u
  <2>3. h \o u \in Ahead(P, Saves(x), Rest)
    BY <1>6, <2>1, <2>2, AheadPrefix, WriteSets
  <2> QED BY <2>1, <2>3 DEF h, u
<1>10. Relapsing(((<<>> \o rec) \o cfg) \o <<w>>)
  BY <1>1, <1>4, <1>9, GivenUndone DEF Relapsing, P
<1> HIDE DEF w
<1> QED BY <1>5, <1>10 DEF Plan

\* The resume gives up the workers it finds, and rotates the token.
LEMMA ReopenBegins ==
  ASSUME Typed, Agreement, run.status # "completed", ~LegacyViolation, NEW accept, Drifted => accept
  PROVE  Reopening(ResumePlan(accept).writes) /\ ResumePlan(accept).reply = "ok"
<1> DEFINE r == [run EXCEPT !.status = "active", !.why = ""]
           x == [r EXCEPT !.active = NoWorker, !.token = @ + 1]
           id == run.active
           P == Quiets \cup Cancels(Given)
           A == Cancels(Given \cap {id})
           T == RotateThen(Given, x)
           cfg == <<Hard(Write("file", "config"))>>
           e == Hard(Emit("run_resumed"))
           w == Hard(SaveState(x))
           rec == ReconcileAll(r)
           tail == rec \o (cfg \o <<e, w>>)
<1>1. run \in RunStates /\ r \in RunStates /\ x \in RunStates
  <2>1. run \in RunStates
    BY DEF Typed
  <2>2. r \in RunStates /\ r.token \in Nat
    BY <2>1 DEF RunStates, Reasons
  <2> HIDE DEF r
  <2>3. NoWorker \in Ids \cup {NoWorker} /\ r.token + 1 \in Nat
    BY <2>2
  <2>4. x \in RunStates
    <3> HIDE DEF NoWorker
    <3> QED BY <2>2, <2>3 DEF RunStates
  <2> QED BY <2>1, <2>2, <2>4
<1>2. Reopens(x)
  <2>1. Done(id) /\ workers[id].blocks => workers[id].closeOp # Anonymous
    <3> SUFFICES ASSUME Done(id), workers[id].blocks, workers[id].closeOp = Anonymous PROVE FALSE
      OBVIOUS
    <3>1. id \in DOMAIN workers
      BY DEF Done, Has
    <3>2. reports[id] = Change(id) /\ workers[id].blocks = Violates(StageOf(id), Change(id))
      BY <3>1 DEF Agreement, ClosesAreAudited
    <3> QED BY <3>2 DEF LegacyViolation, LegacyClose
  <2> QED BY <1>1, <2>1 DEF Reopens, RunStates
<1>3. ResumePlan(accept) = Plan(((Rebaseline \o rec) \o cfg) \o <<e, w>>, "ok")
  BY DEF ResumePlan, Rotate
<1> HIDE DEF r, x, P, rec, A, T
<1>4. Quiets \subseteq P /\ Cancels(Given) \subseteq P /\ P \in SUBSET Writes /\ A \in SUBSET P /\ T \in SUBSET Seq(Writes)
  BY WriteSets DEF P, A, T, Cancels
<1>5. rec \in Seq(P) /\ (Running(id) => rec \in Ahead(P, A, Seq(P)))
  BY <1>1, <1>4, ReconcileAllWrites DEF rec, A
<1>6. cfg \in Seq(P) /\ e \in P /\ w \in Saves(x)
  BY <1>1, <1>4, QuietWrites, SaveWrites DEF Files, Events
<1> HIDE DEF cfg, e, w, tail
<1>7. T = Ahead(P, Saves(x), {<<>>})
  BY DEF T, P, RotateThen
<1>8. {<<>>} \in SUBSET Seq(Writes) /\ Saves(x) \in SUBSET Writes /\ Seq(P) \in SUBSET Seq(Writes)
  BY <1>4, WriteSets, EmptySeq, SeqMonotonic
<1>9. cfg \o <<e, w>> \in T
  <2> DEFINE u == <<w>>
             v == <<e>>
             y == <<e, w>>
             N == {<<>>}
  <2>1. y = v \o u /\ v \in Seq(P)
    <3>1. e \in Writes /\ w \in Writes
      BY <1>4, <1>6, <1>8
    <3> QED BY <1>6, <3>1, Two
  <2>2. <<w>> \o <<>> \in T
    <3> HIDE DEF N
    <3>1. <<>> \in N /\ N \in SUBSET Seq(Writes)
      BY <1>8 DEF N
    <3>2. <<w>> \o <<>> \in Ahead(P, Saves(x), N)
      BY <1>4, <1>6, <1>8, <3>1, AheadCons
    <3> QED BY <1>7, <3>2 DEF N
  <2>3. u \in T
    BY <2>2
  <2> HIDE DEF u, v, y, N
  <2>4. \A h \in Seq(P), s \in T : h \o s \in T
    <3>1. N \in SUBSET Seq(Writes) /\ T = Ahead(P, Saves(x), N)
      BY <1>7, <1>8 DEF N
    <3> QED BY <1>4, <1>8, <3>1, AheadPrefix
  <2>5. y \in T
    BY <2>1, <2>3, <2>4
  <2>6. cfg \o y \in T
    BY <1>6, <2>4, <2>5
  <2> QED BY <2>6 DEF y
<1>10. \A h \in Seq(P), s \in T : h \o s \in T
  <2> DEFINE N == {<<>>}
  <2>1. N \in SUBSET Seq(Writes) /\ T = Ahead(P, Saves(x), N)
    BY <1>7, <1>8
  <2> HIDE DEF N
  <2> QED BY <1>4, <1>8, <2>1, AheadPrefix
<1>11. tail \in T /\ (Running(id) => tail \in GiveUpThen(id, Given, x))
  <2> DEFINE t == cfg \o <<e, w>>
  <2>1. t \in T /\ tail = rec \o t /\ t \in Seq(Writes)
    BY <1>4, <1>9 DEF tail
  <2> HIDE DEF t
  <2>2. \A s \in Seq(P) : s \o t \in T
    BY <1>10, <2>1
  <2>3. rec \o t \in T
    BY <1>5, <2>2
  <2>4. Running(id) => rec \o t \in Ahead(P, A, T)
    BY <1>4, <1>5, <1>8, <2>1, <2>2, AheadAppend
  <2> QED BY <2>1, <2>3, <2>4 DEF GiveUpThen, P, A, T
<1>12. /\ ((Rebaseline \o rec) \o cfg) \o <<e, w>> = Rebaseline \o tail
       /\ Drifted => Rebaseline \o tail \in Soon(Sets("baseline", 0, DOMAIN changed), T)
       /\ Drifted /\ Running(id) => Rebaseline \o tail \in Soon(Sets("baseline", 0, DOMAIN changed), GiveUpThen(id, Given, x))
       /\ ~Drifted => Rebaseline \o tail = tail
  <2> DEFINE B == Sets("baseline", 0, DOMAIN changed)
             b == Hard(Write("baseline", DOMAIN changed))
             q == Loose(<<Emit("workspace_rebaselined")>>)
             u == <<e, w>>
  <2>1. b \in B
    BY KeyedWrites DEF Typed
  <2>2. q \in Rest
    <3>1. <<Emit("workspace_rebaselined")>> \in Seq(Quiets)
      BY QuietWrites DEF Events
    <3> QED BY <3>1, LooseWrites, LooseKinds DEF Rest
  <2>3. IF Drifted THEN Rebaseline = <<b>> \o q ELSE Rebaseline = <<>>
    BY DEF Rebaseline
  <2>4. tail \in Seq(Writes)
    BY <1>4, <1>11
  <2>5. rec \in Seq(Writes) /\ cfg \in Seq(Writes) /\ u \in Seq(Writes)
    <3>1. e \in Writes /\ w \in Writes
      BY <1>4, <1>6, <1>8
    <3>2. u \in Seq(Writes)
      BY <3>1, Two
    <3> QED BY <1>5, <1>6, <1>8, <3>2
  <2>6. B \in SUBSET Writes /\ q \in Seq(Writes)
    BY <2>2, WriteSets
  <2> HIDE DEF B, b, q, u
  <2>7. <<b>> \in Seq(Writes)
    BY <2>1, <2>6
  <2>8. Rebaseline \in Seq(Writes)
    <3>1. CASE Drifted
      BY <2>3, <2>6, <2>7, <3>1, ConcatProperties
    <3>2. CASE ~Drifted
      BY <2>3, <3>2, EmptySeq
    <3> QED BY <3>1, <3>2
  <2>9. ((Rebaseline \o rec) \o cfg) \o u = Rebaseline \o tail
    <3>1. rec \o cfg \in Seq(Writes) /\ Rebaseline \o rec \in Seq(Writes)
      BY <2>5, <2>8, ConcatProperties
    <3>2. (Rebaseline \o rec) \o cfg = Rebaseline \o (rec \o cfg)
      BY <2>5, <2>8, Associative
    <3>3. (Rebaseline \o (rec \o cfg)) \o u = Rebaseline \o ((rec \o cfg) \o u)
      BY <2>5, <2>8, <3>1, Associative
    <3>4. (rec \o cfg) \o u = rec \o (cfg \o u)
      BY <2>5, Associative
    <3> QED BY <3>2, <3>3, <3>4 DEF tail, u
  <2>10. ~Drifted => Rebaseline \o tail = tail
    BY <2>3, <2>4, ConcatEmptySeq
  <2>11. ASSUME Drifted, NEW U \in SUBSET Seq(Writes), \A h \in Rest, s \in U : h \o s \in U, tail \in U
         PROVE  Rebaseline \o tail \in Soon(B, U)
    <3>1. q \o tail \in U
      BY <2>2, <2>11
    <3>2. <<b>> \o (q \o tail) \in Soon(B, U)
      BY <2>1, <2>6, <2>11, <3>1, SoonCons
    <3>3. (<<b>> \o q) \o tail = <<b>> \o (q \o tail)
      BY <2>4, <2>6, <2>7, Associative
    <3> QED BY <2>3, <2>11, <3>2, <3>3
  <2>12. \A h \in Rest, s \in T : h \o s \in T
    <3>1. Rest \subseteq Seq(P)
      BY <1>4, SeqMonotonic DEF Rest
    <3> QED BY <1>10, <3>1
  <2>13. \A h \in Rest, s \in GiveUpThen(id, Given, x) : h \o s \in GiveUpThen(id, Given, x)
    <3>1. Rest \subseteq Seq(P)
      BY <1>4, SeqMonotonic DEF Rest
    <3>2. GiveUpThen(id, Given, x) = Ahead(P, A, T)
      BY DEF GiveUpThen, P, A, T
    <3>3. \A h \in Seq(P), s \in Ahead(P, A, T) : h \o s \in Ahead(P, A, T)
      BY <1>4, AheadPrefix
    <3> QED BY <3>1, <3>2, <3>3
  <2>14. Drifted => Rebaseline \o tail \in Soon(B, T)
    BY <1>4, <1>11, <2>11, <2>12
  <2>15. Drifted /\ Running(id) => Rebaseline \o tail \in Soon(B, GiveUpThen(id, Given, x))
    BY <1>11, <2>11, <2>13, WriteSets
  <2> QED BY <2>9, <2>10, <2>14, <2>15 DEF B, u
<1> DEFINE todo == Rebaseline \o tail
<1>13. ResumePlan(accept).writes = todo /\ ResumePlan(accept).reply = "ok"
  <2>1. ResumePlan(accept) = Plan(todo, "ok")
    BY <1>3, <1>12
  <2> HIDE DEF todo
  <2> QED BY <2>1 DEF Plan
<1>14. Reopening(todo)
  <2>1. CASE Drifted
    <3>1. Rebasing(todo)
      BY <1>1, <1>2, <1>12, <2>1, GivenUndone DEF Rebasing, T
    <3> QED BY <3>1 DEF Reopening
  <2>2. CASE ~Drifted /\ Running(id)
    <3>1. GivingUp(todo)
      BY <1>1, <1>2, <1>11, <1>12, <2>2, GivenUndone DEF GivingUp, Drifted
    <3> QED BY <3>1 DEF Reopening
  <2>3. CASE ~Drifted /\ ~Running(id)
    <3>1. Rotating(todo)
      BY <1>1, <1>2, <1>11, <1>12, <2>3, GivenUndone DEF Rotating, Drifted, T
    <3> QED BY <3>1 DEF Reopening
  <2> QED BY <2>1, <2>2, <2>3
<1> QED BY <1>13, <1>14

\* run resume.
LEMMA ResumeBegins ==
  ASSUME Typed, Agreement, run.status # "completed", NEW accept \in BOOLEAN
  PROVE  /\ \/ Relapsing(ResumePlan(accept).writes)
            \/ Reopening(ResumePlan(accept).writes) /\ ResumePlan(accept).reply = "ok"
         /\ ResumePlan(accept).reply \in {"ok", "blocked"}
<1>1. CASE Drifted /\ ~accept
  <2>1. ResumePlan(accept) = DriftBlock
    BY <1>1 DEF ResumePlan
  <2> QED BY <1>1, <2>1, DriftBlockBegins
<1>2. CASE (Drifted => accept) /\ LegacyViolation
  BY <1>2, RelapseBegins
<1>3. CASE (Drifted => accept) /\ ~LegacyViolation
  BY <1>3, ReopenBegins
<1> QED BY <1>1, <1>2, <1>3

-----------------------------------------------------------------------------
(* A command begins where the invariant has it *)

\* Where an accepted call of a kind may begin.
Begins(kind, op, todo) ==
  \/ todo \in Rest
  \/ Saving(todo)
  \/ CloseWork(todo, op) /\ kind \in {"complete", "review"}
  \/ StageWork(todo) /\ kind \in {"start", "close"}

\* A start or a stage close is a plan.
LEMMA StageWorkType ==
  ASSUME NEW todo, StageWork(todo)
  PROVE  todo \in Seq(Writes)
<1>1. \A A, T : Soon(A, T) \in SUBSET Seq(Writes)
  BY AheadType DEF Soon
<1>2. CASE Moving(todo) \/ Ending(todo) \/ Opening(todo)
  BY <1>2, WriteSets DEF Moving, Ending, Opening
<1>3. CASE Gating(todo)
  BY <1>3, WriteSets DEF Gating
<1>4. CASE GateStarting(todo)
  BY <1>1, <1>4 DEF GateStarting
<1> QED BY <1>2, <1>3, <1>4 DEF StageWork

\* So is the close of a worker,
LEMMA CloseWorkType ==
  ASSUME NEW todo, NEW op, CloseWork(todo, op)
  PROVE  todo \in Seq(Writes)
<1>1. CASE Closing(todo, op)
  BY <1>1, WriteSets DEF Closing
<1>2. CASE Voting(todo, op)
  BY <1>2, WriteSets DEF Voting
<1>3. CASE Auditing(todo, op)
  BY <1>3, WriteSets DEF Auditing
<1>4. CASE VoteAuditing(todo, op)
  BY <1>4, WriteSets DEF VoteAuditing
<1> QED BY <1>1, <1>2, <1>3, <1>4 DEF CloseWork

\* what an accepted request begins,
LEMMA BeginsType ==
  ASSUME NEW kind, NEW op, NEW todo, Begins(kind, op, todo)
  PROVE  todo \in Seq(Writes)
BY StageWorkType, CloseWorkType, WriteSets DEF Begins, Saving

\* and a resume.
LEMMA ReopeningType ==
  ASSUME NEW todo, Relapsing(todo) \/ Reopening(todo)
  PROVE  todo \in Seq(Writes)
<1>1. \A P, A, T : Ahead(P, A, T) \in SUBSET Seq(Writes)
  BY AheadType
<1>2. CASE Relapsing(todo)
  BY <1>1, <1>2 DEF Relapsing
<1>3. CASE Rotating(todo)
  BY <1>3, WriteSets DEF Rotating
<1>4. CASE GivingUp(todo)
  BY <1>4, WriteSets DEF GivingUp
<1>5. CASE Rebasing(todo)
  BY <1>1, <1>5 DEF Rebasing, Soon
<1> QED BY <1>2, <1>3, <1>4, <1>5 DEF Reopening

\* Whatever the host asks for.
LEMMA PlansBegin ==
  ASSUME Typed, Agreement, NEW op \in 0 .. MaxOps, NEW req \in Asks, Accepts(op, req),
         req.kind = "start" => run.agents < MaxWorkers,
         req.kind = "review" => req.artifact = None,
         ResumesCommitted(op, req) => Committed /\ op = Len(calls) /\ req = calls[op],
         NEW plan \in Plans(op, req)
  PROVE  Begins(req.kind, op, plan.writes) /\ plan.reply \in {"ok", "blocked"}
<1>1. CASE req.kind = "start"
  <2>1. plan = StartPlan(op, req)
    BY <1>1 DEF Plans
  <2> QED BY <1>1, <2>1, StartPlanBegins DEF Begins
<1>2. CASE req.kind = "close"
  <2>1. plan \in StagePlans(op, req)
    BY <1>2 DEF Plans
  <2> QED BY <1>2, <2>1, StagePlansBegin DEF Begins
<1>3. CASE req.kind \in {"complete", "review"}
  <2>1. plan = ClosePlan(op, req)
    BY <1>3 DEF Plans
  <2>2. CASE ResumesCommitted(op, req)
    BY <1>3, <2>1, <2>2, RetriedCloseBegins DEF Begins
  <2>3. CASE ~ResumesCommitted(op, req)
    <3>1. plan = AuditAndClose(op, req)
      BY <2>1, <2>3 DEF ClosePlan
    <3>2. ValidClose(req)
      BY <1>3, <2>3 DEF Accepts
    <3> QED BY <1>3, <3>1, <3>2, CloseBegins DEF Begins
  <2> QED BY <2>2, <2>3
<1> QED BY <1>1, <1>2, <1>3 DEF Asks, Kinds

\* recordOp comes last.
LEMMA RecordedPlan ==
  ASSUME NEW kind, NEW op \in 0 .. MaxOps, NEW plan, Begins(kind, op, plan.writes), plan.reply \in {"ok", "blocked"}
  PROVE  Begins(kind, op, WithRecord(op, plan).writes) /\ WithRecord(op, plan).reply \in {"ok", "blocked"}
<1>1. CASE op = Anonymous
  BY <1>1 DEF WithRecord
<1>2. CASE op # Anonymous
  <2> DEFINE e == <<Checked(Hard(Keyed("record", op, plan.reply)))>>
  <2>1. op \in Ops
    BY <1>2 DEF Anonymous, Ops
  <2>2. e \in Rest
    BY <2>1, QuietWrites, RestProperties
  <2>3. WithRecord(op, plan).writes = plan.writes \o e /\ WithRecord(op, plan).reply = plan.reply
    BY <1>2 DEF WithRecord, Plan
  <2> HIDE DEF e
  <2> DEFINE todo == plan.writes
  <2>4. CASE todo \in Rest
    BY <2>2, <2>3, <2>4, RestProperties DEF Begins
  <2>5. CASE Saving(todo)
    BY <2>2, <2>3, <2>5, RecordLastOfClose DEF Begins
  <2>6. CASE CloseWork(todo, op) /\ kind \in {"complete", "review"}
    BY <2>2, <2>3, <2>6, RecordLastOfClose DEF Begins
  <2>7. CASE StageWork(todo) /\ kind \in {"start", "close"}
    BY <2>2, <2>3, <2>7, RecordLastOfStage DEF Begins
  <2> QED BY <2>3, <2>4, <2>5, <2>6, <2>7 DEF Begins
<1> QED BY <1>1, <1>2

\* The events a retry skips are counted.
LEMMA WrittenIsCounted ==
  ASSUME Typed, NEW op
  PROVE  Written(op) \in Nat
<1>1. Len(log) \in Nat /\ DOMAIN log = 1 .. Len(log)
  BY LenProperties DEF Typed
<1>2. IsFiniteSet(DOMAIN log)
  BY <1>1, FS_Interval
<1>3. {i \in DOMAIN log : log[i].op = op} \subseteq DOMAIN log
  OBVIOUS
<1>4. Cardinality({i \in DOMAIN log : log[i].op = op}) \in Nat
  BY <1>2, <1>3, FS_Subset, FS_CardinalityType
<1> QED BY <1>4 DEF Written

\* Begin puts a command in flight.
LEMMA BeginType ==
  ASSUME Typed, NEW op \in 0 .. MaxOps, NEW kind \in Kinds \cup {"resume"}, NEW plan,
         plan.writes \in Seq(Writes), plan.reply \in {"ok", "blocked"}, Begin(op, kind, plan)
  PROVE  /\ cmd' \in InFlight
         /\ cmd'.op = op /\ cmd'.kind = kind /\ cmd'.todo = plan.writes /\ cmd'.reply = plan.reply
BY WrittenIsCounted DEF Begin, InFlight

\* A step the host takes from a phase that the files allow.
LEMMA BegunFits ==
  ASSUME FilesStay, NEW kind, NEW op, NEW reply, NEW todo, Begins(kind, op, todo),
         kind \in {"start", "close"} => ~Committed'
  PROVE  Underway(kind, op, reply, todo)'
<1>1. CASE todo \in Rest
  BY <1>1 DEF Underway
<1>2. CASE Saving(todo)
  BY <1>2, PhasesStay DEF Underway
<1>3. CASE CloseWork(todo, op)
  BY <1>3, PhasesStay DEF Underway, CloseWork
<1>4. CASE StageWork(todo) /\ kind \in {"start", "close"}
  BY <1>4, PhasesStay DEF Underway
<1> QED BY <1>1, <1>2, <1>3, <1>4 DEF Begins

-----------------------------------------------------------------------------
(* The commands *)

\* What the host may ask for.
LEMMA RequestTypes ==
  ASSUME Typed, NEW req \in Requests
  PROVE  /\ req \in Asks
         /\ req.kind \in {"start", "close"} => req.worker = NoWorker
         /\ req.kind = "review" => req.artifact = None
<1>1. run.active \in Ids \cup {NoWorker} /\ Usage \subseteq Nat
  BY EnvironmentAssumption DEF Typed, RunStates
<1>2. ASSUME NEW kind \in {"start", "close"}, NEW s \in Stages, req = Request(kind, s, NoWorker)
      PROVE  req \in Asks /\ req.kind = kind /\ req.worker = NoWorker
  BY <1>2 DEF Request, Asks, Kinds, None
<1>3. ASSUME NEW a \in Artifacts, NEW t \in Usage, req = CompleteRequest(run.active, a, t)
      PROVE  req \in Asks /\ req.kind = "complete"
  BY <1>1, <1>3 DEF CompleteRequest, Request, Asks, Kinds, None
<1>4. ASSUME NEW v \in Verdicts, NEW t \in Usage, req = ReviewRequest(run.active, v, t)
      PROVE  req \in Asks /\ req.kind = "review" /\ req.artifact = None
  BY <1>1, <1>4 DEF ReviewRequest, Request, Asks, Kinds, None
<1> QED BY <1>2, <1>3, <1>4 DEF Requests

\* A reviewer's verdict is taken for a worker of the review stage.
LEMMA ReviewNamesAReviewer ==
  ASSUME NEW op, NEW req, req.kind = "review", Accepts(op, req), ~ResumesCommitted(op, req)
  PROVE  Kind(StageOf(req.worker)) = "review"
BY DEF Accepts, ValidClose

\* A call with an op-id keeps the invariant.
LEMMA CallKeeps ==
  ASSUME HostInv, NEW req \in Requests, Call(req)
  PROVE  HostInv' /\ Promised
<1> DEFINE op == Len(calls) + 1
<1>1. Typed /\ Agreement /\ TokenIsShared /\ AnswersFollowCalls
  BY DEF HostInv
<1>2. /\ UNCHANGED <<run, workers, reports, verdicts, artifacts, gate, log, records, baseline, changed, replies, token, surfaced, spent>>
      /\ cmd = Idle /\ Len(calls) < MaxOps /\ calls' = Append(calls, req) /\ Accepts(op, req)
      /\ req.kind = "start" => run.agents < MaxWorkers
  BY DEF Call, disk
<1>3. PICK plan \in Plans(op, req) : Begin(op, req.kind, WithRecord(op, plan))
  BY DEF Call
<1>4. /\ req \in Asks /\ (req.kind \in {"start", "close"} => req.worker = NoWorker)
      /\ (req.kind = "review" => req.artifact = None)
  BY <1>1, RequestTypes
<1>5. Len(calls) \in Nat /\ op \in 0 .. MaxOps /\ op \in Ops /\ op # Anonymous
  BY <1>1, <1>2, BoundsAssumption DEF Typed, Ops, Anonymous
<1>6. ~ResumesCommitted(op, req)
  BY <1>1, <1>5 DEF ResumesCommitted, Done, Has, Agreement, WorkersAreCounted, Typed, WorkerFiles
<1>7. Begins(req.kind, op, plan.writes) /\ plan.reply \in {"ok", "blocked"}
  <2> HIDE DEF op
  <2> QED BY <1>1, <1>2, <1>4, <1>5, <1>6, PlansBegin
<1>8. Begins(req.kind, op, WithRecord(op, plan).writes) /\ WithRecord(op, plan).reply \in {"ok", "blocked"}
  BY <1>5, <1>7, RecordedPlan
<1>9. cmd' \in InFlight /\ cmd'.op = op /\ cmd'.kind = req.kind /\ cmd'.todo = WithRecord(op, plan).writes
  <2> HIDE DEF op
  <2> QED BY <1>1, <1>3, <1>4, <1>5, <1>8, BeginType, BeginsType DEF Asks
<1>10. Len(calls') = op /\ calls' \in Seq(Asks) /\ DOMAIN calls' = 1 .. op
       /\ calls'[op] = req /\ \A i \in DOMAIN calls : calls'[i] = calls[i]
  BY <1>1, <1>2, <1>4, AppendProperties DEF Typed
<1> HIDE DEF op
<1>11. Pending' /\ ~Committed'
  <2>1. Pending'
    BY <1>1, <1>2, <1>5, <1>10, EmptySeq, LenProperties DEF Pending, AnswersFollowCalls, op
  <2>2. ~Committed'
    BY <1>1, <1>2, <1>5, <1>10 DEF Committed, Done, Has, Agreement, WorkersAreCounted, Typed, WorkerFiles, op
  <2> QED BY <2>1, <2>2
<1>12. Typed'
  BY <1>1, <1>2, <1>5, <1>9, <1>10 DEF Typed
<1>13. Agreement'
  <2>1. /\ ActiveIsTheLatest' /\ OnlyTheCurrentStageIsActive' /\ CompletedAtTheEnd'
        /\ GatesAreNotAhead' /\ VerdictsAreNotAhead'
    BY <1>1, <1>2 DEF Agreement, ActiveIsTheLatest, OnlyTheCurrentStageIsActive, CompletedAtTheEnd, Entry, Kind,
         GatesAreNotAhead, VerdictsAreNotAhead
  <2>2. ClosesAreAudited'
    BY <1>1, <1>2 DEF Agreement, ClosesAreAudited, Done, Has, Change
  <2>3. NoChangeIsSwallowed' /\ ViolationStopsOrIsReconciled'
    BY <1>1, <1>2 DEF Agreement, NoChangeIsSwallowed, ViolationStopsOrIsReconciled, Unreported, Done, Has, Stopped
  <2>4. FixesAreBounded' /\ LeftWithItsArtifact' /\ OwnersAreLeftOnce'
    BY <1>1, <1>2 DEF Agreement, FixesAreBounded, LeftWithItsArtifact, OwnersAreLeftOnce, Verdict
  <2>5. WorkersAreCounted'
    <3> SUFFICES ASSUME NEW id \in DOMAIN workers
                 PROVE  /\ Kind(StageOf(id)) \in {"worker", "review"} /\ id[1] <= run.agents + 1
                        /\ Done(id) => id[1] <= run.agents /\ workers[id].closeOp <= op
      BY <1>2, <1>10 DEF WorkersAreCounted, Kind, Done, Has
    <3>1. workers[id].closeOp \in Nat
      BY <1>1 DEF Typed, WorkerFiles
    <3> QED BY <1>1, <1>5, <3>1 DEF Agreement, WorkersAreCounted, op
  <2>6. CallsNameTheirWorker'
    <3> SUFFICES ASSUME NEW i \in DOMAIN calls'
                 PROVE  /\ calls'[i].kind \in {"start", "close"} => calls'[i].worker = NoWorker
                        /\ calls'[i].kind = "review" => Kind(StageOf(calls'[i].worker)) = "review" /\ calls'[i].artifact = None
      BY DEF CallsNameTheirWorker, Kind
    <3>1. CASE i = op
      BY <1>2, <1>4, <1>6, <1>10, <3>1, ReviewNamesAReviewer
    <3>2. CASE i # op
      <4>1. i \in DOMAIN calls
        BY <1>1, <1>5, <1>10, <3>2, LenProperties DEF Typed, op
      <4> QED BY <1>1, <1>10, <4>1 DEF Agreement, CallsNameTheirWorker
    <3> QED BY <3>1, <3>2
  <2>7. CommittedIsCurrent'
    BY <1>11 DEF CommittedIsCurrent
  <2> QED BY <2>1, <2>2, <2>3, <2>4, <2>5, <2>6, <2>7 DEF Agreement
<1>14. Promised
  BY <1>2 DEF Promised, Promise!vars, WorkerOutcome, Decided, Ready, GatesPassed, Done, Has, Kind, Verdict
<1>15. TokenIsShared'
  BY <1>1, <1>2 DEF TokenIsShared, Rotated, Busy
<1>16. AnswersFollowCalls'
  BY <1>1, <1>2, <1>5, <1>10 DEF AnswersFollowCalls, Ops, op
<1>17. InProgress'
  <2>1. FilesStay
    BY <1>2 DEF FilesStay
  <2>2. \A kind, o, reply, todo :
          Begins(kind, o, todo) => Underway(kind, o, reply, todo)'
    BY <1>11, <2>1, BegunFits
  <2>3. Begins(cmd'.kind, cmd'.op, cmd'.todo)
    BY <1>8, <1>9
  <2>4. Underway(cmd.kind, cmd.op, cmd.reply, cmd.todo)'
    BY <2>2, <2>3
  <2> QED BY <1>9, <1>10, <1>11, <2>4 DEF InProgress
<1> QED BY <1>12, <1>13, <1>14, <1>15, <1>16, <1>17 DEF HostInv

\* An anonymous call: the host gives up the op-id it waited for.
LEMMA CallAnonymouslyKeeps ==
  ASSUME HostInv, NEW req \in Requests, CallAnonymously(req)
  PROVE  HostInv' /\ Promised
<1>1. Typed /\ Agreement /\ TokenIsShared /\ AnswersFollowCalls
  BY DEF HostInv
<1>2. /\ UNCHANGED <<run, workers, reports, verdicts, artifacts, gate, log, records, baseline, changed, calls, token, surfaced, spent>>
      /\ cmd = Idle /\ Accepts(Anonymous, req)
      /\ req.kind = "start" => run.agents < MaxWorkers
  BY DEF CallAnonymously, disk
<1>3. PICK plan \in Plans(Anonymous, req) : Begin(Anonymous, req.kind, plan)
  BY DEF CallAnonymously
<1>4. req \in Asks /\ (req.kind = "review" => req.artifact = None)
  BY <1>1, RequestTypes
<1>5. Anonymous \in 0 .. MaxOps /\ ~ResumesCommitted(Anonymous, req)
  BY BoundsAssumption DEF Anonymous, ResumesCommitted
<1>6. Begins(req.kind, Anonymous, plan.writes) /\ plan.reply \in {"ok", "blocked"}
  BY <1>1, <1>2, <1>4, <1>5, PlansBegin
<1>7. cmd' \in InFlight /\ cmd'.op = Anonymous /\ cmd'.kind = req.kind /\ cmd'.todo = plan.writes
  BY <1>1, <1>3, <1>4, <1>5, <1>6, BeginType, BeginsType DEF Asks
<1>8. replies' \in [Ops -> {None, "ok", "blocked", "error", "dropped"}] /\ ~Pending' /\ AnswersFollowCalls'
  <2>1. CASE Pending
    <3>1. replies' = [replies EXCEPT ![Len(calls)] = "dropped"]
      BY <2>1 DEF CallAnonymously
    <3>2. Len(calls) \in Ops
      BY <1>1, <2>1, BoundsAssumption, LenProperties, EmptySeq DEF Typed, Ops, Pending
    <3> QED BY <1>1, <1>2, <3>1, <3>2 DEF Typed, Pending, AnswersFollowCalls, None
  <2>2. CASE ~Pending
    <3>1. replies' = replies
      BY <2>2 DEF CallAnonymously
    <3> QED BY <1>1, <1>2, <2>2, <3>1 DEF Typed, Pending, AnswersFollowCalls
  <2> QED BY <2>1, <2>2
<1>9. Typed'
  BY <1>1, <1>2, <1>7, <1>8, QuietTyped DEF Typed
<1>10. Agreement' /\ Promised
  BY <1>1, <1>2, <1>8, QuietAgrees DEF Typed
<1>11. TokenIsShared'
  BY <1>1, <1>2 DEF TokenIsShared, Rotated, Busy
<1>12. InProgress'
  <2>1. FilesStay /\ ~Committed'
    BY <1>2, <1>8 DEF FilesStay, Committed
  <2>2. \A kind, o, reply, todo : Begins(kind, o, todo) => Underway(kind, o, reply, todo)'
    BY <2>1, BegunFits
  <2>3. Begins(cmd'.kind, cmd'.op, cmd'.todo)
    BY <1>6, <1>7
  <2>4. Underway(cmd.kind, cmd.op, cmd.reply, cmd.todo)'
    BY <2>2, <2>3
  <2> QED BY <1>7, <2>4 DEF InProgress
<1> QED BY <1>8, <1>9, <1>10, <1>11, <1>12 DEF HostInv

\* The retry of the latest call.
LEMMA RetryKeeps ==
  ASSUME HostInv, NEW op \in Ops, Retry(op)
  PROVE  HostInv' /\ Promised
<1> DEFINE req == calls[op]
<1>1. Typed /\ Agreement /\ TokenIsShared /\ AnswersFollowCalls
  BY DEF HostInv
<1>2. /\ UNCHANGED <<run, workers, reports, verdicts, artifacts, gate, log, records, baseline, changed, calls, replies, token, surfaced, spent>>
      /\ cmd = Idle /\ op = Len(calls) /\ Pending /\ Accepts(op, req)
      /\ req.kind = "start" => run.agents < MaxWorkers
  BY DEF Retry, Retryable, disk, host
<1>3. PICK plan \in Plans(op, req) : Begin(op, req.kind, WithRecord(op, plan))
  BY DEF Retry
<1>4. op \in DOMAIN calls /\ req \in Asks /\ op \in 0 .. MaxOps /\ op # Anonymous
  BY <1>1, <1>2, ElementOfSeq, LenProperties DEF Typed, Ops, Anonymous
<1>5. /\ req.kind \in {"start", "close"} => req.worker = NoWorker
      /\ req.kind = "review" => req.artifact = None
  BY <1>1, <1>4 DEF Agreement, CallsNameTheirWorker
<1>6. ResumesCommitted(op, req) => Committed
  BY <1>2 DEF ResumesCommitted, Committed
<1>7. Begins(req.kind, op, plan.writes) /\ plan.reply \in {"ok", "blocked"}
  <2> DEFINE r == req
  <2>1. r = calls[op] /\ r \in Asks /\ Accepts(op, r) /\ plan \in Plans(op, r)
        /\ (r.kind = "start" => run.agents < MaxWorkers) /\ (r.kind = "review" => r.artifact = None)
        /\ (ResumesCommitted(op, r) => Committed)
    BY <1>2, <1>4, <1>5, <1>6
  <2> HIDE DEF r
  <2>2. Begins(r.kind, op, plan.writes) /\ plan.reply \in {"ok", "blocked"}
    BY <1>1, <1>2, <1>4, <2>1, PlansBegin
  <2> QED BY <2>1, <2>2
<1>8. Begins(req.kind, op, WithRecord(op, plan).writes) /\ WithRecord(op, plan).reply \in {"ok", "blocked"}
  BY <1>4, <1>7, RecordedPlan
<1>9. cmd' \in InFlight /\ cmd'.op = op /\ cmd'.kind = req.kind /\ cmd'.todo = WithRecord(op, plan).writes
  BY <1>1, <1>3, <1>4, <1>8, BeginType, BeginsType DEF Asks
<1>10. req.kind \in {"start", "close"} => ~Committed'
  <2>1. ~Done(NoWorker)
    BY <1>1, IdFacts DEF Typed, Done, Has
  <2> QED BY <1>2, <1>5, <2>1 DEF Committed, Done, Has
<1>11. Typed'
  BY <1>1, <1>2, <1>9, QuietTyped DEF Typed
<1>12. Agreement' /\ Promised
  BY <1>1, <1>2, QuietAgrees DEF Typed, Pending
<1>13. TokenIsShared' /\ AnswersFollowCalls'
  BY <1>1, <1>2 DEF TokenIsShared, Rotated, Busy, AnswersFollowCalls
<1>14. InProgress'
  <2>1. FilesStay
    BY <1>2 DEF FilesStay
  <2>2. \A kind, o, reply, todo :
          Begins(kind, o, todo) /\ (kind \in {"start", "close"} => ~Committed') => Underway(kind, o, reply, todo)'
    BY <2>1, BegunFits
  <2>3. Begins(cmd'.kind, cmd'.op, cmd'.todo)
    BY <1>8, <1>9
  <2>4. Underway(cmd.kind, cmd.op, cmd.reply, cmd.todo)'
    BY <1>9, <1>10, <2>2, <2>3
  <2> QED BY <1>2, <1>9, <2>4 DEF InProgress, Pending
<1> QED BY <1>11, <1>12, <1>13, <1>14 DEF HostInv

\* A resume may begin whatever became of the command before it.
LEMMA ResumeKeeps ==
  ASSUME HostInv, NEW accept \in BOOLEAN, Resume(accept)
  PROVE  HostInv' /\ Promised
<1> DEFINE plan == ResumePlan(accept)
<1>1. Typed /\ Agreement /\ TokenIsShared /\ AnswersFollowCalls
  BY DEF HostInv
<1>2. /\ UNCHANGED <<run, workers, reports, verdicts, artifacts, gate, log, records, baseline, changed, calls, replies, token, surfaced>>
      /\ cmd = Idle /\ run.status # "completed" /\ spent' = [spent EXCEPT !.resumes = @ + 1]
      /\ Begin(Anonymous, "resume", plan)
  BY DEF Resume, disk, host
<1>3. /\ Relapsing(plan.writes) \/ (Reopening(plan.writes) /\ plan.reply = "ok")
      /\ plan.reply \in {"ok", "blocked"}
  BY <1>1, <1>2, ResumeBegins
<1> HIDE DEF plan
<1>4. /\ cmd' \in InFlight /\ cmd'.op = Anonymous /\ cmd'.kind = "resume"
      /\ cmd'.todo = plan.writes /\ cmd'.reply = plan.reply
  <2>1. Anonymous \in 0 .. MaxOps
    BY BoundsAssumption DEF Anonymous
  <2> QED BY <1>1, <1>2, <1>3, <2>1, BeginType, ReopeningType
<1>5. /\ spent' \in [crashes : Nat, failures : Nat, resumes : Nat] /\ spent.resumes \in Nat
      /\ spent'.resumes > 0 /\ spent'.crashes = spent.crashes
  <2>1. spent \in [crashes : Nat, failures : Nat, resumes : Nat]
    BY <1>1 DEF Typed
  <2>2. spent' \in [crashes : Nat, failures : Nat, resumes : Nat] /\ spent'.resumes = spent.resumes + 1 /\ spent'.crashes = spent.crashes
    BY <1>2, <2>1
  <2> QED BY <2>1, <2>2
<1>6. Typed'
  BY <1>1, <1>2, <1>4, <1>5, QuietTyped DEF Typed
<1>7. Agreement' /\ Promised
  BY <1>1, <1>2, <1>5, QuietAgrees DEF Pending
<1>8. TokenIsShared' /\ AnswersFollowCalls'
  BY <1>1, <1>2, <1>5 DEF TokenIsShared, Rotated, Busy, AnswersFollowCalls
<1>9. InProgress'
  <2>1. FilesStay
    BY <1>2, <1>5 DEF FilesStay
  <2>2. \A todo : /\ Relapsing(todo) => Relapsing(todo)'
                  /\ Reopening(todo) => Reopening(todo)'
    BY <2>1, PhasesStay DEF Reopening
  <2>3. Relapsing(cmd.todo)' \/ (Reopening(cmd.todo)' /\ cmd'.reply = "ok")
    BY <1>3, <1>4, <2>2
  <2>4. Underway(cmd.kind, cmd.op, cmd.reply, cmd.todo)'
    BY <1>4, <1>5, <2>3 DEF Underway
  <2> QED BY <1>4, <2>4 DEF InProgress
<1> QED BY <1>6, <1>7, <1>8, <1>9 DEF HostInv

-----------------------------------------------------------------------------
(* The invariant *)

\* A new run is consistent, and promises what it should.
LEMMA InitHolds ==
  ASSUME Init
  PROVE  HostInv /\ Promise!Init
<1>1. /\ workers = <<>> /\ reports = <<>> /\ verdicts = <<>> /\ records = <<>> /\ changed = <<>> /\ calls = <<>> /\ log = <<>>
      /\ cmd = Idle /\ baseline = {} /\ surfaced = {} /\ token = 1 /\ replies = [op \in Ops |-> None]
      /\ spent = [crashes |-> 0, failures |-> 0, resumes |-> 0] /\ gate = [passed |-> FALSE, after |-> 0]
      /\ artifacts = [a \in {"proposal", "plan"} |-> [file |-> None, by |-> NoWorker, meta |-> <<>>]]
      /\ run = [status |-> "active", why |-> "", stage |-> Start, active |-> NoWorker,
                stages |-> [s \in Stages |-> "pending"], iterations |-> [s \in Stages |-> 0],
                agents |-> 0, tokens |-> 0, token |-> 1]
  BY DEF Init
<1> HIDE DEF Init
<1>2. /\ run.active = NoWorker /\ run.status = "active" /\ run.stage = Start /\ run.agents = 0 /\ run.token = 1
      /\ run.stages = [s \in Stages |-> "pending"] /\ run.iterations = [s \in Stages |-> 0]
      /\ gate.after = 0 /\ gate.passed = FALSE /\ spent.resumes = 0 /\ spent.crashes = 0
  BY <1>1
<1>3. DOMAIN <<>> = {} /\ Len(<<>>) = 0
  OBVIOUS
<1>4. /\ DOMAIN workers = {} /\ DOMAIN reports = {} /\ DOMAIN verdicts = {} /\ DOMAIN records = {} /\ DOMAIN changed = {}
      /\ DOMAIN calls = {} /\ Len(calls) = 0
  BY <1>1, <1>3
<1>5. MaxWorkers \in Nat /\ MaxOps \in Nat
  BY BoundsAssumption
<1>6. Start \in Stages /\ Start = "explore"
  BY WorkflowFacts DEF Start
<1>7. run \in RunStates
  <2>1. /\ run.stages \in [Stages -> StageStatus] /\ run.iterations \in [Stages -> Nat]
        /\ 0 \in 0 .. MaxWorkers
    BY <1>2, <1>5 DEF StageStatus
  <2> QED BY <1>1, <1>2, <1>6, <2>1 DEF RunStates, Reasons
<1>8. Typed
  <2>1. \A S : <<>> \in [{} -> S]
    BY <1>3
  <2>2. /\ workers \in [DOMAIN workers -> WorkerFiles] /\ reports \in [DOMAIN reports -> Changes]
        /\ verdicts \in [DOMAIN verdicts -> Verdicts] /\ records \in [DOMAIN records -> {"ok", "blocked"}]
        /\ changed \in [DOMAIN changed -> Edits]
    BY <1>1, <1>4, <2>1
  <2>3. artifacts \in [ArtifactNames -> [file : Qualities, by : Ids \cup {NoWorker}, meta : Entries \cup {<<>>}]]
    BY <1>1 DEF ArtifactNames, Qualities
  <2>4. gate \in GateFiles
    <3>1. 0 \in 0 .. MaxWorkers /\ FALSE \in BOOLEAN
      BY <1>5
    <3> QED BY <1>1, <3>1 DEF GateFiles
  <2>5. log \in Seq([op : 0 .. MaxOps, event : Events, seq : Nat]) /\ calls \in Seq(Asks)
    BY <1>1, EmptySeq
  <2>6. Len(calls) <= MaxOps
    BY <1>4, <1>5
  <2>7. replies \in [Ops -> {None, "ok", "blocked", "error", "dropped"}] /\ token \in Nat
        /\ spent \in [crashes : Nat, failures : Nat, resumes : Nat]
    BY <1>1
  <2> QED BY <1>1, <1>4, <1>7, <2>2, <2>3, <2>4, <2>5, <2>6, <2>7 DEF Typed
<1>9. \A id : ~Done(id) /\ ~Running(id) /\ ~Has(id, "canceled")
  BY <1>4 DEF Done, Running, Has
<1>10. Unreported = {}
  BY <1>4 DEF Unreported
<1>11. \A s \in Stages : run.stages[s] = "pending"
  BY <1>2
<1>12. ActiveIsTheLatest /\ OnlyTheCurrentStageIsActive /\ CompletedAtTheEnd
  BY <1>2, <1>11 DEF ActiveIsTheLatest, OnlyTheCurrentStageIsActive, CompletedAtTheEnd
<1>13. WorkersAreCounted /\ GatesAreNotAhead /\ VerdictsAreNotAhead
  BY <1>2, <1>4 DEF WorkersAreCounted, GatesAreNotAhead, VerdictsAreNotAhead
<1>14. ClosesAreAudited /\ CallsNameTheirWorker /\ CommittedIsCurrent
  BY <1>4, <1>9 DEF ClosesAreAudited, CallsNameTheirWorker, CommittedIsCurrent, Committed, Pending
<1>15. NoChangeIsSwallowed /\ ViolationStopsOrIsReconciled
  BY <1>4, <1>10 DEF NoChangeIsSwallowed, ViolationStopsOrIsReconciled
<1>16. FixesAreBounded /\ LeftWithItsArtifact /\ OwnersAreLeftOnce
  BY <1>2, <1>6, <1>11 DEF FixesAreBounded, LeftWithItsArtifact, OwnersAreLeftOnce
<1>17. TokenIsShared /\ AnswersFollowCalls /\ ~Busy
  BY <1>1, <1>2 DEF TokenIsShared, AnswersFollowCalls, Busy
<1>18. Promise!Init
  <2>1. Decided = None /\ ~Ready /\ ~GatesPassed
    BY <1>2, <1>4, <1>6, <1>9, <1>11, WorkflowFacts DEF Decided, Ready, GatesPassed, Kind
  <2>2. WorkerOutcome = "none"
    BY <1>2, <1>9 DEF WorkerOutcome
  <2>3. (Ready = FALSE) /\ (GatesPassed = FALSE)
    BY <2>1 DEF Ready, GatesPassed
  <2>4. run.stage = "explore"
    BY <1>2, <1>6
  <2> QED BY <1>2, <2>1, <2>2, <2>3, <2>4, Zenon DEF Promise!Init, Promise!Start, None
<1> QED BY <1>8, <1>12, <1>13, <1>14, <1>15, <1>16, <1>17, <1>18 DEF HostInv, Agreement

\* Every step keeps the invariant, and is one the promise allows.
LEMMA NextKeeps ==
  ASSUME HostInv, ~Transient, [Next]_vars
  PROVE  HostInv' /\ Promised
<1>1. CASE Next
  <2>1. ASSUME NEW req \in Requests, Call(req) PROVE HostInv' /\ Promised
    BY <2>1, CallKeeps
  <2>2. ASSUME NEW req \in Requests, CallAnonymously(req) PROVE HostInv' /\ Promised
    BY <2>2, CallAnonymouslyKeeps
  <2>3. ASSUME NEW op \in Ops, RetryCached(op) \/ Retry(op) \/ RetryRejected(op) PROVE HostInv' /\ Promised
    BY <2>3, AnsweredKeeps, RetryKeeps
  <2>4. ASSUME NEW accept \in BOOLEAN, Resume(accept) PROVE HostInv' /\ Promised
    BY <2>4, ResumeKeeps
  <2>5. CASE Step
    BY <2>5, StepKeeps
  <2>6. CASE Report
    BY <2>6, ReportKeeps
  <2>7. CASE Abort
    BY <2>7, AbortKeeps
  <2>8. CASE FailedWrite
    BY <2>8, FailedWriteKeeps
  <2>9. CASE Crash
    BY <2>9, CrashKeeps
  <2>10. ASSUME NEW change \in Edits, AgentEdits(change) PROVE HostInv' /\ Promised
    BY <2>10, AgentEditsKeeps
  <2> QED BY <1>1, <2>1, <2>2, <2>3, <2>4, <2>5, <2>6, <2>7, <2>8, <2>9, <2>10 DEF Next, Commands, Execution
<1>2. CASE UNCHANGED vars
  <2>1. UNCHANGED <<run, workers, reports, verdicts, artifacts, gate, log, records, baseline, changed, cmd, calls, replies, token, surfaced, spent>>
    BY <1>2 DEF vars, disk, host
  <2>2. Typed' /\ Agreement' /\ Promised
    BY <2>1, QuietTyped, QuietAgrees DEF HostInv, Typed, Pending
  <2>3. TokenIsShared' /\ AnswersFollowCalls' /\ Busy' = Busy
    BY <2>1 DEF HostInv, TokenIsShared, AnswersFollowCalls, Rotated, Busy
  <2>4. Busy => InProgress'
    <3>1. FilesStay /\ Committed' = Committed
      BY <2>1 DEF FilesStay, Committed, Pending, Done, Has
    <3>2. \A kind, op, reply, todo : Underway(kind, op, reply, todo) => Underway(kind, op, reply, todo)'
      BY <2>1, <3>1, PhasesStay DEF Underway, CloseWork, Reopening
    <3> QED BY <2>1, <3>2 DEF HostInv, InProgress, Pending
  <2> QED BY <2>2, <2>3, <2>4 DEF HostInv
<1> QED BY <1>1, <1>2

\* The invariant of a run, as long as storage that fails stays down for the rest of
\* the command: every worker, gate, verdict and artifact is where the files say.
THEOREM RunIsConsistent ==
  ASSUME ~Transient
  PROVE  Spec => []HostInv
<1>1. Init => HostInv
  BY InitHolds
<1>2. HostInv /\ [Next]_vars => HostInv'
  BY NextKeeps
<1> QED BY <1>1, <1>2, PTL DEF Spec

-----------------------------------------------------------------------------
(* The invariants *)

\* What the files hold is what the types of the code allow.
THEOREM RunIsTyped ==
  ASSUME ~Transient
  PROVE  Spec => []TypeOK
<1>1. HostInv => TypeOK
  BY DEF HostInv, Typed, TypeOK, RunStates, WorkerFiles, Ops, Anonymous
<1> QED BY <1>1, RunIsConsistent, PTL

\* commitWorkerClose: whatever is killed, fails, is retried or resumed, a worker is
\* closed only on the audit of what its own agent changed.
THEOREM EvidenceIsItsOwn ==
  ASSUME ~Transient
  PROVE  Spec => []ClosedOnItsOwnEvidence
<1>1. HostInv => ClosedOnItsOwnEvidence
  BY DEF HostInv, Agreement, ClosesAreAudited, ClosedOnItsOwnEvidence
<1> QED BY <1>1, RunIsConsistent, PTL

\* applyWorkerOutcome and reconcileLegacyClose: until a resume, and beyond it for a
\* close without an op-id, no violation that closed a worker lets the run go on.
THEOREM ViolationsStopTheRun ==
  ASSUME ~Transient
  PROVE  Spec => []ViolationStopsOrIsReconciled
<1>1. HostInv => ViolationStopsOrIsReconciled
  BY DEF HostInv, Agreement
<1> QED BY <1>1, RunIsConsistent, PTL

\* checkDrift: no change that an agent made gets past the audits unnoticed.
THEOREM ChangesAreAccountedFor ==
  ASSUME ~Transient
  PROVE  Spec => []NoChangeIsSwallowed
<1>1. HostInv => NoChangeIsSwallowed
  BY DEF HostInv, Agreement
<1> QED BY <1>1, RunIsConsistent, PTL

\* decideFromVerdict: a fix follows the verdict of the latest review, and the budget
\* of reviews bounds the fixes, whichever of the two budgets applies.
THEOREM ReviewBudgetBoundsFixes ==
  ASSUME ~Transient
  PROVE  Spec => []FixesAreBounded
<1>1. HostInv => FixesAreBounded
  BY DEF HostInv, Agreement
<1> QED BY <1>1, RunIsConsistent, PTL

\* checkRequiredArtifact: a stage that owes an artifact is not left without it, and a
\* crash between artifact and metadata does not pass for one.
THEOREM ArtifactsAreThere ==
  ASSUME ~Transient
  PROVE  Spec => []LeftWithItsArtifact
<1>1. HostInv => LeftWithItsArtifact
  BY DEF HostInv, Agreement
<1> QED BY <1>1, RunIsConsistent, PTL

\* rotateTokenAndAnnounceResume: a resume that fails leaves the driver its run.
THEOREM DriverKeepsItsRun ==
  ASSUME ~Transient
  PROVE  Spec => []FailedResumeKeepsToken
<1>1. HostInv => FailedResumeKeepsToken
  BY DEF HostInv, TokenIsShared, Rotated, Busy, FailedResumeKeepsToken
<1> QED BY <1>1, RunIsConsistent, PTL

-----------------------------------------------------------------------------
(* The log *)

\* The command in flight has as many events in the log as it has passed, or as its
\* previous attempt left there.
LogIsCounted ==
  Busy /\ cmd.op # Anonymous /\ ~cmd.down =>
    Written(cmd.op) = IF cmd.seq <= cmd.already THEN cmd.already ELSE cmd.seq

LogInv == Coherent /\ LogIsCounted

\* The events of an operation among the first k of a log.
EventsOf(l, op, k) == {j \in 1 .. k : l[j].op = op}

\* An event that carries the next number of its operation leaves the log coherent.
LEMMA AppendCounts ==
  ASSUME Typed, Coherent, NEW e, log' = Append(log, e),
         e.op # Anonymous => e.seq = Written(e.op) + 1
  PROVE  Coherent' /\ (e.op # Anonymous => Written(e.op)' = Written(e.op) + 1)
<1> DEFINE n == Len(log)
           new == n + 1
           T == [op : 0 .. MaxOps, event : Events, seq : Nat]
<1>1. log \in Seq(T) /\ n \in Nat /\ DOMAIN log = 1 .. n
  BY LenProperties DEF Typed
<1>2. DOMAIN log' = 1 .. new /\ log'[new] = e /\ \A i \in 1 .. n : log'[i] = log[i]
  <2>1. log \in Seq(T \cup {e}) /\ e \in T \cup {e}
    BY <1>1, SeqMonotonic
  <2> QED BY <1>1, <2>1, AppendProperties
<1>3. \A op, k : k \in 0 .. n => EventsOf(log', op, k) = EventsOf(log, op, k)
  BY <1>1, <1>2 DEF EventsOf
<1>4. /\ \A op : op # Anonymous => Written(op) = Cardinality(EventsOf(log, op, n))
      /\ e.op # Anonymous => Written(e.op)' = Cardinality(EventsOf(log', e.op, new))
  BY <1>1, <1>2 DEF Written, EventsOf
<1>5. ASSUME e.op # Anonymous
      PROVE  Cardinality(EventsOf(log', e.op, new)) = Written(e.op) + 1
  <2>1. EventsOf(log', e.op, new) = EventsOf(log, e.op, n) \cup {new}
    <3>1. 1 .. new = (1 .. n) \cup {new}
      BY <1>1
    <3> QED BY <1>2, <3>1 DEF EventsOf
  <2>2. new \notin EventsOf(log, e.op, n) /\ IsFiniteSet(EventsOf(log, e.op, n))
    <3>1. new \notin EventsOf(log, e.op, n) /\ EventsOf(log, e.op, n) \subseteq 1 .. n
      BY <1>1 DEF EventsOf
    <3>2. IsFiniteSet(1 .. n)
      BY <1>1, FS_Interval
    <3> QED BY <3>1, <3>2, FS_Subset
  <2>3. Cardinality(EventsOf(log, e.op, n) \cup {new}) = Cardinality(EventsOf(log, e.op, n)) + 1
    BY <2>2, FS_AddElement
  <2> QED BY <1>4, <1>5, <2>1, <2>3
<1>6. Coherent'
  <2> SUFFICES ASSUME NEW i \in 1 .. new, log'[i].op # Anonymous
               PROVE  log'[i].seq = Cardinality(EventsOf(log', log'[i].op, i))
    BY <1>2 DEF Coherent, EventsOf
  <2>1. CASE i = new
    BY <1>2, <1>5, <2>1
  <2>2. CASE i \in 1 .. n
    <3>1. log'[i] = log[i] /\ EventsOf(log', log[i].op, i) = EventsOf(log, log[i].op, i)
      BY <1>1, <1>2, <1>3, <2>2
    <3>2. log[i].seq = Cardinality(EventsOf(log, log[i].op, i))
      BY <1>1, <2>2, <3>1 DEF Coherent, EventsOf
    <3> QED BY <3>1, <3>2
  <2> QED BY <1>1, <2>1, <2>2
<1> QED BY <1>4, <1>5, <1>6

\* An event that reaches the log has the number that comes next.
LEMMA EventsFollow ==
  ASSUME Typed, LogInv, Busy, cmd.todo # <<>>, ~Skipped(Todo), ~cmd.down, Todo.do = "event", Appended(Todo),
         NEW op, op = cmd.op
  PROVE  Coherent' /\ (op # Anonymous => Written(op)' = cmd.seq + 1)
<1>1. PICK e : /\ e = [op |-> op, event |-> Todo.to, seq |-> IF op = Anonymous THEN 0 ELSE cmd.seq + 1]
               /\ log' = Append(log, e)
  BY DEF Appended
<1>2. cmd.seq \in Nat /\ cmd.already \in Nat /\ ~(cmd.seq + 1 <= cmd.already)
  BY TodoFacts DEF InFlight, Skipped
<1>3. op # Anonymous => Written(op) = cmd.seq
  BY <1>2 DEF LogInv, LogIsCounted
<1>4. e.op = op /\ (op # Anonymous => e.seq = cmd.seq + 1)
  BY <1>1
<1>5. Coherent' /\ (e.op # Anonymous => Written(e.op)' = Written(e.op) + 1)
  BY <1>1, <1>3, <1>4, AppendCounts DEF LogInv
<1> QED BY <1>3, <1>4, <1>5

\* A new command counts what its previous attempt left.
LEMMA BegunIsCounted ==
  ASSUME Typed, LogInv, NEW op, NEW kind, NEW plan, Begin(op, kind, plan), log' = log
  PROVE  LogInv'
<1>1. Coherent' /\ Written(op)' = Written(op)
  BY DEF LogInv, Coherent, Written
<1>2. cmd'.op = op /\ cmd'.seq = 0 /\ cmd'.already = Written(op) /\ Written(op) \in Nat
  BY WrittenIsCounted DEF Begin
<1> QED BY <1>1, <1>2 DEF LogInv, LogIsCounted

\* Whatever else a step does, it numbers its events as the kernel expects them.
LEMMA LogStays ==
  ASSUME HostInv, ~Transient, LogInv, [Next]_vars
  PROVE  LogInv'
<1> USE DEF HostInv
<1>1. ASSUME log' = log, cmd' = cmd \/ cmd' = Idle
      PROVE  LogInv'
  BY <1>1 DEF LogInv, Coherent, LogIsCounted, Written, Busy
<1>2. CASE Step
  <2>1. Appended(Todo) /\ cmd' = Popped(Todo) /\ Busy /\ cmd.todo # <<>> /\ (cmd.down => Skipped(Todo))
    BY <1>2 DEF Step
  <2>2. /\ cmd'.op = cmd.op /\ cmd'.already = cmd.already /\ cmd'.down = cmd.down
        /\ cmd'.seq = (IF Todo.do = "event" THEN cmd.seq + 1 ELSE cmd.seq)
        /\ cmd.seq \in Nat /\ cmd.already \in Nat
    BY <2>1, TodoFacts DEF InFlight, Popped
  <2> PICK op : op = cmd.op
    OBVIOUS
  <2>3. CASE Todo.do = "event" /\ ~Skipped(Todo)
    <3>1. Coherent' /\ (op # Anonymous => Written(op)' = cmd.seq + 1)
      BY <2>1, <2>3, EventsFollow
    <3>2. ~(cmd.seq + 1 <= cmd.already)
      BY <2>3 DEF Skipped
    <3> QED BY <2>2, <2>3, <3>1, <3>2 DEF LogInv, LogIsCounted
  <2>4. CASE ~(Todo.do = "event" /\ ~Skipped(Todo))
    <3>1. log' = log
      BY <2>1, <2>4 DEF Appended
    <3>2. Coherent' /\ Written(op)' = Written(op)
      BY <3>1 DEF LogInv, Coherent, Written
    <3>3. Todo.do = "event" => cmd.seq + 1 <= cmd.already
      BY <2>4 DEF Skipped
    <3> QED BY <2>1, <2>2, <3>2, <3>3 DEF LogInv, LogIsCounted
  <2> QED BY <2>3, <2>4
<1>3. CASE FailedWrite
  <2>1. cmd' = Idle \/ cmd'.down
    BY <1>3, TodoFacts DEF FailedWrite, Finish, InFlight, Popped
  <2>2. Coherent'
    <3>1. CASE log' = log
      BY <3>1 DEF LogInv, Coherent
    <3>2. CASE Todo.do = "event" /\ ~cmd.down /\ Appended(Todo)
      BY <1>3, <3>2, EventsFollow DEF FailedWrite
    <3> QED BY <1>3, <3>1, <3>2 DEF FailedWrite
  <2> QED BY <2>1, <2>2 DEF LogInv, LogIsCounted, Busy
<1>4. CASE Report \/ Abort \/ Crash
  BY <1>1, <1>4 DEF Report, Abort, Crash, Finish, disk
<1>5. ASSUME NEW req \in Requests, Call(req) PROVE LogInv'
  <2>1. PICK plan : Begin(Len(calls) + 1, req.kind, plan) /\ log' = log
    BY <1>5 DEF Call, disk
  <2> QED BY <2>1, BegunIsCounted
<1>6. ASSUME NEW req \in Requests, CallAnonymously(req) PROVE LogInv'
  <2>1. PICK plan : Begin(Anonymous, req.kind, plan) /\ log' = log
    BY <1>6 DEF CallAnonymously, disk
  <2> QED BY <2>1, BegunIsCounted
<1>7. ASSUME NEW op \in Ops, RetryCached(op) \/ RetryRejected(op) PROVE LogInv'
  BY <1>1, <1>7 DEF RetryCached, RetryRejected, disk
<1>8. ASSUME NEW op \in Ops, Retry(op) PROVE LogInv'
  <2>1. PICK plan : Begin(op, calls[op].kind, plan) /\ log' = log
    BY <1>8 DEF Retry, disk
  <2> QED BY <2>1, BegunIsCounted
<1>9. ASSUME NEW accept \in BOOLEAN, Resume(accept) PROVE LogInv'
  <2>1. Begin(Anonymous, "resume", ResumePlan(accept)) /\ log' = log
    BY <1>9 DEF Resume, disk
  <2> QED BY <2>1, BegunIsCounted
<1>10. ASSUME NEW change \in Edits, AgentEdits(change) PROVE LogInv'
  BY <1>1, <1>10 DEF AgentEdits, disk
<1>11. CASE UNCHANGED vars
  BY <1>1, <1>11 DEF vars, disk
<1> QED BY <1>2, <1>3, <1>4, <1>5, <1>6, <1>7, <1>8, <1>9, <1>10, <1>11 DEF Next, Commands, Execution

\* emit: however often an operation is killed, fails or is retried, its events are in
\* the log once each and in order, so that checkEventLogCoherence never refuses it.
THEOREM LogIsAlwaysAccepted ==
  ASSUME ~Transient
  PROVE  Spec => []LogStaysCoherent
<1>1. Init => LogInv
  <2>1. DOMAIN <<>> = {}
    OBVIOUS
  <2>2. Init => log = <<>> /\ ~Busy
    BY DEF Init, Busy
  <2> QED BY <2>1, <2>2 DEF LogInv, Coherent, LogIsCounted
<1>2. HostInv /\ LogInv /\ [Next]_vars => LogInv'
  BY LogStays
<1>3. LogInv => LogStaysCoherent
  BY DEF LogInv, LogStaysCoherent
<1> QED BY <1>1, <1>2, <1>3, RunIsConsistent, PTL DEF Spec

-----------------------------------------------------------------------------
(* The promise *)

\* The mapping of HostRun, into the module that has the theorems.
P == INSTANCE RunPromiseProofs WITH
  GatesOptional <- "missing" \in GateOutcomes,
  status  <- run.status,
  stage   <- run.stage,
  worker  <- WorkerOutcome,
  verdict <- Decided,
  ready   <- Ready,
  passed  <- GatesPassed

\* The run is completed on gates that passed after its last agent.
CompletedIsVerified ==
  run.status = "completed" => (gate.passed /\ gate.after = run.agents) \/ "missing" \in GateOutcomes

\* Promise, which the runs check, and P are one specification.
LEMMA OnePromise == KeepsThePromise => P!Spec
<1>1. Promise!Init => P!Init
  BY DEF Promise!Init, P!Init, Promise!Start, P!Start
<1>2. Promise!Next => P!Next
  <2>1. Promise!Open => P!Open
    BY DEF Promise!Open, P!Open, Promise!Kind, P!Kind
  <2>2. Promise!Apply => P!Apply
    BY DEF Promise!Apply, P!Apply, Promise!Kind, P!Kind
  <2>3. Promise!LeaveWorker => P!LeaveWorker
    BY DEF Promise!LeaveWorker, P!LeaveWorker,
           Promise!Kind, P!Kind, Promise!Enter, P!Enter
  <2>4. Promise!LeaveReview => P!LeaveReview
    BY DEF Promise!LeaveReview, P!LeaveReview,
           Promise!Kind, P!Kind, Promise!Enter, P!Enter
  <2>5. Promise!LeaveGate => P!LeaveGate
    BY DEF Promise!LeaveGate, P!LeaveGate,
           Promise!Kind, P!Kind, Promise!Enter, P!Enter
  <2>6. Promise!Complete => P!Complete
    BY DEF Promise!Complete, P!Complete, Promise!Kind, P!Kind
  <2>7. Promise!LeaveTerminal => P!LeaveTerminal
    BY DEF Promise!NoStage, P!NoStage, Promise!LeaveTerminal, P!LeaveTerminal,
           Promise!Kind, P!Kind, Promise!Enter, P!Enter
  <2>8. Promise!Block => P!Block
    BY DEF Promise!Block, P!Block, Promise!Kind, P!Kind
  <2>9. Promise!Interrupt => P!Interrupt
    BY DEF Promise!Interrupt, P!Interrupt, Promise!Kind, P!Kind
  <2>10. Promise!Resume => P!Resume
    BY DEF Promise!Resume, P!Resume, Promise!Kind, P!Kind
  <2>11. \A outcome, decided : Promise!Close(outcome, decided) => P!Close(outcome, decided)
    BY DEF Promise!Close, P!Close, Promise!Kind, P!Kind
  <2>12. \A outcome : Promise!RunGates(outcome) => P!RunGates(outcome)
    BY DEF Promise!RunGates, P!RunGates, Promise!Kind, P!Kind
  <2> QED BY <2>1, <2>2, <2>3, <2>4, <2>5, <2>6, <2>7, <2>8, <2>9, <2>10, <2>11, <2>12
         DEF Promise!Next, P!Next
<1>3. UNCHANGED Promise!vars => UNCHANGED P!vars
  BY DEF Promise!vars, P!vars
<1> QED BY <1>1, <1>2, <1>3, PTL DEF KeepsThePromise, Promise!Spec, P!Spec

\* The same of the workflows of P.
LEMMA HostWorkflowsAreGated == P!GatedWorkflow
BY ConfigAssumption, P!BuiltInsAreGated
   DEF Quick, Review, SDD, P!Quick, P!Review, P!SDD, Stage, P!Stage, Editor, P!Editor, Reader, P!Reader,
       Reviewer, P!Reviewer, Gate, P!Gate, Terminal, P!Terminal, NoStage, P!NoStage

\* The files of a run go through the workflow as RunPromise says: HostRun, with every
\* crash, failure, retry and resume, implements it.
THEOREM RunKeepsItsPromise ==
  ASSUME ~Transient
  PROVE  Spec => KeepsThePromise
<1>1. Init => Promise!Init
  BY InitHolds
<1>2. HostInv /\ [Next]_vars => [Promise!Next]_(Promise!vars)
  BY NextKeeps DEF Promised
<1> QED BY <1>1, <1>2, RunIsConsistent, PTL DEF Spec, KeepsThePromise, Promise!Spec

\* runGateStage and complete: whatever was killed, retried or resumed, no run
\* completes on unverified work.
THEOREM HostRunVerifies ==
  ASSUME ~Transient
  PROVE  Spec => []CompletedIsVerified
<1>1. P!Spec => []P!CompletedIsVerified
  BY HostWorkflowsAreGated, P!PromiseVerifies
<1>2. P!CompletedIsVerified => CompletedIsVerified
  BY DEF P!CompletedIsVerified, P!Verified, CompletedIsVerified, GatesPassed
<1> QED BY <1>1, <1>2, RunKeepsItsPromise, OnePromise, PTL

\* validateStageClose and ReopenRun: they never touch a completed run either.
THEOREM HostRunIsFinal ==
  ASSUME ~Transient
  PROVE  Spec => [][run.status = "completed" => UNCHANGED <<run.status, run.stage>>]_run
<1>1. P!Spec => [][run.status = "completed" => UNCHANGED P!vars]_(P!vars)
  BY HostWorkflowsAreGated, P!PromiseIsFinal
<1>2. [run.status = "completed" => UNCHANGED P!vars]_(P!vars)
        => [run.status = "completed" => UNCHANGED <<run.status, run.stage>>]_run
  BY DEF P!vars
<1> QED BY <1>1, <1>2, RunKeepsItsPromise, OnePromise, PTL
=============================================================================

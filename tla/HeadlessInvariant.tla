-------------------------- MODULE HeadlessInvariant --------------------------
(***************************************************************************)
(* The invariant of Headless: what the files of a run say together as long *)
(* as no save was overtaken, and what the engine that holds the run knows  *)
(* of them at every place of its loop.  HeadlessProofs proves that every   *)
(* step keeps it.                                                          *)
(***************************************************************************)
EXTENDS Headless

-----------------------------------------------------------------------------
(* Types *)

StageStatus == {"pending", "active", "done"}
Works == {"worker", "review"}
Acts == Works \cup {"gate"}

RunStates ==
  [status : {"active", "blocked", "completed", "failed", "canceled"}, stage : Stages,
   active : Ids \cup {NoWorker}, stages : [Stages -> StageStatus], visits : [Stages -> Nat],
   agents : 0 .. MaxWorkers, tokens : [Stages -> Nat]]

Sort(what, keys, values, modes) == [what : {what}, key : keys, val : values, mode : modes, stop : {""}]

\* Those before which the loop may look for a failed write.
Marked(what, keys) == [what : {what}, key : keys, val : {""}, mode : {"strict"}, stop : {"", "halt", "error"}]

EventNames == {"no_gates_configured", "stage_started", "stage_completed", "worker_started", "worker_finished"}

\* Writes that no property looks at.
Quiets == Marked("event", EventNames) \cup Marked("run", {""}) \cup Sort("mutations", {0}, {""}, {"strict"})
Blocks(modes) == Sort("outcome", {"blocked"}, {""}, modes) \cup Sort("announce", {"blocked"}, {""}, modes)
Votes == Sort("verdict", Nat, Verdicts, {"block"})
Ends == Sort("worker", Ids, {"done", "failed", "canceled"}, {"strict", "loose"})
Results == Sort("gate", {0}, [passed : BOOLEAN, after : 0 .. MaxWorkers], {"hard"})

\* What a resume may write before the loop begins ...
Refusing == Blocks({"loose"})
Settling ==
  Sort("config", {0}, {""}, {"hard"}) \cup Sort("baseline", {0}, SUBSET Ids, {"hard"})
  \cup Sort("worker", Ids, {"canceled"}, {"hard"}) \cup Refusing

\* ... and a stage that is not left.
Halting ==
  Quiets \cup Blocks({"strict"}) \cup Votes \cup Ends \cup Results \cup Sort("save", {"clear"}, {""}, {"strict"})

-----------------------------------------------------------------------------
(* What the files of a run say together *)

\* The workflows come back to no stage but the review and the fix.
Rank(s) ==
  CASE s = "explore" -> 1 [] s = "propose" -> 2 [] s = "plan" -> 3 [] s = "implement" -> 4
    [] s \in {"review", "fix"} -> 5 [] s = "verify" -> 6 [] OTHER -> 7

Ordered(st) ==
  \A s \in Stages : st.stages[s] = "done" => s \in {"review", "fix", "done"} \/ Rank(s) < Rank(st.stage)

GatesPassed(st) == "missing" \in GateOutcomes \/ (gate.passed /\ gate.after = st.agents)
Verified(st) == Kind(st.stage) = "terminal" \/ st.status = "completed" => GatesPassed(st)

Sound(st) == st \in RunStates /\ Ordered(st) /\ Verified(st)

Started(id) == \E x \in launched : x[1] = id

\* No agent has a number above n, and there are no more than n.
AtMost(n) ==
  /\ \A x \in launched : x[1][1] <= n
  /\ Cardinality(launched) <= n

SlotsAreCounted ==
  /\ IsFiniteSet(launched) /\ launched \subseteq Ids \X Nat
  /\ \A x, y \in launched : x[1] = y[1] => x = y
  /\ MaxAgents > 0 => Cardinality(launched) <= MaxAgents
  /\ disk.status # "canceled" => AtMost(disk.agents)

FilesAgree ==
  /\ DOMAIN workers \subseteq Ids
  /\ \A id \in DOMAIN workers : workers[id] \in {"running", "done", "failed", "canceled"}
  /\ DOMAIN reports \subseteq DOMAIN workers /\ changed \subseteq DOMAIN workers
  /\ \A id \in Ids : Started(id) => id \in DOMAIN workers
  /\ log \subseteq {"blocked", "completed", "failed", "canceled"}
  /\ owner \in Engines \cup {Nobody}
  /\ \A status \in log : Final(status) => disk.status = status

RunIsSound == Sound(disk) /\ SlotsAreCounted /\ FilesAgree

\* A cancel goes ahead on a run that has not ended, and records one that is canceled.
CancelsKnow ==
  \A c \in Cancellers :
    /\ cancel[c].pc \in {"audit", "save"} => cancel[c].seen.status \notin {"completed", "failed"}
    /\ cancel[c].pc = "audit" /\ cancel[c].seen.status = "canceled" => CanceledOnDisk
    /\ cancel[c].pc = "record" => CanceledOnDisk

-----------------------------------------------------------------------------
(* What an engine that holds the run knows of its files *)

\* What an engine writes next, and after that.
First(E) == Head(E.todo)
Later(E) == Tail(E.todo)

\* The memory is the state on disk, but for its status, its tokens and the active worker.
SameStage(m) == m.stage = disk.stage
Synced(m) == SameStage(m) /\ m.agents = disk.agents /\ m.stages = disk.stages /\ m.visits = disk.visits

Open(id) == File("worker", id, "running")
Announced == Halts(Event("worker_started"))
Agent(id) == Errs(Do("launch", id, ""))

\* The places of every engine that has an agent, or is about to start one.
AgentPlans(id) ==
  {<<Open(id), Save("start"), Announced, Agent(id)>>, <<Save("start"), Announced, Agent(id)>>,
   <<Announced, Agent(id)>>, <<Agent(id)>>}

HasAgent(E) == E.pc = "agent" /\ E.todo = <<>>

StartsItsAgent(E) ==
  E.pc = "agent" =>
    \/ HasAgent(E) /\ E.seen = NoState /\ Started(E.worker)
    \/ /\ E.todo \in AgentPlans(E.worker)
       /\ E.seen # NoState => E.todo = <<Save("start"), Announced, Agent(E.worker)>>

AgentsAreStarted ==
  \A e \in Engines :
    /\ StartsItsAgent(engine[e])
    /\ HasAgent(engine[e]) /\ e # owner /\ owner \in Engines => engine[e].worker # engine[owner].worker

\* The number of an agent that is about to start is new.
Fresh(id) ==
  /\ id \in Ids
  /\ AtMost(id[1] - 1)
  /\ MaxAgents > 0 => id[1] <= MaxAgents

\* The worker is the one the run waits for, unless its start met a cancel.
Current(id) == id[2] = disk.stage /\ (id[1] = disk.agents \/ CanceledOnDisk)

OpenWorkerPlace(E) ==
  LET m == E.mem
      id == E.worker
      todo == E.todo
  IN
  /\ SameStage(m) /\ m.visits = disk.visits /\ id \in Ids /\ id[2] = disk.stage
  /\ Kind(disk.stage) \in Works
  /\ \/ /\ todo = <<Open(id), Save("start"), Announced, Agent(id)>>
        /\ Fresh(id) /\ m.agents = id[1] /\ disk.agents = id[1] - 1 /\ E.seen = NoState
     \/ /\ todo = <<Save("start"), Announced, Agent(id)>>
        /\ Fresh(id) /\ m.agents = id[1] /\ disk.agents = id[1] - 1
        /\ E.err \/ id \in DOMAIN workers
     \/ /\ todo \in {<<Announced, Agent(id)>>, <<Agent(id)>>}
        /\ Fresh(id) /\ E.seen = NoState
        /\ E.err \/ (id \in DOMAIN workers /\ Synced(m) /\ Current(id))
     \/ /\ todo = <<>> /\ E.seen = NoState
        /\ id \in DOMAIN workers /\ Synced(m) /\ Current(id)

GatePlace(E) ==
  /\ Synced(E.mem) /\ Kind(disk.stage) = "gate"
  /\ E.todo \in {<<Save("touch"), Errs(Do("run", "", ""))>>, <<Errs(Do("run", "", ""))>>, <<>>}

Judged(id) == id \in DOMAIN reports

\* A worker whose agent has ended.
AtTheEnd(E) ==
  /\ Synced(E.mem) /\ Kind(disk.stage) \in Works
  /\ E.worker \in DOMAIN workers /\ Current(E.worker)
  /\ E.decided \in Verdicts \cup {"none"}

SettlePlace(E) ==
  LET id == E.worker
      report == File("report", id, id \in changed)
      result == File("result", 0, "")
  IN
  /\ AtTheEnd(E)
  /\ \/ E.todo \in {<<result, report>>, <<report>>}
     \/ /\ E.todo \in {<<result>>, <<>>}
        /\ E.outcome \in {"unstarted", "unaudited"} \/ E.err \/ Judged(id)

\* What is left to write of a review.
Rests == {<<>>} \cup {<<v>> : v \in Votes}

\* A worker whose work is accepted, up to the last write before its stage is left.
AcceptedPlace(E) ==
  LET id == E.worker
      todo == E.todo
      done == File("worker", id, "done")
      said == Errs(Event("worker_finished"))
      clear == Save("clear")
  IN
  /\ AtTheEnd(E)
  /\ ~Violates(disk.stage, id \in changed)
  /\ \E rest \in Rests :
       \/ todo = <<done, said, clear>> \o rest /\ (E.err \/ Judged(id))
       \/ todo = <<said, clear>> \o rest /\ (E.err \/ (Done(id) /\ Judged(id)))
       \/ todo \in {<<clear>> \o rest, rest} /\ Done(id) /\ Judged(id)

GatedPlace(E) ==
  /\ Synced(E.mem) /\ Kind(disk.stage) = "gate"
  /\ \/ E.todo = <<Hard(Do("gate", 0, [passed |-> TRUE, after |-> disk.agents]))>>
     \/ E.todo = <<Event("no_gates_configured")>> /\ "missing" \in GateOutcomes
     \/ E.todo = <<>> /\ GatesPassed(disk)

HaltedPlace(E) ==
  /\ E.ended \in {"halt", "error"} /\ E.todo \in Seq(Halting)
  /\ SameStage(E.mem) /\ Kind(disk.stage) \in Acts

BackPlace(E) ==
  IF E.ended = "advance" THEN AcceptedPlace(E) \/ GatedPlace(E) ELSE HaltedPlace(E)

\* The stages of a run whose stage was left.
Gone(st) == [st.stages EXCEPT ![st.stage] = "done"]

\* The stage may be left for next, on the work of its latest agent.
MayLeave(id, next) ==
  LET s == disk.stage IN
  /\ Kind(s) \in Acts
  /\ Kind(s) = "gate" => GatesPassed(disk)
  /\ Kind(s) \in Works =>
       id = <<disk.agents, s>> /\ Done(id) /\ Judged(id) /\ ~Violates(s, id \in changed)
  /\ next = IF Kind(s) = "review" /\ Verdict(disk.visits["review"]) # "approved"
              THEN Workflow[s].onFixes ELSE Workflow[s].next

StepPlace(E) ==
  LET m == E.mem IN
  \/ /\ E.todo \in {<<>>, <<Quits(Event("stage_completed"))>>}
     /\ E.err \/ (Synced(m) /\ AtMost(m.agents))
  \/ \E next \in Stages :
       /\ E.todo = Leave(next)
       /\ MayLeave(E.worker, next) /\ AtMost(m.agents) /\ m.agents = disk.agents /\ m.visits = disk.visits
       /\ IF E.seen = NoState THEN Synced(m)
          ELSE m.stage = next /\ m.stages = Gone(disk)

DispatchPlace(E) ==
  LET m == E.mem
      said == Quits(Event("stage_started"))
  IN
  /\ Kind(m.stage) \in Acts /\ SameStage(m)
  /\ \/ E.todo = <<Save("enter"), said>> /\ m.agents = disk.agents /\ AtMost(m.agents)
     \/ E.todo = <<said>> /\ (E.err \/ (Synced(m) /\ AtMost(m.agents)))
     \/ E.todo = <<>> /\ Synced(m) /\ AtMost(m.agents)

OverPlace(E) ==
  LET m == E.mem
      todo == E.todo
  IN
  \/ todo = <<>>
  \/ todo = <<Do("adopt", "", "")>> /\ E.seen # NoState /\ m.status = "canceled" /\ SameStage(m)
  \/ \E status \in {"blocked", "failed", "completed"} :
       \/ /\ todo = Outcome(status)
          /\ SameStage(m) /\ (status = "completed" => Kind(disk.stage) = "terminal")
       \/ todo = <<Do("announce", status, "")>> /\ (E.err \/ m.status # status \/ disk.status = status \/ status = "blocked")

\* An engine that was killed, that has read nothing yet, or that has nothing more to do.
Blank(E) ==
  \/ E.pc \in {"dead", "resume"} /\ E.todo = <<>> /\ E.seen = NoState
  \/ E.pc = "over" /\ E.todo = <<>> /\ E.seen = NoState

MemoryIsSound(E) ==
  LET m == E.mem IN
  /\ Sound(m) /\ disk.agents <= m.agents
  /\ m.status = "canceled" => CanceledOnDisk
  /\ m.status \in {"completed", "failed"} => E.pc = "over"

\* Between the two halves of a save the engine has adopted the cancel it found.
SaveIsChecked(E) ==
  E.seen # NoState =>
    /\ E.todo # <<>> /\ First(E).what \in {"save", "outcome", "adopt"}
    /\ E.seen.status \notin {"completed", "failed"}
    /\ E.seen.status = "canceled" => E.mem.status = "canceled"

\* The run has ended only for an engine that is about to end.
EndIsLast(E) ==
  disk.status \in {"completed", "failed"} =>
    E.pc = "over" /\ (E.todo # <<>> => First(E).what = "announce")

AtItsPlace(E) ==
  CASE E.pc = "drifted"  -> SameStage(E.mem) /\ E.todo \in Seq(Refusing)
    [] E.pc = "announce" -> Synced(E.mem) /\ AtMost(E.mem.agents) /\ E.todo \in Seq(Settling)
    [] E.pc = "step"     -> StepPlace(E)
    [] E.pc = "dispatch" -> DispatchPlace(E)
    [] E.pc = "agent"    -> OpenWorkerPlace(E)
    [] E.pc = "gate"     -> GatePlace(E)
    [] E.pc = "settle"   -> SettlePlace(E)
    [] E.pc = "back"     -> BackPlace(E)
    [] E.pc = "over"     -> OverPlace(E)
    [] OTHER -> FALSE

Knows(E) ==
  \/ Blank(E)
  \/ MemoryIsSound(E) /\ SaveIsChecked(E) /\ EndIsLast(E) /\ AtItsPlace(E)

-----------------------------------------------------------------------------

\* An engine and a cancel are records of their places and of what they have read.
IsEngine(E) ==
  E = [pc |-> E.pc, mem |-> E.mem, todo |-> E.todo, seen |-> E.seen, err |-> E.err, lost |-> E.lost, ctx |-> E.ctx,
       ended |-> E.ended, outcome |-> E.outcome, decided |-> E.decided, worker |-> E.worker, refused |-> E.refused]

IsCancel(c) == c = [pc |-> c.pc, seen |-> c.seen, recorded |-> c.recorded]

Shaped ==
  /\ engine = [e \in Engines |-> engine[e]] /\ cancel = [c \in Cancellers |-> cancel[c]]
  /\ \A e \in Engines : IsEngine(engine[e]) /\ (engine[e].pc = "off" => engine[e] = Off)
  /\ \A c \in Cancellers : IsCancel(cancel[c])

\* Before the first engine starts nothing has happened but a cancel.
NothingRanYet ==
  (\A e \in Engines : engine[e].pc = "off") => launched = {} /\ disk.status \notin {"completed", "failed"}

\* A cancel that found itself in the log, or put itself there, stays in it.
CancelsRecord ==
  /\ cancel = [c \in Cancellers |-> cancel[c]]
  /\ \A c \in Cancellers :
       /\ IsCancel(cancel[c])
       /\ cancel[c].pc \in {"save", "record"} /\ cancel[c].recorded => "canceled" \in log
       /\ cancel[c].pc = "done" => "canceled" \in log

HeadlessInv ==
  intact =>
    /\ Shaped /\ RunIsSound /\ CancelsKnow /\ AgentsAreStarted /\ NothingRanYet
    /\ owner \in Engines => Knows(engine[owner])
==============================================================================

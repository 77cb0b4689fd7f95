---------------------------- MODULE HeadlessSteps ----------------------------
(***************************************************************************)
(* The places of the loop of Headless: what an engine knows at each of them *)
(* survives a read, a write and a failed write.  HeadlessProofs makes steps *)
(* of the specification out of them.                                       *)
(***************************************************************************)
EXTENDS HeadlessInvariant, SequenceTheorems, FiniteSetTheorems, TLAPS

-----------------------------------------------------------------------------
(* Sequences of writes *)

\* The tail of a plan of four writes.
LEMMA TailOfFour ==
  ASSUME NEW a, NEW b, NEW c, NEW d
  PROVE  Tail(<<a, b, c, d>>) = <<b, c, d>>
<1> DEFINE W == {a, b, c, d}
           s == <<a, b, c, d>>
           t == <<b, c, d>>
<1>1. s \in Seq(W) /\ Len(s) = 4 /\ s # <<>> /\ s[2] = b /\ s[3] = c /\ s[4] = d
  OBVIOUS
<1>2. t \in Seq(W) /\ Len(t) = 3 /\ t[1] = b /\ t[2] = c /\ t[3] = d
  OBVIOUS
<1> HIDE DEF s, t, W
<1>3. Tail(s) \in Seq(W) /\ Len(Tail(s)) = 3 /\ \A i \in 1 .. 3 : Tail(s)[i] = s[i + 1]
  <2>1. Tail(s) \in Seq(W) /\ Len(Tail(s)) = Len(s) - 1
    BY <1>1
  <2>2. \A i \in 1 .. Len(Tail(s)) : Tail(s)[i] = s[i + 1]
    BY <1>1, <2>1
  <2>3. Len(Tail(s)) = 3
    BY <1>1, <2>1
  <2> QED BY <2>1, <2>2, <2>3
<1>4. Tail(s)[1] = b /\ Tail(s)[2] = c /\ Tail(s)[3] = d
  BY <1>1, <1>3
<1>5. \A i \in 1 .. 3 : Tail(s)[i] = t[i]
  <2>1. \A i \in 1 .. 3 : i = 1 \/ i = 2 \/ i = 3
    OBVIOUS
  <2> QED BY <1>2, <1>4, <2>1, Zenon
<1>6. Tail(s) = t
  BY <1>2, <1>3, <1>5, SeqEqual
<1> QED BY <1>6 DEF s, t

\* The head and the tail of what is left of a short plan.
LEMMA Tuples ==
  /\ \A a : Head(<<a>>) = a /\ Tail(<<a>>) = <<>> /\ <<a>> # <<>>
  /\ \A a, b : Head(<<a, b>>) = a /\ Tail(<<a, b>>) = <<b>> /\ <<a, b>> # <<>>
  /\ \A a, b, c : Head(<<a, b, c>>) = a /\ Tail(<<a, b, c>>) = <<b, c>> /\ <<a, b, c>> # <<>>
  /\ \A a, b, c, d : Head(<<a, b, c, d>>) = a /\ Tail(<<a, b, c, d>>) = <<b, c, d>> /\ <<a, b, c, d>> # <<>>
<1>1. \A a : Head(<<a>>) = a /\ Tail(<<a>>) = <<>> /\ <<a>> # <<>>
  OBVIOUS
<1>2. \A a, b : Head(<<a, b>>) = a /\ Tail(<<a, b>>) = <<b>> /\ <<a, b>> # <<>>
  OBVIOUS
<1>3. \A a, b, c : Head(<<a, b, c>>) = a /\ Tail(<<a, b, c>>) = <<b, c>> /\ <<a, b, c>> # <<>>
  OBVIOUS
<1>4. \A a, b, c, d : Head(<<a, b, c, d>>) = a /\ <<a, b, c, d>> # <<>>
  OBVIOUS
<1> QED BY <1>1, <1>2, <1>3, <1>4, TailOfFour

\* The head and the tail of a concatenation.
LEMMA ConcatHead ==
  ASSUME NEW W, NEW h \in Seq(W), NEW s \in Seq(W), h # <<>>
  PROVE  h \o s # <<>> /\ Head(h \o s) = Head(h) /\ Tail(h \o s) = Tail(h) \o s
<1>1. Len(h) > 0 /\ Len(h \o s) = Len(h) + Len(s)
  OBVIOUS
<1>2. Head(h \o s) = Head(h)
  BY <1>1
<1>3. /\ Tail(h \o s) \in Seq(W) /\ Len(Tail(h \o s)) = Len(h) + Len(s) - 1
      /\ Tail(h) \o s \in Seq(W) /\ Len(Tail(h) \o s) = Len(h) + Len(s) - 1
  BY <1>1
<1>4. \A i \in 1 .. Len(h) + Len(s) - 1 : Tail(h \o s)[i] = (Tail(h) \o s)[i]
  BY <1>1, <1>3
<1>5. Tail(h \o s) = Tail(h) \o s
  BY <1>3, <1>4, SeqEqual
<1> QED BY <1>1, <1>2, <1>5

\* A plan with writes in front.
LEMMA FrontOfOne ==
  ASSUME NEW W, NEW a \in W, NEW s \in Seq(W)
  PROVE  <<a>> \o s # <<>> /\ Head(<<a>> \o s) = a /\ Tail(<<a>> \o s) = s
<1>1. <<a>> \in Seq(W) /\ <<>> \o s = s
  OBVIOUS
<1> QED BY <1>1, Tuples, ConcatHead

\* The same with two writes in front.
LEMMA FrontOfTwo ==
  ASSUME NEW W, NEW a \in W, NEW b \in W, NEW s \in Seq(W)
  PROVE  <<a, b>> \o s # <<>> /\ Head(<<a, b>> \o s) = a /\ Tail(<<a, b>> \o s) = <<b>> \o s
<1>1. <<a, b>> \in Seq(W)
  OBVIOUS
<1> QED BY <1>1, Tuples, ConcatHead

\* The same with three.
LEMMA FrontOfThree ==
  ASSUME NEW W, NEW a \in W, NEW b \in W, NEW c \in W, NEW s \in Seq(W)
  PROVE  <<a, b, c>> \o s # <<>> /\ Head(<<a, b, c>> \o s) = a /\ Tail(<<a, b, c>> \o s) = <<b, c>> \o s
<1>1. <<a, b, c>> \in Seq(W)
  OBVIOUS
<1> QED BY <1>1, Tuples, ConcatHead

\* The head and the tail of a sequence over S.
LEMMA Parts ==
  ASSUME NEW S, NEW s \in Seq(S), s # <<>>
  PROVE  Head(s) \in S /\ Tail(s) \in Seq(S)
  BY HeadTailProperties

\* SetToSeq lists the elements of a finite set.
LEMMA SetToSeqType ==
  ASSUME NEW D, IsFiniteSet(D)
  PROVE  SetToSeq(D) \in Seq(D)
<1> DEFINE n == Cardinality(D)
           f == SetToSeq(D)
<1>1. n \in Nat /\ ExistsBijection(1 .. n, D)
  BY FS_CardinalityType
<1>2. PICK b \in Bijection(1 .. n, D) : TRUE
  BY <1>1 DEF ExistsBijection
<1>3. b \in [1 .. n -> D] /\ IsInjective(b)
  BY <1>2 DEF Bijection, Injection, IsInjective
<1>4. f \in [1 .. n -> D]
  BY <1>3 DEF SetToSeq
<1> HIDE DEF f, n
<1>5. f \in Seq(D)
  BY <1>1, <1>4
<1> QED BY <1>5 DEF f

-----------------------------------------------------------------------------
(* The workflows *)

AllStages == {"explore", "propose", "plan", "implement", "review", "fix", "verify", "done"}

\* There are finitely many stages.
LEMMA StageNames == IsFiniteSet(AllStages)
<1>1. \A S, x : IsFiniteSet(S) => IsFiniteSet(S \cup {x})
  BY FS_AddElement
<1>2. IsFiniteSet({} \cup {"explore"} \cup {"propose"} \cup {"plan"} \cup {"implement"})
  BY <1>1, FS_EmptySet, Zenon
<1>3. IsFiniteSet({} \cup {"explore"} \cup {"propose"} \cup {"plan"} \cup {"implement"} \cup {"review"} \cup {"fix"}
                  \cup {"verify"} \cup {"done"})
  BY <1>1, <1>2, Zenon
<1>4. AllStages = {} \cup {"explore"} \cup {"propose"} \cup {"plan"} \cup {"implement"} \cup {"review"} \cup {"fix"}
                  \cup {"verify"} \cup {"done"}
  BY DEF AllStages
<1> QED BY <1>3, <1>4

\* What one of the built-in workflows says of a stage.
StageFacts(s) ==
  /\ Kind(s) = Workflow[s].kind /\ Kind(s) \in Acts \cup {"terminal"}
  /\ Kind(s) = "terminal" => s = "done"
  /\ Kind(s) = "review" <=> s = "review"
  /\ Kind(s) \in Acts => Workflow[s].next \in Stages /\ Workflow[s].next # s
  /\ Kind(s) = "review" => Workflow[s].onFixes \in Stages /\ Workflow[s].onFixes # s
  /\ Kind(s) \in Works => Kind(Workflow[s].next) # "terminal"
  /\ Kind(s) = "review" => Kind(Workflow[s].onFixes) # "terminal"
  /\ s \notin {"enter", "start", "clear", "touch"}

\* The order of the stages.
LEMMA Ranks ==
  /\ Rank("explore") = 1 /\ Rank("propose") = 2 /\ Rank("plan") = 3 /\ Rank("implement") = 4
  /\ Rank("review") = 5 /\ Rank("fix") = 5 /\ Rank("verify") = 6 /\ Rank("done") = 7
  BY DEF Rank

\* A stage that is left lies before the one it is left for, a review and a fix apart.
Forward(s, next) == Rank(s) <= Rank(next) /\ (s \in {"review", "fix"} \/ Rank(s) < Rank(next))

\* The workflows lead forward.
LEMMA Forwards ==
  /\ Forward("explore", "implement") /\ Forward("explore", "propose") /\ Forward("propose", "plan")
  /\ Forward("plan", "implement") /\ Forward("implement", "verify") /\ Forward("implement", "review")
  /\ Forward("review", "verify") /\ Forward("review", "fix") /\ Forward("fix", "review") /\ Forward("verify", "done")
  BY Ranks DEF Forward

\* What the three built-in workflows have in common.
LEMMA WorkflowFacts ==
  /\ Start \in Stages /\ "done" \in Stages /\ Kind("done") = "terminal" /\ Kind(Start) = "worker"
  /\ IsFiniteSet(Stages)
  /\ \A s \in Stages : /\ StageFacts(s) /\ Rank(s) \in Nat
                       /\ Kind(s) \in Acts => Forward(s, Workflow[s].next)
                       /\ Kind(s) = "review" => Forward(s, Workflow[s].onFixes)
<1> DEFINE Is(s, kind, next, onFixes) == /\ Workflow[s].kind = kind /\ Workflow[s].next = next
                                         /\ Workflow[s].onFixes = onFixes
           Facts(s) == /\ StageFacts(s) /\ Rank(s) \in Nat
                       /\ Kind(s) \in Acts => Forward(s, Workflow[s].next)
                       /\ Kind(s) = "review" => Forward(s, Workflow[s].onFixes)
<1>1. CASE Workflow = Quick
  <2>1. Stages = {"explore", "implement", "verify", "done"}
    BY <1>1 DEF Quick, Stages
  <2>2. /\ Is("explore", "worker", "implement", "") /\ Is("implement", "worker", "verify", "")
        /\ Is("verify", "gate", "done", "") /\ Is("done", "terminal", "", "")
    BY <1>1 DEF Quick, NoStage, Stage, Editor, Reader, Gate, Terminal
  <2>3. \A s \in Stages : Kind(s) = Workflow[s].kind
    BY DEF Kind
  <2>4. IsFiniteSet(Stages)
    BY <2>1, StageNames, FS_Subset DEF AllStages
  <2>5. ASSUME NEW s \in Stages PROVE Facts(s)
    <3>1. Kind(s) = Workflow[s].kind
      BY DEF Kind
    <3>2. StageFacts(s)
      BY <2>1, <2>2, <2>3, <3>1, ZenonT(30) DEF StageFacts, Acts, Works
    <3>3. Kind(s) \in Acts => Forward(s, Workflow[s].next)
      BY <2>1, <2>2, <3>1, Forwards, ZenonT(30) DEF Acts, Works
    <3>4. Kind(s) = "review" => Forward(s, Workflow[s].onFixes)
      BY <2>1, <2>2, <3>1, Forwards, ZenonT(30)
    <3>5. Rank(s) \in Nat
      BY <2>1, Ranks
    <3> QED BY <3>2, <3>3, <3>4, <3>5
  <2> QED BY <2>1, <2>2, <2>4, <2>5 DEF Start, Kind
<1>2. CASE Workflow = Review
  <2>1. Stages = {"explore", "implement", "review", "fix", "verify", "done"}
    BY <1>2 DEF Review, Stages
  <2>2. /\ Is("explore", "worker", "implement", "") /\ Is("implement", "worker", "review", "")
        /\ Is("review", "review", "verify", "fix") /\ Is("fix", "worker", "review", "")
        /\ Is("verify", "gate", "done", "") /\ Is("done", "terminal", "", "")
    BY <1>2 DEF Review, NoStage, Stage, Editor, Reader, Reviewer, Gate, Terminal
  <2>3. \A s \in Stages : Kind(s) = Workflow[s].kind
    BY DEF Kind
  <2>4. IsFiniteSet(Stages)
    BY <2>1, StageNames, FS_Subset DEF AllStages
  <2>5. ASSUME NEW s \in Stages PROVE Facts(s)
    <3>1. Kind(s) = Workflow[s].kind
      BY DEF Kind
    <3>2. StageFacts(s)
      BY <2>1, <2>2, <2>3, <3>1, ZenonT(30) DEF StageFacts, Acts, Works
    <3>3. Kind(s) \in Acts => Forward(s, Workflow[s].next)
      BY <2>1, <2>2, <3>1, Forwards, ZenonT(30) DEF Acts, Works
    <3>4. Kind(s) = "review" => Forward(s, Workflow[s].onFixes)
      BY <2>1, <2>2, <3>1, Forwards, ZenonT(30)
    <3>5. Rank(s) \in Nat
      BY <2>1, Ranks
    <3> QED BY <3>2, <3>3, <3>4, <3>5
  <2> QED BY <2>1, <2>2, <2>4, <2>5 DEF Start, Kind
<1>3. CASE Workflow = SDD
  <2>1. Stages = {"explore", "propose", "plan", "implement", "review", "fix", "verify", "done"}
    BY <1>3 DEF SDD, Stages
  <2>2. /\ Is("explore", "worker", "propose", "") /\ Is("propose", "worker", "plan", "")
        /\ Is("plan", "worker", "implement", "") /\ Is("implement", "worker", "review", "")
        /\ Is("review", "review", "verify", "fix") /\ Is("fix", "worker", "review", "")
        /\ Is("verify", "gate", "done", "") /\ Is("done", "terminal", "", "")
    BY <1>3 DEF SDD, NoStage, Stage, Editor, Reader, Reviewer, Gate, Terminal
  <2>3. \A s \in Stages : Kind(s) = Workflow[s].kind
    BY DEF Kind
  <2>4. IsFiniteSet(Stages)
    BY <2>1, StageNames, FS_Subset DEF AllStages
  <2>5. ASSUME NEW s \in Stages PROVE Facts(s)
    <3>1. Kind(s) = Workflow[s].kind
      BY DEF Kind
    <3>2. StageFacts(s)
      BY <2>1, <2>2, <2>3, <3>1, ZenonT(60) DEF StageFacts, Acts, Works
    <3>3. Kind(s) \in Acts => Forward(s, Workflow[s].next)
      BY <2>1, <2>2, <3>1, Forwards, ZenonT(30) DEF Acts, Works
    <3>4. Kind(s) = "review" => Forward(s, Workflow[s].onFixes)
      BY <2>1, <2>2, <3>1, Forwards, ZenonT(30)
    <3>5. Rank(s) \in Nat
      BY <2>1, Ranks
    <3> QED BY <3>2, <3>3, <3>4, <3>5
  <2> QED BY <2>1, <2>2, <2>4, <2>5 DEF Start, Kind
<1> QED BY <1>1, <1>2, <1>3, ConfigAssumption

-----------------------------------------------------------------------------
(* Engines *)

\* What Knows looks at in an engine, besides its place, its plan and what it has read.
SameWork(n, E) ==
  /\ n.ended = E.ended /\ n.outcome = E.outcome /\ n.decided = E.decided /\ n.worker = E.worker

\* What else there is in an engine with another memory, ...
LEMMA MemField ==
  ASSUME NEW E, IsEngine(E), NEW v, NEW n, n = [E EXCEPT !.mem = v]
  PROVE  /\ IsEngine(n) /\ n.mem = v
         /\ n.pc = E.pc /\ n.todo = E.todo /\ n.seen = E.seen /\ n.err = E.err /\ SameWork(n, E)
<1>1. n = [pc |-> E.pc, mem |-> v, todo |-> E.todo, seen |-> E.seen, err |-> E.err, lost |-> E.lost, ctx |-> E.ctx,
       ended |-> E.ended, outcome |-> E.outcome, decided |-> E.decided, worker |-> E.worker, refused |-> E.refused]
  BY DEF IsEngine
<1> QED BY <1>1 DEF IsEngine, SameWork

\* ... and in one that has read another state.
LEMMA SeenField ==
  ASSUME NEW E, IsEngine(E), NEW v, NEW n, n = [E EXCEPT !.seen = v]
  PROVE  /\ IsEngine(n) /\ n.seen = v
         /\ n.pc = E.pc /\ n.todo = E.todo /\ n.mem = E.mem /\ n.err = E.err /\ SameWork(n, E)
<1>1. n = [pc |-> E.pc, mem |-> E.mem, todo |-> E.todo, seen |-> v, err |-> E.err, lost |-> E.lost, ctx |-> E.ctx,
       ended |-> E.ended, outcome |-> E.outcome, decided |-> E.decided, worker |-> E.worker, refused |-> E.refused]
  BY DEF IsEngine
<1> QED BY <1>1 DEF IsEngine, SameWork

\* An engine that has done the first of its writes.
LEMMA PoppedFields ==
  ASSUME NEW E, IsEngine(E), NEW n, n = [E EXCEPT !.todo = Tail(@), !.seen = NoState]
  PROVE  /\ IsEngine(n) /\ n.todo = Later(E) /\ n.seen = NoState
         /\ n.pc = E.pc /\ n.mem = E.mem /\ n.err = E.err /\ SameWork(n, E)
<1>1. n = [pc |-> E.pc, mem |-> E.mem, todo |-> Later(E), seen |-> NoState, err |-> E.err, lost |-> E.lost, ctx |-> E.ctx,
       ended |-> E.ended, outcome |-> E.outcome, decided |-> E.decided, worker |-> E.worker, refused |-> E.refused]
  BY DEF IsEngine, Later
<1> QED BY <1>1 DEF IsEngine, SameWork, Later

-----------------------------------------------------------------------------
(* Steps *)

\* What a step of an engine leaves of its agent.
Follows(n, E) ==
  /\ IsEngine(n) /\ n.pc # "off" /\ StartsItsAgent(n)
  /\ HasAgent(n) => HasAgent(E) /\ n.worker = E.worker

\* What an engine knows depends on the files, the agents and, once its own agent has
\* ended, on what that one changed.
LEMMA SameTree ==
  ASSUME NEW E, UNCHANGED <<disk, workers, reports, verdicts, gate, launched>>,
         E.pc = "agent" \/ (E.worker \in changed') = (E.worker \in changed)
  PROVE  Knows(E)' <=> Knows(E)
<1> USE DEF SameStage, Synced, CanceledOnDisk, Current, Done, Has, Judged, Fresh, AtMost, GatesPassed
<1>1. MemoryIsSound(E)' <=> MemoryIsSound(E)
  BY DEF MemoryIsSound, Sound, RunStates, Ordered, Verified
<1>2. EndIsLast(E)' <=> EndIsLast(E)
  BY DEF EndIsLast
<1>3. E.pc # "agent" => (StepPlace(E)' <=> StepPlace(E))
  BY DEF StepPlace, MayLeave, Verdict
<1>4. DispatchPlace(E)' <=> DispatchPlace(E)
  BY DEF DispatchPlace
<1>5. OpenWorkerPlace(E)' <=> OpenWorkerPlace(E)
  BY DEF OpenWorkerPlace
<1>6. GatePlace(E)' <=> GatePlace(E)
  BY DEF GatePlace
<1>7. E.pc # "agent" => (SettlePlace(E)' <=> SettlePlace(E))
  BY DEF SettlePlace, AtTheEnd
<1>8. E.pc # "agent" => (BackPlace(E)' <=> BackPlace(E))
  BY DEF BackPlace, AcceptedPlace, AtTheEnd, GatedPlace, HaltedPlace
<1>9. OverPlace(E)' <=> OverPlace(E)
  BY DEF OverPlace
<1> QED BY <1>1, <1>2, <1>3, <1>4, <1>5, <1>6, <1>7, <1>8, <1>9 DEF Knows, AtItsPlace, SaveIsChecked, Blank

\* A step that leaves the files alone takes no knowledge away.
LEMMA SameFiles ==
  ASSUME NEW E, UNCHANGED <<files, changed, launched>>
  PROVE  Knows(E)' <=> Knows(E)
  BY SameTree DEF files

\* A step of an engine that writes nothing keeps the invariant if the engine, when it
\* holds the run, is at a place again.
LEMMA QuietStep ==
  ASSUME HeadlessInv, NEW e \in Engines, NEW n, NEW E, E = engine[e],
         engine' = [engine EXCEPT ![e] = n], UNCHANGED <<files, changed, owner, cancel, history>>,
         intact => Follows(n, E),
         intact /\ owner = e => Knows(n) /\ (n.worker = E.worker \/ ~Started(n.worker))
  PROVE  HeadlessInv'
<1> SUFFICES ASSUME intact'
             PROVE  (Shaped /\ RunIsSound /\ CancelsKnow /\ AgentsAreStarted /\ NothingRanYet
                     /\ (owner \in Engines => Knows(engine[owner])))'
  BY DEF HeadlessInv
<1>1. /\ intact /\ Shaped /\ RunIsSound /\ CancelsKnow /\ AgentsAreStarted /\ NothingRanYet
      /\ owner \in Engines => Knows(engine[owner])
  BY DEF HeadlessInv, history
<1>2. Follows(n, E) /\ (owner = e => Knows(n) /\ (n.worker = E.worker \/ ~Started(n.worker)))
  BY <1>1
<1>3. /\ engine' = [f \in Engines |-> engine'[f]] /\ engine'[e] = n
      /\ \A f \in Engines : f # e => engine'[f] = engine[f]
  BY <1>1 DEF Shaped
<1> USE DEF files, history
<1>4. Shaped'
  BY <1>1, <1>2, <1>3 DEF Shaped, Follows
<1>5. RunIsSound'
  BY <1>1 DEF RunIsSound, Sound, RunStates, Ordered, Verified, GatesPassed, SlotsAreCounted, AtMost, FilesAgree, Started
<1>6. CancelsKnow'
  BY <1>1 DEF CancelsKnow, CanceledOnDisk
<1>7. AgentsAreStarted'
  <2>1. \A f \in Engines : StartsItsAgent(engine[f])'
    BY <1>1, <1>2, <1>3 DEF AgentsAreStarted, Follows, StartsItsAgent, Started, HasAgent
  <2>2. ASSUME NEW f \in Engines, HasAgent(engine'[f]), f # owner, owner \in Engines
        PROVE  engine'[f].worker # engine'[owner].worker
    <3>1. HasAgent(engine[f]) /\ engine'[f].worker = engine[f].worker /\ engine[f].worker # engine[owner].worker
      BY <1>1, <1>2, <1>3, <2>2 DEF AgentsAreStarted, Follows
    <3>2. Started(engine[f].worker)
      BY <1>1, <3>1, Tuples DEF AgentsAreStarted, StartsItsAgent, HasAgent, AgentPlans
    <3> QED BY <1>2, <1>3, <2>2, <3>1, <3>2
  <2> QED BY <2>1, <2>2 DEF AgentsAreStarted, HasAgent
<1>8. NothingRanYet'
  BY <1>2, <1>3 DEF NothingRanYet, Follows
<1>9. ASSUME owner \in Engines PROVE Knows(engine[owner])'
  <2>1. PICK k : k = engine'[owner]
    OBVIOUS
  <2>2. Knows(k)
    BY <1>1, <1>2, <1>3, <1>9, <2>1
  <2>3. Knows(k)'
    BY <2>2, SameFiles
  <2> QED BY <2>1, <2>3
<1> QED BY <1>4, <1>5, <1>6, <1>7, <1>8, <1>9

\* A write of the engine that holds the run keeps the invariant if the files agree
\* again and the engine is at a place again.
LEMMA WriteStep ==
  ASSUME HeadlessInv, intact, NEW e \in Engines, e = owner, NEW n, NEW E, E = engine[e],
         engine' = [engine EXCEPT ![e] = n], UNCHANGED <<owner, cancel>>, launched \subseteq launched',
         IsEngine(n), n.pc = E.pc, E.pc # "off", n.worker = E.worker, StartsItsAgent(n)',
         RunIsSound', CancelsKnow', Knows(n)'
  PROVE  HeadlessInv'
<1>1. /\ Shaped /\ RunIsSound /\ CancelsKnow /\ AgentsAreStarted
  BY DEF HeadlessInv
<1>2. /\ engine' = [f \in Engines |-> engine'[f]] /\ engine'[e] = n
      /\ \A f \in Engines : f # e => engine'[f] = engine[f]
  BY <1>1 DEF Shaped
<1>3. Shaped'
  BY <1>1, <1>2 DEF Shaped
<1>4. AgentsAreStarted'
  <2>1. ASSUME NEW f \in Engines PROVE StartsItsAgent(engine[f])'
    <3>1. CASE f = e
      BY <1>2, <3>1 DEF StartsItsAgent, Started, HasAgent
    <3>2. CASE f # e
      BY <1>1, <1>2, <3>2 DEF AgentsAreStarted, StartsItsAgent, Started, HasAgent
    <3> QED BY <3>1, <3>2
  <2>2. ASSUME NEW f \in Engines, HasAgent(engine'[f]), f # owner
        PROVE  engine'[f].worker # engine'[owner].worker
    BY <1>1, <1>2, <2>2 DEF AgentsAreStarted
  <2> QED BY <2>1, <2>2 DEF AgentsAreStarted, HasAgent
<1>5. NothingRanYet'
  BY <1>2 DEF NothingRanYet
<1> QED BY <1>1, <1>2, <1>3, <1>4, <1>5 DEF HeadlessInv

-----------------------------------------------------------------------------
(* The memory of an engine *)

\* What block, complete and fail make of the state.
LEMMA EndedIsSound ==
  ASSUME NEW m, Sound(m), NEW status \in {"blocked", "failed", "canceled"}
  PROVE  LET n == Ended(m, status) IN
         /\ Sound(n) /\ n.status = status
         /\ n.stage = m.stage /\ n.agents = m.agents /\ n.stages = m.stages /\ n.visits = m.visits
<1>1. Ended(m, status) = [m EXCEPT !.status = status, !.active = NoWorker]
  BY DEF Ended
<1> QED BY <1>1, ZenonT(30) DEF Sound, RunStates, Ordered, Verified, GatesPassed

\* A run completes at the terminal stage.
LEMMA CompletedIsSound ==
  ASSUME NEW m, Sound(m), Kind(m.stage) = "terminal"
  PROVE  LET n == Ended(m, "completed") IN
         Sound(n) /\ n.status = "completed" /\ n.stage = m.stage /\ n.agents = m.agents
<1>1. m.stage = "done" /\ "done" \in Stages
  BY WorkflowFacts DEF Sound, RunStates, StageFacts
<1> DEFINE n == [m EXCEPT !.status = "completed", !.stage = "done", !.active = NoWorker, !.stages["done"] = "done"]
<1>2. Ended(m, "completed") = n
  BY DEF Ended
<1>3. m \in RunStates
  BY DEF Sound
<1>4. n \in RunStates
  BY <1>1, <1>3 DEF RunStates, StageStatus
<1>5. Ordered(n)
  BY <1>1, <1>3 DEF Sound, Ordered, RunStates
<1>6. Verified(n)
  BY <1>1, <1>3 DEF Sound, Verified, GatesPassed, RunStates
<1> QED BY <1>1, <1>2, <1>3, <1>4, <1>5, <1>6 DEF Sound, RunStates

\* What a save makes of it that leaves no stage.
LEMMA EnterIsSound ==
  ASSUME NEW m, Sound(m), m.status # "completed"
  PROVE  LET n == Changed(m, "enter") IN
         /\ Sound(n) /\ n.status = "active"
         /\ n.stage = m.stage /\ n.agents = m.agents /\ n.visits = m.visits
<1> DEFINE n == [m EXCEPT !.status = "active", !.stages[m.stage] = "active"]
<1>1. Changed(m, "enter") = n
  BY DEF Changed
<1>2. m \in RunStates
  BY DEF Sound
<1>3. n \in RunStates
  BY <1>2 DEF RunStates, StageStatus
<1>4. Ordered(n)
  BY <1>2 DEF Sound, Ordered, RunStates
<1>5. Verified(n)
  BY <1>2 DEF Sound, Verified, GatesPassed, RunStates
<1> QED BY <1>1, <1>2, <1>3, <1>4, <1>5 DEF Sound, RunStates

\* The slot of an agent is taken.
LEMMA StartIsSound ==
  ASSUME NEW m, Sound(m), <<m.agents, m.stage>> \in Ids
  PROVE  LET n == Changed(m, "start") IN
         /\ Sound(n) /\ n.status = m.status
         /\ n.stage = m.stage /\ n.agents = m.agents /\ n.stages = m.stages /\ n.visits = m.visits
<1>1. Changed(m, "start") = [m EXCEPT !.active = <<m.agents, m.stage>>]
  BY DEF Changed
<1> QED BY <1>1 DEF Sound, RunStates, Ordered, Verified, GatesPassed

\* The active worker is cleared.
LEMMA ClearIsSound ==
  ASSUME NEW m, Sound(m), NEW change \in {"clear", "touch"}
  PROVE  LET n == Changed(m, change) IN
         /\ Sound(n) /\ n.status = m.status
         /\ n.stage = m.stage /\ n.agents = m.agents /\ n.stages = m.stages /\ n.visits = m.visits
<1>1. Changed(m, change) = [m EXCEPT !.active = NoWorker] \/ Changed(m, change) = m
  BY DEF Changed
<1> QED BY <1>1 DEF Sound, RunStates, Ordered, Verified, GatesPassed

\* A stage is left for one that does not lie before it.
LEMMA LeftIsSound ==
  ASSUME NEW m, Sound(m), NEW next \in Stages, Kind(m.stage) \in Acts, Forward(m.stage, next),
         Kind(next) = "terminal" => GatesPassed(m)
  PROVE  LET n == Changed(m, next) IN
         /\ Sound(n) /\ n.status = m.status /\ n.stage = next
         /\ n.stages = Gone(m) /\ n.agents = m.agents /\ n.visits = m.visits
<1>1. Changed(m, next) = [m EXCEPT !.stages[m.stage] = "done", !.stage = next]
  BY WorkflowFacts DEF Changed, StageFacts
<1>2. m \in RunStates
  BY DEF Sound
<1> DEFINE n == [m EXCEPT !.stages[m.stage] = "done", !.stage = next]
<1>3. n \in RunStates
  BY <1>2 DEF RunStates, StageStatus
<1>4. Ordered(n)
  <2> SUFFICES ASSUME NEW s \in Stages, n.stages[s] = "done", s \notin {"review", "fix", "done"}
               PROVE  Rank(s) < Rank(next)
    BY <1>2 DEF Ordered, RunStates
  <2>1. Rank(s) \in Nat /\ Rank(m.stage) \in Nat /\ Rank(next) \in Nat
    BY <1>2, WorkflowFacts DEF RunStates
  <2>2. CASE s = m.stage
    BY <2>1, <2>2 DEF Forward
  <2>3. CASE s # m.stage
    <3>1. Rank(s) < Rank(m.stage)
      BY <1>2, <2>3 DEF Sound, Ordered, RunStates
    <3> QED BY <2>1, <3>1 DEF Forward
  <2> QED BY <2>2, <2>3
<1>5. Verified(n)
  BY <1>2 DEF Sound, Verified, RunStates, GatesPassed
<1> QED BY <1>1, <1>2, <1>3, <1>4, <1>5 DEF Sound, RunStates, Gone

-----------------------------------------------------------------------------
(* The writes of an engine *)

\* An engine after a write: it has done it, or given it up, with what it holds as it was.
Pops(n, E, err) ==
  /\ IsEngine(n) /\ n.todo = Later(E) /\ n.seen = NoState
  /\ n.pc = E.pc /\ n.mem = E.mem /\ n.err = err /\ SameWork(n, E)

\* ... before it: it has adopted what it read, and gives the write up, or it has read it
\* and holds m.
Adopts(n, E) ==
  /\ IsEngine(n) /\ n.mem = disk /\ n.todo = Later(E) /\ n.seen = NoState
  /\ n.pc = E.pc /\ n.err = E.err /\ SameWork(n, E)

Reads(n, E, m) ==
  /\ IsEngine(n) /\ n.mem = m /\ n.seen = disk
  /\ n.pc = E.pc /\ n.todo = E.todo /\ n.err = E.err /\ SameWork(n, E)

\* ... instead of it: it goes to another place, or ends its stage.
Moves(n, E, pc, todo) ==
  /\ IsEngine(n) /\ n.pc = pc /\ n.todo = todo
  /\ n.mem = E.mem /\ n.seen = E.seen /\ n.err = E.err /\ SameWork(n, E)

Backs(n, E, ended, todo) ==
  /\ IsEngine(n) /\ n.pc = "back" /\ n.todo = todo /\ n.ended = ended
  /\ n.mem = E.mem /\ n.seen = E.seen /\ n.err = E.err
  /\ n.outcome = E.outcome /\ n.decided = E.decided /\ n.worker = E.worker

\* GoTo.
LEMMA Going ==
  ASSUME NEW E, IsEngine(E), NEW pc, NEW todo, NEW n, n = [E EXCEPT !.pc = pc, !.todo = todo]
  PROVE  Moves(n, E, pc, todo)
<1>1. n = [pc |-> pc, mem |-> E.mem, todo |-> todo, seen |-> E.seen, err |-> E.err, lost |-> E.lost, ctx |-> E.ctx,
       ended |-> E.ended, outcome |-> E.outcome, decided |-> E.decided, worker |-> E.worker, refused |-> E.refused]
  BY DEF IsEngine
<1> QED BY <1>1 DEF IsEngine, Moves, SameWork

\* EndStage.
LEMMA Ending ==
  ASSUME NEW E, IsEngine(E), NEW ended, NEW todo, NEW n,
         n = [[E EXCEPT !.pc = "back", !.todo = todo] EXCEPT !.ended = ended]
  PROVE  Backs(n, E, ended, todo)
<1>1. n = [pc |-> "back", mem |-> E.mem, todo |-> todo, seen |-> E.seen, err |-> E.err, lost |-> E.lost, ctx |-> E.ctx,
       ended |-> ended, outcome |-> E.outcome, decided |-> E.decided, worker |-> E.worker, refused |-> E.refused]
  BY DEF IsEngine
<1> QED BY <1>1 DEF IsEngine, Backs

\* The state an engine holds once it has read the one on disk.
Held(E) ==
  LET w == First(E) IN
  IF w.what = "save" THEN Changed(E.mem, w.key) ELSE Ended(E.mem, IF CanceledOnDisk THEN "canceled" ELSE w.key)

Looks(n, E) ==
  \/ /\ First(E).what = "save" /\ Final(disk.status) /\ ~Final(Held(E).status)
     /\ Adopts(n, E)
  \/ /\ First(E).what = "save" /\ Final(disk.status) => Final(Held(E).status)
     /\ Reads(n, E, Held(E))

\* Check.
LEMMA CheckCases ==
  ASSUME NEW e \in Engines, Check(e), Shaped
  PROVE  LET E == engine[e] IN
         /\ E.todo # <<>> /\ E.seen = NoState /\ First(E).what \in {"save", "outcome"}
         /\ ~(E.err /\ First(E).stop # "")
         /\ \E n : engine' = [engine EXCEPT ![e] = n] /\ Looks(n, E)
<1>1. PICK E : E = engine[e]
  OBVIOUS
<1>2. IsEngine(E)
  BY <1>1 DEF Shaped
<1> DEFINE w == First(E)
           m == IF w.what = "save" THEN Changed(E.mem, w.key) ELSE Ended(E.mem, w.key)
<1>3. /\ E.todo # <<>> /\ E.seen = NoState /\ ~(E.err /\ w.stop # "") /\ w.what \in {"save", "outcome"}
      /\ CheckState(e)
  BY <1>1 DEF Check, Stopped, Todo, First
<1> HIDE DEF m
<1>4. engine' = CASE w.what = "save" /\ Final(disk.status) /\ ~Final(m.status) ->
                       [engine EXCEPT ![e] = [Popped(e) EXCEPT !.mem = disk]]
                  [] w.what = "outcome" /\ CanceledOnDisk ->
                       [engine EXCEPT ![e].mem = Ended(E.mem, "canceled"), ![e].seen = disk]
                  [] OTHER -> [engine EXCEPT ![e].mem = m, ![e].seen = disk]
  BY <1>1, <1>3 DEF CheckState, Todo, Mem, m, First
<1>5. CASE w.what = "save" /\ Final(disk.status) /\ ~Final(m.status)
  <2>1. PICK k : k = [E EXCEPT !.todo = Tail(@), !.seen = NoState]
    OBVIOUS
  <2>2. PICK n : n = [k EXCEPT !.mem = disk]
    OBVIOUS
  <2>3. engine' = [engine EXCEPT ![e] = n]
    BY <1>1, <1>4, <1>5, <2>1, <2>2 DEF Popped
  <2>4. Adopts(n, E)
    <3>1. IsEngine(k) /\ k.todo = Later(E) /\ k.seen = NoState /\ k.pc = E.pc /\ k.err = E.err /\ SameWork(k, E)
      BY <1>2, <2>1, PoppedFields
    <3>2. /\ IsEngine(n) /\ n.mem = disk
          /\ n.pc = k.pc /\ n.todo = k.todo /\ n.seen = k.seen /\ n.err = k.err /\ SameWork(n, k)
      BY <2>2, <3>1, MemField
    <3> QED BY <3>1, <3>2 DEF Adopts, SameWork
  <2> QED BY <1>1, <1>3, <1>5, <2>3, <2>4 DEF Looks, Held, m
<1>6. CASE ~(w.what = "save" /\ Final(disk.status) /\ ~Final(m.status))
  <2>1. PICK h : h = Held(E)
    OBVIOUS
  <2>2. PICK k : k = [E EXCEPT !.mem = h]
    OBVIOUS
  <2>3. PICK n : n = [k EXCEPT !.seen = disk]
    OBVIOUS
  <2>4. engine' = [engine EXCEPT ![e].mem = h, ![e].seen = disk]
    BY <1>3, <1>4, <1>6, <2>1 DEF Held, m
  <2>5. engine' = [engine EXCEPT ![e] = n]
    BY <1>1, <2>2, <2>3, <2>4 DEF Shaped
  <2>6. Reads(n, E, h)
    <3>1. IsEngine(k) /\ k.mem = h /\ k.pc = E.pc /\ k.todo = E.todo /\ k.err = E.err /\ SameWork(k, E)
      BY <1>2, <2>2, MemField
    <3>2. /\ IsEngine(n) /\ n.seen = disk
          /\ n.pc = k.pc /\ n.todo = k.todo /\ n.mem = k.mem /\ n.err = k.err /\ SameWork(n, k)
      BY <2>3, <3>1, SeenField
    <3> QED BY <3>1, <3>2 DEF Reads, SameWork
  <2> QED BY <1>1, <1>3, <1>6, <2>1, <2>5, <2>6 DEF Looks, Held, m
<1> QED BY <1>5, <1>6

\* Stop.
LEMMA StopCases ==
  ASSUME NEW e \in Engines, Stop(e), Shaped
  PROVE  LET E == engine[e] IN
         /\ E.todo # <<>> /\ E.seen = NoState /\ E.err /\ First(E).stop # ""
         /\ \E n : /\ engine' = [engine EXCEPT ![e] = n]
                   /\ IF First(E).stop = "quit" THEN Moves(n, E, "over", <<>>)
                                                    ELSE Backs(n, E, First(E).stop, <<>>)
<1>1. PICK E : E = engine[e]
  OBVIOUS
<1>2. IsEngine(E)
  BY <1>1 DEF Shaped
<1>3. E.todo # <<>> /\ E.seen = NoState /\ E.err /\ First(E).stop # ""
  BY <1>1 DEF Stop, Stopped, Todo, First
<1>4. CASE First(E).stop = "quit"
  <2>1. PICK n : n = [E EXCEPT !.pc = "over", !.todo = <<>>]
    OBVIOUS
  <2>2. engine' = [engine EXCEPT ![e] = n]
    BY <1>1, <1>4, <2>1 DEF Stop, Todo, GoTo, First
  <2>3. Moves(n, E, "over", <<>>)
    BY <1>2, <2>1, Going
  <2> QED BY <1>1, <1>3, <1>4, <2>2, <2>3
<1>5. CASE First(E).stop # "quit"
  <2>1. PICK n : n = [[E EXCEPT !.pc = "back", !.todo = <<>>] EXCEPT !.ended = First(E).stop]
    OBVIOUS
  <2>2. engine' = [engine EXCEPT ![e] = n]
    BY <1>1, <1>5, <2>1 DEF Stop, Todo, GoTo, EndStage, First
  <2>3. Backs(n, E, First(E).stop, <<>>)
    BY <1>2, <2>1, Ending
  <2> QED BY <1>1, <1>3, <1>5, <2>2, <2>3
<1> QED BY <1>4, <1>5

StateWrites == {"save", "outcome", "adopt"}

\* FailedWrite.
LEMMA FailCases ==
  ASSUME NEW e \in Engines, FailedWrite(e), Shaped
  PROVE  LET E == engine[e]
             w == First(E)
         IN
         /\ E.todo # <<>> /\ ~(E.err /\ w.stop # "") /\ w.what \notin {"launch", "run"}
         /\ w.what \in StateWrites => E.seen # NoState
         /\ \E n : /\ engine' = [engine EXCEPT ![e] = n]
                   /\ \/ E.pc = "announce" /\ w.mode = "hard" /\ Moves(n, E, "over", <<>>)
                      \/ E.pc # "announce" /\ w.mode = "hard" /\ Backs(n, E, "error", <<>>)
                      \/ w.mode = "block" /\ Backs(n, E, "halt", Block)
                      \/ w.mode = "strict" /\ Pops(n, E, TRUE)
                      \/ w.mode \notin {"hard", "block", "strict"} /\ Pops(n, E, E.err)
<1>1. PICK E : E = engine[e]
  OBVIOUS
<1>2. IsEngine(E)
  BY <1>1 DEF Shaped
<1> DEFINE w == First(E)
<1>3. /\ E.todo # <<>> /\ ~(E.err /\ w.stop # "") /\ w.what \notin {"launch", "run"}
      /\ w.what \in StateWrites => E.seen # NoState
  BY <1>1 DEF FailedWrite, Stopped, Todo, First, StateWrites
<1>4. engine' = [engine EXCEPT ![e] =
        CASE w.mode = "hard"   -> IF E.pc = "announce" THEN GoTo(e, "over", <<>>) ELSE EndStage(e, "error", <<>>)
          [] w.mode = "block"  -> EndStage(e, "halt", Block)
          [] w.mode = "strict" -> [Popped(e) EXCEPT !.err = TRUE]
          [] OTHER             -> Popped(e)]
  BY <1>1 DEF FailedWrite, Todo, First
<1>5. CASE E.pc = "announce" /\ w.mode = "hard"
  <2>1. PICK n : n = [E EXCEPT !.pc = "over", !.todo = <<>>]
    OBVIOUS
  <2>2. engine' = [engine EXCEPT ![e] = n]
    <3>1. engine' = [engine EXCEPT ![e] = GoTo(e, "over", <<>>)]
      BY <1>4, <1>5
    <3> QED BY <1>1, <2>1, <3>1 DEF GoTo
  <2>3. Moves(n, E, "over", <<>>)
    BY <1>2, <2>1, Going
  <2> QED BY <1>1, <1>3, <1>5, <2>2, <2>3
<1>6. CASE E.pc # "announce" /\ w.mode = "hard"
  <2>1. PICK n : n = [[E EXCEPT !.pc = "back", !.todo = <<>>] EXCEPT !.ended = "error"]
    OBVIOUS
  <2>2. engine' = [engine EXCEPT ![e] = n]
    BY <1>1, <1>4, <1>6, <2>1 DEF GoTo, EndStage
  <2>3. Backs(n, E, "error", <<>>)
    BY <1>2, <2>1, Ending
  <2> QED BY <1>1, <1>3, <1>6, <2>2, <2>3
<1>7. CASE w.mode = "block"
  <2>1. PICK n : n = [[E EXCEPT !.pc = "back", !.todo = Block] EXCEPT !.ended = "halt"]
    OBVIOUS
  <2>2. engine' = [engine EXCEPT ![e] = n]
    BY <1>1, <1>4, <1>7, <2>1 DEF GoTo, EndStage
  <2>3. Backs(n, E, "halt", Block)
    BY <1>2, <2>1, Ending
  <2> QED BY <1>1, <1>3, <1>7, <2>2, <2>3
<1>8. CASE w.mode = "strict"
  <2>1. PICK n : n = [[E EXCEPT !.todo = Tail(@), !.seen = NoState] EXCEPT !.err = TRUE]
    OBVIOUS
  <2>2. engine' = [engine EXCEPT ![e] = n]
    BY <1>1, <1>4, <1>8, <2>1 DEF Popped
  <2>3. n = [pc |-> E.pc, mem |-> E.mem, todo |-> Later(E), seen |-> NoState, err |-> TRUE, lost |-> E.lost,
             ctx |-> E.ctx, ended |-> E.ended, outcome |-> E.outcome, decided |-> E.decided, worker |-> E.worker,
             refused |-> E.refused]
    BY <1>2, <2>1 DEF IsEngine, Later
  <2>4. Pops(n, E, TRUE)
    BY <2>3 DEF Pops, IsEngine, SameWork
  <2> QED BY <1>1, <1>3, <1>8, <2>2, <2>4
<1>9. CASE w.mode \notin {"hard", "block", "strict"}
  <2>1. PICK n : n = [E EXCEPT !.todo = Tail(@), !.seen = NoState]
    OBVIOUS
  <2>2. engine' = [engine EXCEPT ![e] = n]
    BY <1>1, <1>4, <1>9, <2>1 DEF Popped
  <2>3. Pops(n, E, E.err)
    BY <1>2, <2>1, PoppedFields DEF Pops
  <2> QED BY <1>1, <1>3, <1>9, <2>2, <2>3
<1> QED BY <1>5, <1>6, <1>7, <1>8, <1>9

\* Write.
LEMMA WriteCases ==
  ASSUME NEW e \in Engines, Write(e), Shaped
  PROVE  LET E == engine[e] IN
         /\ E.todo # <<>> /\ ~(E.err /\ First(E).stop # "")
         /\ IF First(E).what \in StateWrites THEN E.seen # NoState /\ SaveMem(e) ELSE WriteFile(e)
         /\ \E n : engine' = [engine EXCEPT ![e] = n] /\ Pops(n, E, E.err)
<1>1. PICK E : E = engine[e]
  OBVIOUS
<1>2. IsEngine(E)
  BY <1>1 DEF Shaped
<1>3. /\ E.todo # <<>> /\ ~(E.err /\ First(E).stop # "")
      /\ IF First(E).what \in StateWrites THEN E.seen # NoState /\ SaveMem(e) ELSE WriteFile(e)
  BY <1>1 DEF Write, Stopped, Todo, First, StateWrites
<1>4. PICK n : n = [E EXCEPT !.todo = Tail(@), !.seen = NoState]
  OBVIOUS
<1>5. engine' = [engine EXCEPT ![e] = n]
  BY <1>1, <1>3, <1>4 DEF SaveMem, WriteFile, Popped
<1>6. Pops(n, E, E.err)
  BY <1>2, <1>4, PoppedFields DEF Pops
<1> QED BY <1>1, <1>3, <1>5, <1>6

\* What makes the first write of an engine one that its memory survives.
MaySave(E) ==
  LET w == First(E)
      m == Changed(E.mem, w.key)
  IN
  /\ w.what = "save" =>
       E.pc # "over" /\ Sound(m) /\ m.agents = E.mem.agents /\ m.status \in {E.mem.status, "active"}
  /\ w.what = "outcome" =>
       /\ w.key \in {"blocked", "failed", "completed"} /\ (w.key # "blocked" => E.pc = "over")
       /\ w.key = "completed" => Kind(E.mem.stage) = "terminal"

\* What an engine remembers of a run that holds together.
Remembers(E) == MemoryIsSound(E) /\ SaveIsChecked(E) /\ EndIsLast(E)

\* A run has one of five statuses, and its agents are counted.
LEMMA StatusOnDisk ==
  ASSUME RunIsSound
  PROVE  disk.status \in {"active", "blocked", "completed", "failed", "canceled"} /\ disk # NoState
  BY DEF RunIsSound, Sound, RunStates, NoState

\* The read before a save leaves a memory that agrees with the state on disk.
LEMMA CheckKeeps ==
  ASSUME RunIsSound, NEW E, Remembers(E), E.todo # <<>>, E.seen = NoState,
         First(E).what \in {"save", "outcome"}, MaySave(E), NEW n, Looks(n, E)
  PROVE  /\ Remembers(n)
         /\ disk.status \notin {"completed", "failed"}
         /\ Adopts(n, E) => CanceledOnDisk
<1> DEFINE w == First(E)
<1>1. disk.status \in {"active", "blocked", "canceled"} /\ disk # NoState /\ Sound(disk)
  BY StatusOnDisk DEF Remembers, EndIsLast, RunIsSound
<1>2. CASE w.what = "save" /\ Final(disk.status) /\ ~Final(Held(E).status) /\ Adopts(n, E)
  <2>1. CanceledOnDisk /\ E.pc # "over"
    BY <1>1, <1>2 DEF Final, CanceledOnDisk, MaySave
  <2>2. MemoryIsSound(n)
    BY <1>1, <1>2, <2>1 DEF MemoryIsSound, Adopts, CanceledOnDisk, Sound, RunStates
  <2> QED BY <1>1, <1>2, <2>1, <2>2 DEF Remembers, SaveIsChecked, EndIsLast, Adopts, First
<1>3. CASE w.what = "save" /\ (Final(disk.status) => Final(Held(E).status)) /\ Reads(n, E, Held(E))
  <2> DEFINE m == Changed(E.mem, w.key)
  <2>1. n.mem = m /\ n.seen = disk /\ n.pc = E.pc /\ n.todo = E.todo /\ Held(E) = m
    BY <1>3 DEF Reads, Held
  <2>2. E.pc # "over" /\ Sound(m) /\ m.agents = E.mem.agents /\ m.status \in {E.mem.status, "active"}
    BY <1>3 DEF MaySave
  <2> HIDE DEF m
  <2>3. E.mem.status \notin {"completed", "failed"} /\ disk.agents <= E.mem.agents
        /\ (E.mem.status = "canceled" => CanceledOnDisk)
    BY <2>2 DEF Remembers, MemoryIsSound
  <2>4. MemoryIsSound(n)
    BY <2>1, <2>2, <2>3 DEF MemoryIsSound
  <2>5. disk.status = "canceled" => m.status = "canceled"
    BY <1>3, <2>1, <2>2, <2>3 DEF Final
  <2> QED BY <1>1, <1>3, <2>1, <2>4, <2>5 DEF Remembers, SaveIsChecked, EndIsLast, Adopts, First
<1>4. CASE w.what = "outcome" /\ Reads(n, E, Held(E))
  <2>1. PICK status : status = IF CanceledOnDisk THEN "canceled" ELSE w.key
    OBVIOUS
  <2>2. n.mem = Ended(E.mem, status) /\ n.seen = disk /\ n.pc = E.pc /\ n.todo = E.todo
    BY <1>4, <2>1 DEF Reads, Held
  <2>3. /\ w.key \in {"blocked", "failed", "completed"} /\ (w.key # "blocked" => E.pc = "over")
        /\ w.key = "completed" => Kind(E.mem.stage) = "terminal"
    BY <1>4 DEF MaySave
  <2>4. Sound(E.mem) /\ disk.agents <= E.mem.agents
    BY DEF Remembers, MemoryIsSound
  <2>5. Sound(n.mem) /\ n.mem.status = status /\ n.mem.agents = E.mem.agents
    <3>1. CASE status = "completed"
      BY <2>1, <2>2, <2>3, <2>4, <3>1, CompletedIsSound
    <3>2. CASE status # "completed"
      BY <2>1, <2>2, <2>3, <2>4, <3>2, EndedIsSound
    <3> QED BY <3>1, <3>2
  <2>6. MemoryIsSound(n)
    BY <2>1, <2>2, <2>3, <2>4, <2>5 DEF MemoryIsSound
  <2> QED BY <1>1, <1>4, <2>1, <2>2, <2>5, <2>6 DEF Remembers, SaveIsChecked, EndIsLast, Adopts, First, CanceledOnDisk
<1> QED BY <1>2, <1>3, <1>4 DEF Looks

\* The memory of an engine that has checked the state on disk replaces it.
LEMMA SavedFiles ==
  ASSUME RunIsSound, CancelsKnow, NEW E, Remembers(E), E.seen # NoState, E.seen = disk, disk' = E.mem,
         UNCHANGED <<workers, reports, verdicts, gate, log, baseline, launched, changed, owner, cancel>>,
         NEW n, NEW err, Pops(n, E, err)
  PROVE  /\ RunIsSound' /\ CancelsKnow'
         /\ MemoryIsSound(n)' /\ SaveIsChecked(n)'
         /\ E.pc # "over" => EndIsLast(n)'
         /\ CanceledOnDisk => CanceledOnDisk'
<1>1. /\ Sound(E.mem) /\ disk.agents <= E.mem.agents /\ (E.mem.status \in {"completed", "failed"} => E.pc = "over")
      /\ disk.status \notin {"completed", "failed"} /\ (disk.status = "canceled" => E.mem.status = "canceled")
  BY DEF Remembers, MemoryIsSound, SaveIsChecked
<1>2. Sound(E.mem)' /\ Sound(disk)'
  BY <1>1 DEF Sound, RunStates, Ordered, Verified, GatesPassed
<1>3. SlotsAreCounted'
  <2>1. disk.agents \in Nat /\ E.mem.agents \in Nat
    BY <1>1, BoundsAssumption DEF RunIsSound, Sound, RunStates
  <2>2. ASSUME E.mem.status # "canceled" PROVE AtMost(E.mem.agents)
    <3>1. AtMost(disk.agents)
      BY <1>1, <2>2 DEF RunIsSound, SlotsAreCounted
    <3>2. /\ \A x \in launched : x[1][1] \in Nat
          /\ Cardinality(launched) \in Nat
      BY FS_CardinalityType DEF RunIsSound, SlotsAreCounted, Ids
    <3> QED BY <1>1, <2>1, <3>1, <3>2 DEF AtMost
  <2> QED BY <2>2 DEF RunIsSound, SlotsAreCounted, AtMost
<1>4. FilesAgree'
  <2>1. \A status \in log : Final(status) => status = "canceled" /\ disk.status = "canceled"
    BY <1>1 DEF RunIsSound, FilesAgree, Final
  <2> QED BY <1>1, <2>1 DEF RunIsSound, FilesAgree, Started
<1>5. CancelsKnow'
  BY <1>1 DEF CancelsKnow, CanceledOnDisk
<1>6. MemoryIsSound(n)'
  <2>1. E.mem.agents \in Nat
    BY <1>1, BoundsAssumption DEF Sound, RunStates
  <2> QED BY <1>1, <1>2, <2>1 DEF MemoryIsSound, Pops, CanceledOnDisk
<1> QED BY <1>1, <1>2, <1>3, <1>4, <1>5, <1>6 DEF RunIsSound, SaveIsChecked, EndIsLast, Pops, CanceledOnDisk

\* What makes a write of another file one that the files of the run agree after.
MayWrite(E) ==
  LET w == First(E) IN
  /\ w.what = "worker" => w.key \in Ids /\ w.val \in {"running", "done", "failed", "canceled"}
  /\ w.what = "report" => w.key \in DOMAIN workers
  /\ w.what = "gate" => Kind(disk.stage) \in Acts /\ SameStage(E.mem) /\ E.pc # "over"
  /\ w.what = "announce" =>
       /\ w.key \in {"blocked", "failed", "completed"}
       /\ w.key = "blocked" \/ E.err \/ E.mem.status # w.key \/ disk.status = w.key
  /\ w.what = "launch" => Fresh(w.key) /\ w.key \in DOMAIN workers /\ (CanceledOnDisk \/ w.key[1] = disk.agents)

\* An agent that starts has a number of its own.
LEMMA LaunchCounts ==
  ASSUME RunIsSound, NEW id, Fresh(id), CanceledOnDisk \/ id[1] = disk.agents, UNCHANGED disk,
         launched' = launched \cup {<<id, Cardinality(launched) + 1>>}
  PROVE  SlotsAreCounted'
<1> DEFINE k == Cardinality(launched) + 1
           x == <<id, k>>
<1>1. IsFiniteSet(launched) /\ Cardinality(launched) \in Nat /\ launched \subseteq Ids \X Nat
  BY FS_CardinalityType DEF RunIsSound, SlotsAreCounted
<1>2. id \in Ids /\ id[1] \in Nat /\ Cardinality(launched) <= id[1] - 1 /\ (MaxAgents > 0 => id[1] <= MaxAgents)
  BY DEF Fresh, AtMost, Ids
<1>3. \A y \in launched : y[1][1] \in Nat /\ y[1][1] <= id[1] - 1 /\ y[1] # id
  <2>1. \A y \in launched : y[1][1] \in Nat /\ y[1][1] <= id[1] - 1
    BY <1>1, <1>2 DEF Fresh, AtMost, Ids
  <2>2. \A y \in launched : y[1] # id
    BY <1>2, <2>1
  <2> QED BY <2>1, <2>2
<1>4. x \notin launched /\ x \in Ids \X Nat /\ x[1] = id
  BY <1>1, <1>2, <1>3
<1> HIDE DEF x
<1>5. launched' = launched \cup {x}
  BY DEF x
<1>6. IsFiniteSet(launched') /\ Cardinality(launched') = Cardinality(launched) + 1
  BY <1>1, <1>4, <1>5, FS_AddElement
<1>7. launched' \subseteq Ids \X Nat
  BY <1>1, <1>4, <1>5
<1>8. \A y, z \in launched' : y[1] = z[1] => y = z
  BY <1>3, <1>4, <1>5 DEF RunIsSound, SlotsAreCounted
<1>9. Cardinality(launched') <= id[1] /\ \A y \in launched' : y[1][1] <= id[1]
  BY <1>1, <1>2, <1>3, <1>4, <1>5, <1>6
<1>10. MaxAgents > 0 => Cardinality(launched') <= MaxAgents
  <2>1. MaxAgents \in Nat /\ Cardinality(launched') \in Nat
    BY <1>1, <1>6, ConfigAssumption
  <2> QED BY <1>2, <1>9, <2>1
<1>11. disk.status # "canceled" => AtMost(disk.agents)'
  BY <1>9 DEF AtMost, CanceledOnDisk
<1> QED BY <1>6, <1>7, <1>8, <1>10, <1>11 DEF SlotsAreCounted

\* A file is written.
LEMMA WrittenFiles ==
  ASSUME RunIsSound, CancelsKnow, NEW e \in Engines, NEW E, E = engine[e], Remembers(E), E.todo # <<>>,
         First(E).what \notin StateWrites, MayWrite(E), WriteFile(e), UNCHANGED <<changed, owner, cancel>>,
         NEW n, Pops(n, E, E.err)
  PROVE  /\ RunIsSound' /\ CancelsKnow' /\ launched \subseteq launched'
         /\ MemoryIsSound(n)' /\ SaveIsChecked(n)'
         /\ E.pc # "over" => EndIsLast(n)'
<1> DEFINE w == First(E)
<1>1. /\ workers' = IF w.what = "worker" THEN Put(workers, w) ELSE workers
      /\ reports' = IF w.what = "report" THEN Put(reports, w) ELSE reports
      /\ gate' = IF w.what = "gate" THEN w.val ELSE gate
      /\ log' = IF w.what = "announce" /\ ~(E.err \/ E.mem.status # w.key) THEN log \cup {w.key} ELSE log
      /\ launched' = IF w.what = "launch" THEN launched \cup {<<w.key, Cardinality(launched) + 1>>} ELSE launched
      /\ disk' = disk
  BY DEF WriteFile, Silent, Todo, Mem, First
<1>2. /\ w.what = "worker" => w.key \in Ids /\ w.val \in {"running", "done", "failed", "canceled"}
      /\ w.what = "report" => w.key \in DOMAIN workers
      /\ w.what = "gate" => Kind(disk.stage) \in Acts /\ SameStage(E.mem) /\ E.pc # "over"
      /\ w.what = "announce" =>
           /\ w.key \in {"blocked", "failed", "completed"}
           /\ w.key = "blocked" \/ E.err \/ E.mem.status # w.key \/ disk.status = w.key
      /\ w.what = "launch" => Fresh(w.key) /\ w.key \in DOMAIN workers /\ (CanceledOnDisk \/ w.key[1] = disk.agents)
  BY DEF MayWrite
<1> HIDE DEF w
<1>3. Sound(disk) /\ Sound(E.mem) /\ (E.mem.status \in {"completed", "failed"} => E.pc = "over")
      /\ (disk.status \in {"completed", "failed"} => E.pc = "over")
  BY DEF RunIsSound, Remembers, MemoryIsSound, EndIsLast
<1>4. Sound(disk)' /\ Sound(E.mem)'
  <2>1. ASSUME NEW m, Sound(m), w.what = "gate" => Kind(m.stage) \in Acts /\ m.status # "completed"
        PROVE  Sound(m)'
    <3>1. m \in RunStates /\ Ordered(m) /\ RunStates' = RunStates
      BY <2>1 DEF Sound, RunStates
    <3>2. Verified(m)'
      BY <1>1, <2>1 DEF Sound, Verified, GatesPassed, Acts, Works
    <3> QED BY <3>1, <3>2 DEF Sound, Ordered
  <2>2. Sound(disk)'
    <3>1. PICK m : m = disk
      OBVIOUS
    <3>2. Sound(m)'
      BY <1>2, <1>3, <2>1, <3>1
    <3> QED BY <1>1, <3>1, <3>2
  <2>3. Sound(E.mem)'
    <3>1. PICK m : m = E.mem
      OBVIOUS
    <3>2. Sound(m)'
      BY <1>2, <1>3, <2>1, <3>1 DEF SameStage
    <3> QED BY <3>1, <3>2
  <2> QED BY <2>2, <2>3
<1>5. SlotsAreCounted'
  <2>1. CASE w.what = "launch"
    <3>1. PICK id : id = w.key
      OBVIOUS
    <3> QED BY <1>1, <1>2, <2>1, <3>1, LaunchCounts
  <2>2. CASE w.what # "launch"
    BY <1>1, <2>2 DEF RunIsSound, SlotsAreCounted, AtMost
  <2> QED BY <2>1, <2>2
<1>6. FilesAgree'
  <2>1. /\ DOMAIN workers' = DOMAIN workers \cup (IF w.what = "worker" THEN {w.key} ELSE {})
        /\ DOMAIN reports' = DOMAIN reports \cup (IF w.what = "report" THEN {w.key} ELSE {})
        /\ \A id \in DOMAIN workers' : workers'[id] \in {"running", "done", "failed", "canceled"}
    BY <1>1, <1>2 DEF Put, RunIsSound, FilesAgree
  <2>2. /\ DOMAIN workers' \subseteq Ids /\ DOMAIN reports' \subseteq DOMAIN workers' /\ changed \subseteq DOMAIN workers'
    BY <1>2, <2>1 DEF RunIsSound, FilesAgree
  <2>3. \A id \in Ids : Started(id)' => id \in DOMAIN workers'
    BY <1>1, <1>2, <2>1 DEF RunIsSound, FilesAgree, Started
  <2>4. log' \subseteq {"blocked", "completed", "failed", "canceled"} /\ \A status \in log' : Final(status) => disk.status = status
    BY <1>1, <1>2 DEF RunIsSound, FilesAgree, Final
  <2> QED BY <1>1, <2>1, <2>2, <2>3, <2>4 DEF RunIsSound, FilesAgree
<1>7. CancelsKnow'
  BY <1>1 DEF CancelsKnow, CanceledOnDisk
<1>8. MemoryIsSound(n)'
  BY <1>1, <1>4 DEF MemoryIsSound, Remembers, Pops, CanceledOnDisk
<1>9. SaveIsChecked(n)' /\ (E.pc # "over" => EndIsLast(n)')
  BY <1>1, <1>3 DEF SaveIsChecked, EndIsLast, Pops
<1> QED BY <1>1, <1>4, <1>5, <1>6, <1>7, <1>8, <1>9 DEF RunIsSound

-----------------------------------------------------------------------------
(* The place before a stage *)

Said(name) == Quits(Event(name))

\* The writes of the plans.
LEMMA SaveIs ==
  \A c : Save(c).what = "save" /\ Save(c).key = c /\ Save(c).mode = "strict" /\ Save(c).stop = ""
  BY DEF Save, Do

\* An event that may end the loop as a write.
LEMMA SaidIs ==
  \A name : Said(name).what = "event" /\ Said(name).mode = "strict" /\ Said(name).stop = "quit"
  BY DEF Said, Quits, Event, Do

\* What is left to do in front of a stage.
LEMMA StepTodo ==
  ASSUME NEW E, StepPlace(E), E.todo # <<>>
  PROVE  LET m == E.mem
             w == First(E)
             said == Said("stage_completed")
         IN
         \/ /\ w = said /\ Later(E) = <<>> /\ E.todo = <<said>>
            /\ E.err \/ (Synced(m) /\ AtMost(m.agents))
         \/ \E next \in Stages :
              /\ w = Save(next) /\ Later(E) = <<said>> /\ E.todo = Leave(next)
              /\ MayLeave(E.worker, next) /\ AtMost(m.agents) /\ m.agents = disk.agents /\ m.visits = disk.visits
              /\ IF E.seen = NoState THEN Synced(m)
                 ELSE m.stage = next /\ m.stages = Gone(disk)
<1>1. CASE E.todo = <<Quits(Event("stage_completed"))>> /\ (E.err \/ (Synced(E.mem) /\ AtMost(E.mem.agents)))
  BY <1>1, Tuples DEF Said, First, Later
<1>2. ASSUME NEW next \in Stages, E.todo = Leave(next),
             MayLeave(E.worker, next) /\ AtMost(E.mem.agents) /\ E.mem.agents = disk.agents /\ E.mem.visits = disk.visits,
             IF E.seen = NoState THEN Synced(E.mem)
             ELSE E.mem.stage = next /\ E.mem.stages = Gone(disk)
      PROVE  /\ First(E) = Save(next) /\ Later(E) = <<Said("stage_completed")>>
  BY <1>2, Tuples DEF Leave, Said, First, Later
<1> QED BY <1>1, <1>2 DEF StepPlace

\* A stage is left for one that may follow it.
LEMMA LeavesForward ==
  ASSUME RunIsSound, NEW id, NEW next \in Stages, MayLeave(id, next)
  PROVE  Forward(disk.stage, next) /\ (Kind(next) = "terminal" => GatesPassed(disk)) /\ disk.stage \in Stages
<1>1. disk.stage \in Stages /\ Kind(disk.stage) \in Acts
  BY DEF RunIsSound, Sound, RunStates, MayLeave
<1>2. /\ next = Workflow[disk.stage].next \/ (Kind(disk.stage) = "review" /\ next = Workflow[disk.stage].onFixes)
      /\ Kind(disk.stage) = "gate" => GatesPassed(disk)
  BY DEF MayLeave
<1> QED BY <1>1, <1>2, WorkflowFacts DEF StageFacts, Acts

\* The read before a stage is left changes no condition of leaving it.
LEMMA StepCheck ==
  ASSUME RunIsSound, NEW E, E.pc = "step", StepPlace(E), Remembers(E), E.todo # <<>>, E.seen = NoState,
         First(E).what \in {"save", "outcome"}
  PROVE  /\ MaySave(E)
         /\ \A n : Looks(n, E) => StepPlace(n)
<1>1. PICK next \in Stages :
        /\ First(E) = Save(next) /\ Later(E) = <<Said("stage_completed")>> /\ E.todo = Leave(next)
        /\ MayLeave(E.worker, next) /\ AtMost(E.mem.agents) /\ E.mem.agents = disk.agents /\ Synced(E.mem)
  <2>1. First(E) # Said("stage_completed")
    BY SaidIs
  <2> QED BY <2>1, StepTodo
<1> DEFINE m == Changed(E.mem, next)
<1>2. /\ Sound(E.mem) /\ E.mem.stage = disk.stage /\ E.mem.stages = disk.stages /\ E.mem.visits = disk.visits
  BY <1>1 DEF Remembers, MemoryIsSound, Synced, SameStage
<1>3. /\ Sound(m) /\ m.status = E.mem.status /\ m.stage = next
      /\ m.stages = Gone(disk) /\ m.agents = disk.agents /\ m.visits = disk.visits
  <2>1. Kind(E.mem.stage) \in Acts /\ Forward(E.mem.stage, next) /\ (Kind(next) = "terminal" => GatesPassed(E.mem))
    BY <1>1, <1>2, LeavesForward DEF MayLeave, GatesPassed
  <2>2. /\ Sound(m) /\ m.status = E.mem.status /\ m.stage = next /\ m.agents = E.mem.agents /\ m.visits = E.mem.visits
        /\ m.stages = Gone(E.mem)
    BY <1>2, <2>1, LeftIsSound
  <2>3. Gone(E.mem) = Gone(disk)
    BY <1>2 DEF Gone
  <2> HIDE DEF m
  <2> QED BY <1>1, <1>2, <2>2, <2>3
<1> HIDE DEF m
<1>4. First(E).what = "save" /\ First(E).key = next
  BY <1>1, SaveIs
<1>5. MaySave(E)
  BY <1>1, <1>3, <1>4 DEF MaySave, m
<1>6. ASSUME NEW n, Looks(n, E) PROVE StepPlace(n)
  <2>1. CASE Adopts(n, E)
    BY <1>1, <2>1 DEF StepPlace, Adopts, Synced, SameStage, Said
  <2>2. CASE Reads(n, E, Held(E))
    <3>1. n.mem = m /\ n.seen = disk /\ n.todo = Leave(next) /\ n.worker = E.worker
      BY <1>1, <1>4, <2>2 DEF Reads, Held, SameWork, m
    <3>2. disk # NoState /\ AtMost(m.agents)
      BY <1>1, <1>3, StatusOnDisk
    <3> QED BY <1>1, <1>3, <3>1, <3>2 DEF StepPlace
  <2> QED BY <1>6, <2>1, <2>2 DEF Looks
<1> QED BY <1>5, <1>6

\* A failed write: the event may be lost, and so may the stage that was left.
LEMMA StepFail ==
  ASSUME NEW E, StepPlace(E), E.todo # <<>>
  PROVE  /\ First(E).mode = "strict" /\ First(E).stop \in {"", "quit"}
         /\ \A n : Pops(n, E, TRUE) => StepPlace(n)
<1>1. Later(E) \in {<<>>, <<Said("stage_completed")>>} /\ First(E).mode = "strict" /\ First(E).stop \in {"", "quit"}
  <2>1. \/ First(E) = Said("stage_completed") /\ Later(E) = <<>>
        \/ \E next \in Stages : First(E) = Save(next) /\ Later(E) = <<Said("stage_completed")>>
    BY StepTodo
  <2> QED BY <2>1, SaveIs, SaidIs
<1> QED BY <1>1 DEF Pops, StepPlace, Said

\* The stage is left in one write, and announced in another.
LEMMA StepWrite ==
  ASSUME NEW E, StepPlace(E), E.todo # <<>>, ~(E.err /\ First(E).stop # ""), NEW n, Pops(n, E, E.err)
  PROVE  /\ MayWrite(E)
         /\ First(E).what \in StateWrites /\ E.seen # NoState /\ disk' = E.mem /\ UNCHANGED launched => StepPlace(n)'
         /\ First(E).what \notin StateWrites /\ UNCHANGED <<disk, launched>> => StepPlace(n)'
<1>1. CASE /\ First(E) = Said("stage_completed") /\ Later(E) = <<>>
           /\ E.err \/ (Synced(E.mem) /\ AtMost(E.mem.agents))
  <2>1. Synced(E.mem) /\ AtMost(E.mem.agents) /\ n.mem = E.mem /\ n.todo = <<>>
    BY <1>1, SaidIs DEF Pops
  <2>2. First(E).what = "event"
    BY <1>1, SaidIs
  <2> QED BY <2>1, <2>2 DEF MayWrite, StateWrites, StepPlace, Synced, SameStage, AtMost
<1>2. ASSUME NEW next \in Stages, First(E) = Save(next), Later(E) = <<Said("stage_completed")>>, AtMost(E.mem.agents)
      PROVE  /\ MayWrite(E) /\ First(E).what \in StateWrites
             /\ disk' = E.mem /\ UNCHANGED launched => StepPlace(n)'
  <2>1. n.mem = E.mem /\ n.todo = <<Said("stage_completed")>>
    BY <1>2 DEF Pops
  <2>2. First(E).what = "save"
    BY <1>2, SaveIs
  <2> QED BY <1>2, <2>1, <2>2 DEF MayWrite, StateWrites, StepPlace, Synced, SameStage, AtMost, Said
<1> QED BY <1>1, <1>2, StepTodo

-----------------------------------------------------------------------------
(* The entry into a stage *)

\* What is left to do when a stage is entered.
LEMMA DispatchTodo ==
  ASSUME NEW E, DispatchPlace(E), E.todo # <<>>
  PROVE  LET m == E.mem
             said == Said("stage_started")
         IN
         /\ Kind(m.stage) \in Acts /\ SameStage(m)
         /\ \/ First(E) = Save("enter") /\ Later(E) = <<said>> /\ m.agents = disk.agents /\ AtMost(m.agents)
            \/ First(E) = said /\ Later(E) = <<>> /\ (E.err \/ (Synced(m) /\ AtMost(m.agents)))
  BY Tuples DEF DispatchPlace, Said, First, Later

\* The read before the entry is saved.
LEMMA DispatchCheck ==
  ASSUME RunIsSound, NEW E, E.pc = "dispatch", DispatchPlace(E), Remembers(E), E.todo # <<>>, E.seen = NoState,
         First(E).what \in {"save", "outcome"}
  PROVE  /\ MaySave(E)
         /\ \A n : Looks(n, E) => DispatchPlace(n)
<1> DEFINE m == Changed(E.mem, "enter")
           said == Said("stage_started")
<1>1. /\ First(E) = Save("enter") /\ Later(E) = <<said>> /\ E.mem.agents = disk.agents /\ AtMost(E.mem.agents)
      /\ Kind(E.mem.stage) \in Acts /\ SameStage(E.mem) /\ E.todo = <<Save("enter"), said>>
  <2>1. First(E) # said
    BY SaidIs
  <2> QED BY <2>1, DispatchTodo, Tuples DEF DispatchPlace, Said, First
<1>2. Sound(E.mem) /\ E.mem.status # "completed"
  BY DEF Remembers, MemoryIsSound
<1>3. Sound(m) /\ m.status = "active" /\ m.stage = E.mem.stage /\ m.agents = E.mem.agents
  BY <1>2, EnterIsSound
<1> HIDE DEF m
<1>4. First(E).what = "save" /\ First(E).key = "enter"
  BY <1>1, SaveIs
<1>5. MaySave(E)
  BY <1>3, <1>4 DEF MaySave, m
<1>6. ASSUME NEW n, Looks(n, E) PROVE DispatchPlace(n)
  <2>1. CASE Adopts(n, E)
    BY <1>1, <2>1 DEF DispatchPlace, Adopts, Synced, SameStage, Said
  <2>2. CASE Reads(n, E, Held(E))
    <3>1. n.mem = m /\ n.todo = <<Save("enter"), said>>
      BY <1>1, <1>4, <2>2 DEF Reads, Held, m
    <3> QED BY <1>1, <1>3, <3>1 DEF DispatchPlace, SameStage, AtMost, Said
  <2> QED BY <1>6, <2>1, <2>2 DEF Looks
<1> QED BY <1>5, <1>6

\* An entry that could not be written or announced.
LEMMA DispatchFail ==
  ASSUME NEW E, DispatchPlace(E), E.todo # <<>>
  PROVE  /\ First(E).mode = "strict" /\ First(E).stop \in {"", "quit"}
         /\ ~(E.err /\ First(E).stop # "") => \A n : Pops(n, E, TRUE) => DispatchPlace(n)
<1>1. \/ First(E) = Save("enter") /\ Later(E) = <<Said("stage_started")>>
      \/ First(E) = Said("stage_started") /\ Later(E) = <<>> /\ (E.err \/ (Synced(E.mem) /\ AtMost(E.mem.agents)))
  BY DispatchTodo
<1>2. Kind(E.mem.stage) \in Acts /\ SameStage(E.mem)
  BY DEF DispatchPlace
<1>3. First(E).mode = "strict" /\ First(E).stop \in {"", "quit"} /\ (First(E) = Said("stage_started") => First(E).stop = "quit")
  BY <1>1, SaveIs, SaidIs
<1> QED BY <1>1, <1>2, <1>3 DEF Pops, DispatchPlace, Said

\* An entry that was.
LEMMA DispatchWrite ==
  ASSUME NEW E, DispatchPlace(E), E.todo # <<>>, ~(E.err /\ First(E).stop # ""), NEW n, Pops(n, E, E.err)
  PROVE  /\ MayWrite(E)
         /\ First(E).what \in StateWrites /\ disk' = E.mem /\ UNCHANGED launched => DispatchPlace(n)'
         /\ First(E).what \notin StateWrites /\ UNCHANGED <<disk, launched>> => DispatchPlace(n)'
<1>1. Kind(E.mem.stage) \in Acts /\ SameStage(E.mem)
  BY DEF DispatchPlace
<1>2. CASE /\ First(E) = Said("stage_started") /\ Later(E) = <<>>
           /\ E.err \/ (Synced(E.mem) /\ AtMost(E.mem.agents))
  <2>1. Synced(E.mem) /\ AtMost(E.mem.agents) /\ n.mem = E.mem /\ n.todo = <<>>
    BY <1>2, SaidIs DEF Pops
  <2>2. First(E).what = "event"
    BY <1>2, SaidIs
  <2> QED BY <1>1, <2>1, <2>2 DEF MayWrite, StateWrites, DispatchPlace, Synced, SameStage, AtMost
<1>3. CASE First(E) = Save("enter") /\ Later(E) = <<Said("stage_started")>> /\ AtMost(E.mem.agents)
  <2>1. n.mem = E.mem /\ n.todo = <<Said("stage_started")>>
    BY <1>3 DEF Pops
  <2>2. First(E).what = "save"
    BY <1>3, SaveIs
  <2> QED BY <1>1, <1>3, <2>1, <2>2 DEF MayWrite, StateWrites, DispatchPlace, Synced, SameStage, AtMost, Said
<1> QED BY <1>2, <1>3, DispatchTodo

-----------------------------------------------------------------------------
(* A gate stage *)

Run == Errs(Do("run", "", ""))

\* The start of the gates as a write.
LEMMA RunIs ==
  Run.what = "run" /\ Run.stop = "error" /\ Run.mode = "strict"
  BY DEF Run, Errs, Do

\* What is left to do before the gates run.
LEMMA GateTodo ==
  ASSUME NEW E, GatePlace(E), E.todo # <<>>
  PROVE  \/ First(E) = Save("touch") /\ Later(E) = <<Run>> /\ E.todo = <<Save("touch"), Run>>
         \/ First(E) = Run /\ Later(E) = <<>> /\ E.todo = <<Run>>
  BY Tuples, ZenonT(30) DEF GatePlace, Run, First, Later

\* The read before the gates.
LEMMA GateCheck ==
  ASSUME RunIsSound, NEW E, E.pc = "gate", GatePlace(E), Remembers(E), E.todo # <<>>, E.seen = NoState,
         First(E).what \in {"save", "outcome"}
  PROVE  /\ MaySave(E)
         /\ \A n : Looks(n, E) => GatePlace(n)
<1> DEFINE m == Changed(E.mem, "touch")
<1>1. First(E) = Save("touch") /\ Later(E) = <<Run>> /\ E.todo = <<Save("touch"), Run>>
  BY GateTodo, RunIs
<1>2. Sound(E.mem) /\ Synced(E.mem) /\ Kind(disk.stage) = "gate"
  BY DEF Remembers, MemoryIsSound, GatePlace
<1>3. /\ Sound(m) /\ m.status = E.mem.status /\ m.agents = E.mem.agents
      /\ Synced(m)
  BY <1>2, ClearIsSound DEF Synced, SameStage
<1> HIDE DEF m
<1>4. First(E).what = "save" /\ First(E).key = "touch"
  BY <1>1, SaveIs
<1>5. MaySave(E)
  BY <1>3, <1>4 DEF MaySave, m
<1>6. ASSUME NEW n, Looks(n, E) PROVE GatePlace(n)
  <2>1. CASE Adopts(n, E)
    BY <1>1, <1>2, <2>1 DEF GatePlace, Adopts, Synced, SameStage, Run
  <2>2. CASE Reads(n, E, Held(E))
    <3>1. n.mem = m /\ n.todo = <<Save("touch"), Run>>
      BY <1>1, <1>4, <2>2 DEF Reads, Held, m
    <3> QED BY <1>2, <1>3, <3>1 DEF GatePlace, Run
  <2> QED BY <1>6, <2>1, <2>2 DEF Looks
<1> QED BY <1>5, <1>6

\* A save before the gates that fails.
LEMMA GateFail ==
  ASSUME NEW E, GatePlace(E), E.todo # <<>>
  PROVE  /\ First(E).mode = "strict" /\ First(E).stop \in {"", "error"}
         /\ \A n : First(E).what # "run" /\ Pops(n, E, TRUE) => GatePlace(n)
<1>1. First(E).mode = "strict" /\ First(E).stop \in {"", "error"}
  BY GateTodo, SaveIs, RunIs, ZenonT(30)
<1>2. First(E).what # "run" => Later(E) = <<Run>>
  BY GateTodo, RunIs
<1> QED BY <1>1, <1>2 DEF Pops, GatePlace, Run

\* A save before the gates, and their start.
LEMMA GateWrite ==
  ASSUME NEW E, GatePlace(E), E.todo # <<>>, NEW n, Pops(n, E, E.err)
  PROVE  /\ MayWrite(E)
         /\ First(E).what \in StateWrites /\ disk' = E.mem => GatePlace(n)'
         /\ First(E).what \notin StateWrites /\ UNCHANGED disk => GatePlace(n)'
<1>1. Synced(E.mem) /\ Kind(disk.stage) = "gate"
  BY DEF GatePlace
<1>2. First(E).what \in {"save", "run"} /\ n.mem = E.mem /\ n.todo \in {<<>>, <<Run>>}
  BY GateTodo, RunIs, SaveIs, ZenonT(30) DEF Pops
<1> QED BY <1>1, <1>2 DEF MayWrite, GatePlace, Synced, SameStage, Run

-----------------------------------------------------------------------------
(* The start of an agent *)

\* The start of an agent, ...
LEMMA AgentIs ==
  \A id : Agent(id).what = "launch" /\ Agent(id).key = id /\ Agent(id).stop = "error" /\ Agent(id).mode = "strict"
  BY DEF Agent, Errs, Do

\* ... its announcement, ...
LEMMA AnnouncedIs ==
  Announced.what = "event" /\ Announced.mode = "strict" /\ Announced.stop = "halt"
  BY DEF Announced, Halts, Event, Do

\* ... and its record, as writes.
LEMMA OpenIs ==
  \A id : /\ Open(id).what = "worker" /\ Open(id).key = id /\ Open(id).val = "running"
          /\ Open(id).mode = "strict" /\ Open(id).stop = ""
  BY DEF Open, File, Do

\* What is left to do before an agent starts.
LEMMA PlanTodo ==
  ASSUME NEW E, NEW id, E.todo \in AgentPlans(id)
  PROVE  /\ E.todo # <<>>
         /\ \/ /\ First(E) = Open(id) /\ Later(E) = <<Save("start"), Announced, Agent(id)>>
               /\ E.todo = <<Open(id), Save("start"), Announced, Agent(id)>>
            \/ /\ First(E) = Save("start") /\ Later(E) = <<Announced, Agent(id)>>
               /\ E.todo = <<Save("start"), Announced, Agent(id)>>
            \/ First(E) = Announced /\ Later(E) = <<Agent(id)>> /\ E.todo = <<Announced, Agent(id)>>
            \/ First(E) = Agent(id) /\ Later(E) = <<>> /\ E.todo = <<Agent(id)>>
<1>1. CASE E.todo = <<Open(id), Save("start"), Announced, Agent(id)>>
  BY <1>1, Tuples DEF First, Later
<1>2. CASE E.todo = <<Save("start"), Announced, Agent(id)>>
  BY <1>2, Tuples DEF First, Later
<1>3. CASE E.todo = <<Announced, Agent(id)>>
  BY <1>3, Tuples DEF First, Later
<1>4. CASE E.todo = <<Agent(id)>>
  BY <1>4, Tuples DEF First, Later
<1> QED BY <1>1, <1>2, <1>3, <1>4 DEF AgentPlans

\* An engine that checks the state or fails to write still has to start its agent.
LEMMA CheckFollows ==
  ASSUME NEW E, StartsItsAgent(E), E.pc # "off", E.todo # <<>>, E.seen = NoState, First(E).what \in {"save", "outcome"},
         NEW n, Looks(n, E)
  PROVE  Follows(n, E)
<1>1. IsEngine(n) /\ n.pc = E.pc /\ n.worker = E.worker
  BY DEF Looks, Adopts, Reads, SameWork
<1>2. CASE E.pc # "agent"
  BY <1>1, <1>2 DEF Follows, StartsItsAgent, HasAgent
<1>3. CASE E.pc = "agent"
  <2>. PICK id : id = E.worker
    OBVIOUS
  <2>1. E.todo \in AgentPlans(id)
    BY <1>3 DEF StartsItsAgent, HasAgent
  <2>2. First(E) # Open(id) /\ First(E) # Announced /\ First(E) # Agent(id)
    BY OpenIs, AnnouncedIs, AgentIs
  <2>3. Later(E) = <<Announced, Agent(id)>> /\ E.todo = <<Save("start"), Announced, Agent(id)>>
    <3>1. \/ First(E) = Open(id)
          \/ Later(E) = <<Announced, Agent(id)>> /\ E.todo = <<Save("start"), Announced, Agent(id)>>
          \/ First(E) = Announced
          \/ First(E) = Agent(id)
      BY <2>1, PlanTodo
    <3> QED BY <2>2, <3>1
  <2>4. CASE Adopts(n, E)
    BY <1>1, <1>3, <2>3, <2>4, Tuples DEF Adopts, Follows, StartsItsAgent, HasAgent, AgentPlans
  <2>5. CASE Reads(n, E, Held(E))
    BY <1>1, <1>3, <2>3, <2>5, Tuples DEF Reads, Follows, StartsItsAgent, HasAgent, AgentPlans
  <2> QED BY <2>4, <2>5 DEF Looks
<1> QED BY <1>2, <1>3

\* An engine that does its next write starts no agent but the one it was about to start.
LEMMA PopFollows ==
  ASSUME NEW E, StartsItsAgent(E), E.pc # "off", E.todo # <<>>, First(E).what # "launch", NEW err, NEW n, Pops(n, E, err)
  PROVE  Follows(n, E)
<1>1. IsEngine(n) /\ n.pc = E.pc /\ n.worker = E.worker /\ n.todo = Later(E) /\ n.seen = NoState
  BY DEF Pops, SameWork
<1>2. CASE E.pc # "agent"
  BY <1>1, <1>2 DEF Follows, StartsItsAgent, HasAgent
<1>3. CASE E.pc = "agent"
  <2>. PICK id : id = E.worker
    OBVIOUS
  <2>1. E.todo \in AgentPlans(id)
    BY <1>3 DEF StartsItsAgent, HasAgent
  <2>2. Later(E) \in AgentPlans(id) /\ Later(E) # <<>>
    <3>1. First(E) # Agent(id)
      BY AgentIs
    <3>2. \/ Later(E) = <<Save("start"), Announced, Agent(id)>>
          \/ Later(E) = <<Announced, Agent(id)>>
          \/ Later(E) = <<Agent(id)>>
          \/ First(E) = Agent(id)
      BY <2>1, PlanTodo
    <3>3. <<Save("start"), Announced, Agent(id)>> # <<>> /\ <<Announced, Agent(id)>> # <<>> /\ <<Agent(id)>> # <<>>
      BY Tuples
    <3> QED BY <3>1, <3>2, <3>3 DEF AgentPlans
  <2> QED BY <1>1, <1>3, <2>2 DEF Follows, StartsItsAgent, HasAgent
<1> QED BY <1>2, <1>3

\* Neither does one that goes elsewhere.
LEMMA LeaveFollows ==
  ASSUME NEW n, NEW E, IsEngine(n), n.pc \notin {"agent", "off"}
  PROVE  Follows(n, E)
  BY DEF Follows, StartsItsAgent, HasAgent

\* The places on the way to an agent.
LEMMA OpenTodo ==
  ASSUME NEW E, OpenWorkerPlace(E), E.todo # <<>>
  PROVE  LET m == E.mem
             id == E.worker
         IN
         /\ SameStage(m) /\ m.visits = disk.visits /\ id \in Ids /\ id[2] = disk.stage /\ Kind(disk.stage) \in Works
         /\ Fresh(id)
         /\ \/ /\ First(E) = Open(id) /\ Later(E) = <<Save("start"), Announced, Agent(id)>>
               /\ m.agents = id[1] /\ disk.agents = id[1] - 1
            \/ /\ First(E) = Save("start") /\ Later(E) = <<Announced, Agent(id)>>
               /\ E.todo = <<Save("start"), Announced, Agent(id)>>
               /\ m.agents = id[1] /\ disk.agents = id[1] - 1 /\ (E.err \/ id \in DOMAIN workers)
            \/ /\ First(E) = Announced /\ Later(E) = <<Agent(id)>>
               /\ E.err \/ (id \in DOMAIN workers /\ Synced(m) /\ Current(id))
            \/ /\ First(E) = Agent(id) /\ Later(E) = <<>>
               /\ E.err \/ (id \in DOMAIN workers /\ Synced(m) /\ Current(id))
<1> DEFINE m == E.mem
           id == E.worker
<1>1. /\ SameStage(m) /\ m.visits = disk.visits /\ id \in Ids /\ id[2] = disk.stage /\ Kind(disk.stage) \in Works
  BY DEF OpenWorkerPlace
<1>2. CASE E.todo = <<Open(id), Save("start"), Announced, Agent(id)>> /\ Fresh(id) /\ m.agents = id[1] /\ disk.agents = id[1] - 1
  BY <1>1, <1>2, Tuples DEF First, Later
<1>3. CASE /\ E.todo = <<Save("start"), Announced, Agent(id)>> /\ Fresh(id) /\ m.agents = id[1] /\ disk.agents = id[1] - 1
           /\ E.err \/ id \in DOMAIN workers
  BY <1>1, <1>3, Tuples DEF First, Later
<1>4. CASE /\ E.todo \in {<<Announced, Agent(id)>>, <<Agent(id)>>} /\ Fresh(id)
           /\ E.err \/ (id \in DOMAIN workers /\ Synced(m) /\ Current(id))
  BY <1>1, <1>4, Tuples, ZenonT(30) DEF First, Later
<1> QED BY <1>2, <1>3, <1>4 DEF OpenWorkerPlace

\* The read before the slot of an agent is saved.
LEMMA OpenCheck ==
  ASSUME RunIsSound, NEW E, E.pc = "agent", OpenWorkerPlace(E), Remembers(E), E.todo # <<>>, E.seen = NoState,
         First(E).what \in {"save", "outcome"}
  PROVE  /\ MaySave(E)
         /\ \A n : Looks(n, E) /\ (Adopts(n, E) => CanceledOnDisk) => OpenWorkerPlace(n)
<1> DEFINE m == Changed(E.mem, "start")
           id == E.worker
<1>1. /\ E.mem.stage = disk.stage /\ E.mem.visits = disk.visits /\ id \in Ids /\ id[2] = disk.stage /\ Kind(disk.stage) \in Works
      /\ Fresh(id)
      /\ First(E) = Save("start") /\ Later(E) = <<Announced, Agent(id)>>
      /\ E.todo = <<Save("start"), Announced, Agent(id)>>
      /\ E.mem.agents = id[1] /\ disk.agents = id[1] - 1 /\ (E.err \/ id \in DOMAIN workers)
  <2>1. First(E) # Open(id) /\ First(E) # Announced /\ First(E) # Agent(id)
    BY OpenIs, AnnouncedIs, AgentIs
  <2> QED BY <2>1, OpenTodo DEF SameStage
<1>2. Sound(E.mem) /\ id = <<E.mem.agents, E.mem.stage>>
  BY <1>1 DEF Remembers, MemoryIsSound, Ids
<1>3. Sound(m) /\ m.status = E.mem.status /\ m.agents = E.mem.agents /\ m.stage = E.mem.stage /\ m.visits = E.mem.visits
  BY <1>1, <1>2, StartIsSound
<1> HIDE DEF m
<1>4. First(E).what = "save" /\ First(E).key = "start"
  BY <1>1, SaveIs
<1>5. MaySave(E)
  BY <1>3, <1>4 DEF MaySave, m
<1>6. ASSUME NEW n, Looks(n, E), Adopts(n, E) => CanceledOnDisk PROVE OpenWorkerPlace(n)
  <2>1. CASE Adopts(n, E)
    <3>1. n.mem = disk /\ n.todo = <<Announced, Agent(id)>> /\ n.seen = NoState /\ n.err = E.err /\ n.worker = id
      BY <1>1, <2>1 DEF Adopts, SameWork
    <3>2. Synced(disk) /\ Current(id) /\ SameStage(disk)
      BY <1>1, <1>6, <2>1 DEF Synced, SameStage, Current
    <3> QED BY <1>1, <3>1, <3>2 DEF OpenWorkerPlace
  <2>2. CASE Reads(n, E, Held(E))
    <3>1. n.mem = m /\ n.todo = <<Save("start"), Announced, Agent(id)>> /\ n.err = E.err /\ n.worker = id
      BY <1>1, <1>4, <2>2 DEF Reads, Held, m, SameWork
    <3> QED BY <1>1, <1>3, <3>1 DEF OpenWorkerPlace, SameStage
  <2> QED BY <1>6, <2>1, <2>2 DEF Looks
<1> QED BY <1>5, <1>6

\* A write before the start of an agent that fails: the engine remembers, and will not start it.
LEMMA OpenFail ==
  ASSUME NEW E, OpenWorkerPlace(E), E.todo # <<>>
  PROVE  /\ First(E).mode = "strict" /\ First(E).stop \in {"", "halt", "error"}
         /\ \A n : First(E).what # "launch" /\ Pops(n, E, TRUE) => OpenWorkerPlace(n)
<1> DEFINE id == E.worker
<1>1. First(E).mode = "strict" /\ First(E).stop \in {"", "halt", "error"}
  <2>1. First(E) \in {Open(id), Save("start"), Announced, Agent(id)}
    BY OpenTodo
  <2>2. ASSUME NEW w \in {Open(id), Save("start"), Announced, Agent(id)}
        PROVE  w.mode = "strict" /\ w.stop \in {"", "halt", "error"}
    <3>1. w = Open(id) \/ w = Save("start") \/ w = Announced \/ w = Agent(id)
      OBVIOUS
    <3>2. /\ Open(id).mode = "strict" /\ Open(id).stop = "" /\ Save("start").mode = "strict" /\ Save("start").stop = ""
          /\ Agent(id).mode = "strict" /\ Agent(id).stop = "error"
      BY OpenIs, SaveIs, AgentIs
    <3> QED BY <3>1, <3>2, AnnouncedIs
  <2> QED BY <2>1, <2>2
<1>2. ASSUME NEW n, First(E).what # "launch", Pops(n, E, TRUE) PROVE OpenWorkerPlace(n)
  <2>1. /\ SameStage(E.mem) /\ E.mem.visits = disk.visits /\ id \in Ids /\ id[2] = disk.stage /\ Kind(disk.stage) \in Works
        /\ Fresh(id)
        /\ \/ Later(E) = <<Save("start"), Announced, Agent(id)>> /\ E.mem.agents = id[1] /\ disk.agents = id[1] - 1
           \/ Later(E) \in {<<Announced, Agent(id)>>, <<Agent(id)>>}
    <3>1. First(E) # Agent(id)
      BY <1>2, AgentIs
    <3> QED BY <3>1, OpenTodo
  <2>2. n.mem = E.mem /\ n.todo = Later(E) /\ n.err = TRUE /\ n.seen = NoState /\ n.worker = id
    BY <1>2 DEF Pops, SameWork
  <2> QED BY <2>1, <2>2 DEF OpenWorkerPlace
<1> QED BY <1>1, <1>2

\* A write on the way to an agent.
LEMMA OpenWrite ==
  ASSUME NEW E, OpenWorkerPlace(E), E.todo # <<>>, ~(E.err /\ First(E).stop # ""), NEW n, Pops(n, E, E.err)
  PROVE  /\ MayWrite(E)
         /\ First(E).what \in StateWrites /\ disk' = E.mem /\ UNCHANGED <<launched, workers>> => OpenWorkerPlace(n)'
         /\ First(E).what \notin StateWrites /\ UNCHANGED disk
              /\ workers' = (IF First(E).what = "worker" THEN Put(workers, First(E)) ELSE workers)
              /\ launched' = (IF First(E).what = "launch" THEN launched \cup {<<First(E).key, Cardinality(launched) + 1>>}
                                                          ELSE launched)
              => OpenWorkerPlace(n)'
<1>1. PICK id : id = E.worker
  OBVIOUS
<1>2. PICK w : w = First(E)
  OBVIOUS
<1>3. /\ E.mem.stage = disk.stage /\ E.mem.visits = disk.visits /\ id \in Ids /\ id[2] = disk.stage
      /\ Kind(disk.stage) \in Works /\ Fresh(id)
  BY <1>1, OpenTodo DEF SameStage
<1>4. \/ w = Open(id) /\ Later(E) = <<Save("start"), Announced, Agent(id)>> /\ E.mem.agents = id[1] /\ disk.agents = id[1] - 1
      \/ w = Save("start") /\ Later(E) = <<Announced, Agent(id)>> /\ E.mem.agents = id[1] /\ (E.err \/ id \in DOMAIN workers)
      \/ w = Announced /\ Later(E) = <<Agent(id)>> /\ (E.err \/ (id \in DOMAIN workers /\ Synced(E.mem) /\ Current(id)))
      \/ w = Agent(id) /\ Later(E) = <<>> /\ (E.err \/ (id \in DOMAIN workers /\ Synced(E.mem) /\ Current(id)))
  BY <1>1, <1>2, OpenTodo
<1>5. n.mem = E.mem /\ n.todo = Later(E) /\ n.err = E.err /\ n.seen = NoState /\ n.worker = id
  BY <1>1 DEF Pops, SameWork
<1>6. CASE /\ w = Open(id) /\ Later(E) = <<Save("start"), Announced, Agent(id)>> /\ E.mem.agents = id[1]
           /\ disk.agents = id[1] - 1
  <2>1. w.what = "worker" /\ w.key = id /\ w.val = "running"
    BY <1>6, OpenIs
  <2>2. workers' = Put(workers, w) => id \in DOMAIN workers'
    BY <2>1 DEF Put
  <2>3. MayWrite(E)
    BY <1>2, <1>3, <2>1 DEF MayWrite
  <2> QED BY <1>2, <1>3, <1>5, <1>6, <2>1, <2>2, <2>3 DEF OpenWorkerPlace, StateWrites, SameStage, Fresh, AtMost
<1>7. CASE /\ w = Save("start") /\ Later(E) = <<Announced, Agent(id)>> /\ E.mem.agents = id[1]
           /\ (E.err \/ id \in DOMAIN workers)
  <2>1. w.what = "save"
    BY <1>7, SaveIs
  <2> QED BY <1>2, <1>3, <1>5, <1>7, <2>1
          DEF MayWrite, OpenWorkerPlace, StateWrites, SameStage, Synced, Current, Fresh, AtMost
<1>8. CASE /\ w = Announced /\ Later(E) = <<Agent(id)>> /\ (E.err \/ (id \in DOMAIN workers /\ Synced(E.mem) /\ Current(id)))
  <2>1. w.what = "event" /\ ~E.err
    BY <1>2, <1>8, AnnouncedIs
  <2> QED BY <1>2, <1>3, <1>5, <1>8, <2>1
          DEF MayWrite, OpenWorkerPlace, StateWrites, SameStage, Synced, Current, Fresh, AtMost, CanceledOnDisk
<1>9. CASE /\ w = Agent(id) /\ Later(E) = <<>> /\ (E.err \/ (id \in DOMAIN workers /\ Synced(E.mem) /\ Current(id)))
  <2>1. w.what = "launch" /\ w.key = id /\ ~E.err
    BY <1>2, <1>9, AgentIs
  <2>2. id[1] = disk.agents \/ CanceledOnDisk
    BY <1>9, <2>1 DEF Current
  <2> QED BY <1>2, <1>3, <1>5, <1>9, <2>1, <2>2
          DEF MayWrite, OpenWorkerPlace, StateWrites, SameStage, Synced, Current, CanceledOnDisk
<1> QED BY <1>4, <1>6, <1>7, <1>8, <1>9

\* A write on the way to an agent, as everyone sees it.
LEMMA WriteFollows ==
  ASSUME NEW E, StartsItsAgent(E), E.todo # <<>>, launched \subseteq launched',
         First(E).what = "launch" => <<First(E).key, Cardinality(launched) + 1>> \in launched',
         NEW n, Pops(n, E, E.err)
  PROVE  StartsItsAgent(n)'
<1>1. n.pc = E.pc /\ n.worker = E.worker /\ n.todo = Later(E) /\ n.seen = NoState
  BY DEF Pops, SameWork
<1>2. CASE First(E).what # "launch"
  <2>1. CASE E.pc # "agent"
    BY <1>1, <2>1 DEF StartsItsAgent
  <2>2. CASE E.pc = "agent"
    <3>. PICK id : id = E.worker
      OBVIOUS
    <3>1. E.todo \in AgentPlans(id)
      BY <2>2 DEF StartsItsAgent, HasAgent
    <3>2. First(E) # Agent(id)
      BY <1>2, AgentIs
    <3>3. \/ Later(E) = <<Save("start"), Announced, Agent(id)>>
          \/ Later(E) = <<Announced, Agent(id)>>
          \/ Later(E) = <<Agent(id)>>
          \/ First(E) = Agent(id)
      BY <3>1, PlanTodo
    <3> QED BY <1>1, <3>2, <3>3 DEF AgentPlans, StartsItsAgent
  <2> QED BY <2>1, <2>2
<1>3. CASE First(E).what = "launch"
  <2>1. CASE E.pc # "agent"
    BY <1>1, <2>1 DEF StartsItsAgent
  <2>2. CASE E.pc = "agent"
    <3>. PICK id : id = E.worker
      OBVIOUS
    <3>1. E.todo \in AgentPlans(id)
      BY <2>2 DEF StartsItsAgent, HasAgent
    <3>2. First(E) # Open(id) /\ First(E) # Save("start") /\ First(E) # Announced
      BY <1>3, OpenIs, SaveIs, AnnouncedIs
    <3>3. First(E) = Agent(id) /\ Later(E) = <<>>
      <4>1. First(E) = Open(id) \/ First(E) = Save("start") \/ First(E) = Announced \/ (First(E) = Agent(id) /\ Later(E) = <<>>)
        BY <3>1, PlanTodo
      <4> QED BY <3>2, <4>1
    <3>4. First(E).key = id
      BY <3>3, AgentIs
    <3>5. \E x \in launched' : x[1] = id
      BY <1>3, <3>4
    <3> QED BY <1>1, <2>2, <3>3, <3>5 DEF StartsItsAgent, HasAgent, Started
  <2> QED BY <2>1, <2>2
<1> QED BY <1>2, <1>3

-----------------------------------------------------------------------------
(* The end of an agent *)

Result == File("result", 0, "")
Report(id) == File("report", id, id \in changed)

\* What is left to do after an agent has ended.
LEMMA SettleTodo ==
  ASSUME NEW E, SettlePlace(E), E.todo # <<>>
  PROVE  \/ First(E) = Result /\ Later(E) = <<Report(E.worker)>>
         \/ First(E) = Report(E.worker) /\ Later(E) = <<>>
         \/ /\ First(E) = Result /\ Later(E) = <<>>
            /\ E.outcome \in {"unstarted", "unaudited"} \/ E.err \/ Judged(E.worker)
<1> DEFINE id == E.worker
<1>1. CASE E.todo = <<Result, Report(id)>>
  BY <1>1, Tuples DEF First, Later
<1>2. CASE E.todo = <<Report(id)>>
  BY <1>2, Tuples DEF First, Later
<1>3. CASE E.todo = <<Result>> /\ (E.outcome \in {"unstarted", "unaudited"} \/ E.err \/ Judged(id))
  BY <1>3, Tuples DEF First, Later
<1> QED BY <1>1, <1>2, <1>3 DEF SettlePlace, Result, Report

\* What an engine at the end of an agent writes.
LEMMA SettleIs ==
  ASSUME NEW E, SettlePlace(E), E.todo # <<>>
  PROVE  /\ First(E).what \in {"result", "report"} /\ First(E).mode = "strict" /\ First(E).stop = ""
         /\ First(E).what = "report" => First(E).key = E.worker
<1>1. First(E) = Result \/ First(E) = Report(E.worker)
  BY SettleTodo
<1>2. Result.what = "result" /\ Result.mode = "strict" /\ Result.stop = ""
  BY DEF Result, File, Do
<1>3. /\ Report(E.worker).what = "report" /\ Report(E.worker).key = E.worker
      /\ Report(E.worker).mode = "strict" /\ Report(E.worker).stop = ""
  BY DEF Report, File, Do
<1> QED BY <1>1, <1>2, <1>3

\* One write less, done or failed.
LEMMA SettlePops ==
  ASSUME NEW E, SettlePlace(E), E.todo # <<>>, NEW n, NEW err, Pops(n, E, err)
  PROVE  /\ n.mem = E.mem /\ n.worker = E.worker /\ n.decided = E.decided /\ n.outcome = E.outcome /\ n.err = err
         /\ n.todo \in {<<Report(E.worker)>>, <<>>}
         /\ n.todo = <<>> => First(E).what = "report" \/ E.outcome \in {"unstarted", "unaudited"} \/ E.err \/ Judged(E.worker)
<1>1. /\ n.mem = E.mem /\ n.worker = E.worker /\ n.decided = E.decided /\ n.outcome = E.outcome /\ n.err = err
      /\ n.todo = Later(E)
  BY DEF Pops, SameWork
<1>2. \/ Later(E) = <<Report(E.worker)>>
      \/ First(E) = Report(E.worker) /\ Later(E) = <<>>
      \/ Later(E) = <<>> /\ (E.outcome \in {"unstarted", "unaudited"} \/ E.err \/ Judged(E.worker))
  BY SettleTodo
<1>3. Report(E.worker).what = "report" /\ <<Report(E.worker)>> # <<>>
  BY Tuples DEF Report, File, Do
<1> QED BY <1>1, <1>2, <1>3

\* Evidence that could not be written.
LEMMA SettleFail ==
  ASSUME NEW E, SettlePlace(E), E.todo # <<>>, NEW n, Pops(n, E, TRUE)
  PROVE  SettlePlace(n)
<1>1. AtTheEnd(n)
  BY SettlePops DEF SettlePlace, AtTheEnd
<1>2. n.err = TRUE
  BY DEF Pops
<1>3. n.worker = E.worker /\ n.todo \in {<<Report(E.worker)>>, <<>>}
  BY SettlePops
<1>4. n.todo = <<Report(n.worker)>> \/ n.todo = <<>>
  BY <1>3
<1> QED BY <1>1, <1>2, <1>4 DEF SettlePlace, Report

\* Evidence that was.
LEMMA SettleWrite ==
  ASSUME NEW E, SettlePlace(E), E.todo # <<>>, NEW n, Pops(n, E, E.err)
  PROVE  /\ MayWrite(E)
         /\ UNCHANGED <<disk, workers, changed>>
              /\ reports' = (IF First(E).what = "report" THEN Put(reports, First(E)) ELSE reports)
              => SettlePlace(n)'
<1>1. MayWrite(E)
  BY SettleIs DEF MayWrite, SettlePlace, AtTheEnd
<1>2. ASSUME UNCHANGED <<disk, workers, changed>>,
             reports' = (IF First(E).what = "report" THEN Put(reports, First(E)) ELSE reports)
      PROVE  SettlePlace(n)'
  <2>1. AtTheEnd(E) /\ n.mem = E.mem /\ n.worker = E.worker /\ n.decided = E.decided
    BY SettlePops DEF SettlePlace
  <2>2. AtTheEnd(n)'
    BY <1>2, <2>1 DEF AtTheEnd, Synced, SameStage, Current, CanceledOnDisk
  <2>3. First(E).what = "report" => Judged(E.worker)'
    BY <1>2, SettleIs DEF Put, Judged
  <2>4. Judged(E.worker) => Judged(E.worker)'
    BY <1>2 DEF Put, Judged
  <2>5. \/ n.todo = <<Report(E.worker)>>
        \/ n.todo = <<>> /\ (n.outcome \in {"unstarted", "unaudited"} \/ n.err \/ Judged(n.worker)')
    BY <2>1, <2>3, <2>4, SettlePops
  <2> QED BY <1>2, <2>1, <2>2, <2>5 DEF SettlePlace, Report
<1> QED BY <1>1, <1>2

-----------------------------------------------------------------------------
(* The end of a stage: accepted work *)

Finishes == Errs(Event("worker_finished"))
Closes(id) == File("worker", id, "done")
Clears == Save("clear")

\* The writes that close a worker and its review.
LEMMA ClosingIs ==
  /\ Finishes.what = "event" /\ Finishes.mode = "strict" /\ Finishes.stop = "error"
  /\ \A id : /\ Closes(id).what = "worker" /\ Closes(id).key = id /\ Closes(id).val = "done"
             /\ Closes(id).mode = "strict" /\ Closes(id).stop = ""
  /\ Clears.what = "save" /\ Clears.key = "clear" /\ Clears.mode = "strict" /\ Clears.stop = ""
  /\ \A v \in Votes : v.what = "verdict" /\ v.mode = "block" /\ v.stop = ""
<1>1. Finishes.what = "event" /\ Finishes.mode = "strict" /\ Finishes.stop = "error"
  BY DEF Finishes, Errs, Event, Do
<1>2. \A v \in Votes : v.what = "verdict" /\ v.mode = "block" /\ v.stop = ""
  BY DEF Votes, Sort
<1>3. \A id : /\ Closes(id).what = "worker" /\ Closes(id).key = id /\ Closes(id).val = "done"
               /\ Closes(id).mode = "strict" /\ Closes(id).stop = ""
  BY DEF Closes, File, Do
<1>4. Clears.what = "save" /\ Clears.key = "clear" /\ Clears.mode = "strict" /\ Clears.stop = ""
  BY DEF Clears, Save, Do
<1> QED BY <1>1, <1>2, <1>3, <1>4

\* What is left to write of accepted work.
LEMMA AcceptedTodo ==
  ASSUME NEW E, AcceptedPlace(E), E.todo # <<>>
  PROVE  LET id == E.worker IN
         /\ AtTheEnd(E) /\ ~Violates(disk.stage, id \in changed)
         /\ \/ \E rest \in Rests :
                 \/ First(E) = Closes(id) /\ Later(E) = <<Finishes, Clears>> \o rest /\ (E.err \/ Judged(id))
                 \/ First(E) = Finishes /\ Later(E) = <<Clears>> \o rest /\ (E.err \/ (Done(id) /\ Judged(id)))
                 \/ First(E) = Clears /\ Later(E) = rest /\ E.todo = <<Clears>> \o rest /\ Done(id) /\ Judged(id)
            \/ First(E) \in Votes /\ Later(E) = <<>> /\ Done(id) /\ Judged(id)
<1> DEFINE id == E.worker
<1>1. AtTheEnd(E) /\ ~Violates(disk.stage, id \in changed)
  BY DEF AcceptedPlace
<1>2. PICK rest \in Rests :
        \/ E.todo = <<Closes(id), Finishes, Clears>> \o rest /\ (E.err \/ Judged(id))
        \/ E.todo = <<Finishes, Clears>> \o rest /\ (E.err \/ (Done(id) /\ Judged(id)))
        \/ E.todo \in {<<Clears>> \o rest, rest} /\ Done(id) /\ Judged(id)
  BY DEF AcceptedPlace, Closes, Finishes, Clears
<1>3. PICK W : W = {Closes(id), Finishes, Clears} \cup Votes
  OBVIOUS
<1>4. /\ Head(<<Closes(id), Finishes, Clears>> \o rest) = Closes(id)
      /\ Tail(<<Closes(id), Finishes, Clears>> \o rest) = <<Finishes, Clears>> \o rest
      /\ Head(<<Finishes, Clears>> \o rest) = Finishes /\ Tail(<<Finishes, Clears>> \o rest) = <<Clears>> \o rest
      /\ Head(<<Clears>> \o rest) = Clears /\ Tail(<<Clears>> \o rest) = rest
  <2>1. PICK a, b, c : a = Closes(id) /\ b = Finishes /\ c = Clears
    OBVIOUS
  <2>2. a \in W /\ b \in W /\ c \in W /\ Votes \subseteq W
    BY <1>3, <2>1
  <2>3. rest \in Seq(W)
    <3>1. rest = <<>> \/ \E v \in W : rest = <<v>>
      BY <2>2 DEF Rests
    <3>2. <<>> \in Seq(W) /\ \A v \in W : <<v>> \in Seq(W)
      OBVIOUS
    <3> QED BY <3>1, <3>2
  <2>4. Head(<<a, b, c>> \o rest) = a /\ Tail(<<a, b, c>> \o rest) = <<b, c>> \o rest
    BY <2>2, <2>3, FrontOfThree
  <2>5. Head(<<b, c>> \o rest) = b /\ Tail(<<b, c>> \o rest) = <<c>> \o rest
    BY <2>2, <2>3, FrontOfTwo
  <2>6. Head(<<c>> \o rest) = c /\ Tail(<<c>> \o rest) = rest
    BY <2>2, <2>3, FrontOfOne
  <2> QED BY <2>1, <2>4, <2>5, <2>6
<1>5. rest # <<>> => Head(rest) \in Votes /\ Tail(rest) = <<>>
  <2>1. rest # <<>> => \E v \in Votes : rest = <<v>>
    BY DEF Rests
  <2> QED BY <2>1, Tuples
<1> QED BY <1>1, <1>2, <1>4, <1>5 DEF First, Later

\* The read before the worker is cleared.
LEMMA AcceptedCheck ==
  ASSUME RunIsSound, NEW E, E.pc = "back", AcceptedPlace(E), Remembers(E), E.todo # <<>>, E.seen = NoState,
         First(E).what \in {"save", "outcome"}
  PROVE  /\ MaySave(E)
         /\ \A n : Looks(n, E) => AcceptedPlace(n)
<1> DEFINE m == Changed(E.mem, "clear")
<1>1. PICK id : id = E.worker
  OBVIOUS
<1>2. /\ AtTheEnd(E) /\ ~Violates(disk.stage, id \in changed)
      /\ \E rest \in Rests : /\ First(E) = Clears /\ Later(E) = rest /\ E.todo = <<Clears>> \o rest
                             /\ Done(id) /\ Judged(id)
  <2>1. First(E) # Closes(id) /\ First(E) # Finishes /\ First(E) \notin Votes
    BY ClosingIs
  <2> QED BY <1>1, <2>1, AcceptedTodo
<1>3. PICK rest \in Rests : First(E) = Clears /\ Later(E) = rest /\ E.todo = <<Clears>> \o rest
  BY <1>2
<1>4. Sound(E.mem) /\ Synced(E.mem)
  BY <1>2 DEF Remembers, MemoryIsSound, AtTheEnd
<1>5. Sound(m) /\ m.status = E.mem.status /\ m.agents = E.mem.agents /\ Synced(m)
  BY <1>4, ClearIsSound DEF Synced, SameStage
<1> HIDE DEF m
<1>6. First(E).what = "save" /\ First(E).key = "clear"
  BY <1>3, ClosingIs
<1>7. MaySave(E)
  BY <1>5, <1>6 DEF MaySave, m
<1>8. ASSUME NEW n, Looks(n, E) PROVE AcceptedPlace(n)
  <2>1. /\ n.worker = id /\ n.decided = E.decided /\ Synced(n.mem)
        /\ n.todo \in {<<Clears>> \o rest, rest}
    <3>1. CASE Adopts(n, E)
      BY <1>1, <1>3, <3>1 DEF Adopts, SameWork, Synced, SameStage
    <3>2. CASE Reads(n, E, Held(E))
      BY <1>1, <1>3, <1>5, <1>6, <3>2 DEF Reads, Held, SameWork, m
    <3> QED BY <1>8, <3>1, <3>2 DEF Looks
  <2>2. AtTheEnd(n)
    BY <1>1, <1>2, <2>1 DEF AtTheEnd
  <2> QED BY <1>2, <2>1, <2>2 DEF AcceptedPlace, Clears
<1> QED BY <1>7, <1>8

\* Where a stage may end early.
CanHalt(E) == SameStage(E.mem) /\ Kind(disk.stage) \in Acts

\* The writes of an accepted worker.
LEMMA AcceptedIs ==
  ASSUME NEW E, AcceptedPlace(E), E.todo # <<>>
  PROVE  /\ First(E).what \in {"worker", "event", "save", "verdict"} /\ First(E).mode \in {"strict", "block"}
         /\ First(E).stop \in {"", "error"}
         /\ First(E).what = "worker" => First(E).key = E.worker /\ First(E).val = "done"
         /\ First(E).mode = "block" => First(E).what = "verdict"
         /\ CanHalt(E)
<1>1. First(E) = Closes(E.worker) \/ First(E) = Finishes \/ First(E) = Clears \/ First(E) \in Votes
  BY AcceptedTodo
<1>2. CanHalt(E)
  BY DEF AcceptedPlace, AtTheEnd, Synced, CanHalt, Acts
<1>3. ASSUME NEW w, w = Closes(E.worker) \/ w = Finishes \/ w = Clears \/ w \in Votes
      PROVE  /\ w.what \in {"worker", "event", "save", "verdict"} /\ w.mode \in {"strict", "block"}
             /\ w.stop \in {"", "error"}
             /\ w.what = "worker" => w.key = E.worker /\ w.val = "done"
             /\ w.mode = "block" => w.what = "verdict"
  <2>1. CASE w = Closes(E.worker)
    BY <2>1, ClosingIs
  <2>2. CASE w = Finishes
    BY <2>2, ClosingIs
  <2>3. CASE w = Clears
    BY <2>3, ClosingIs
  <2>4. CASE w \in Votes
    BY <2>4, ClosingIs
  <2> QED BY <1>3, <2>1, <2>2, <2>3, <2>4
<1> QED BY <1>1, <1>2, <1>3

\* One that fails: the engine remembers, or the verdict blocks the run.
LEMMA AcceptedFail ==
  ASSUME NEW E, AcceptedPlace(E), E.todo # <<>>, ~(E.err /\ First(E).stop # ""), First(E).mode = "strict",
         NEW n, Pops(n, E, TRUE)
  PROVE  AcceptedPlace(n)
<1>1. PICK id : id = E.worker
  OBVIOUS
<1>2. /\ n.worker = id /\ n.todo = Later(E) /\ n.err = TRUE /\ (AtTheEnd(E) => AtTheEnd(n))
  BY <1>1 DEF Pops, SameWork, AtTheEnd
<1>3. First(E) \notin Votes
  BY ClosingIs
<1>4. First(E) = Finishes => ~E.err
  BY ClosingIs
<1>5. /\ AtTheEnd(E) /\ ~Violates(disk.stage, id \in changed)
      /\ \E rest \in Rests :
           \/ Later(E) = <<Finishes, Clears>> \o rest
           \/ Later(E) = <<Clears>> \o rest /\ Done(id) /\ Judged(id)
           \/ Later(E) = rest /\ Done(id) /\ Judged(id)
  BY <1>1, <1>3, <1>4, AcceptedTodo
<1>6. PICK rest \in Rests :
        \/ n.todo = <<Finishes, Clears>> \o rest
        \/ n.todo = <<Clears>> \o rest /\ Done(id) /\ Judged(id)
        \/ n.todo = rest /\ Done(id) /\ Judged(id)
  BY <1>2, <1>5
<1> QED BY <1>2, <1>5, <1>6 DEF AcceptedPlace, Clears, Finishes

\* One that is done brings the stage closer to being left.
LEMMA AcceptedWrite ==
  ASSUME RunIsSound, NEW E, E.pc = "back", AcceptedPlace(E), E.todo # <<>>, ~(E.err /\ First(E).stop # ""), NEW n, Pops(n, E, E.err)
  PROVE  /\ MayWrite(E)
         /\ First(E).what \in StateWrites /\ disk' = E.mem /\ UNCHANGED <<workers, reports, changed>>
              /\ (CanceledOnDisk => CanceledOnDisk') => AcceptedPlace(n)'
         /\ First(E).what \notin StateWrites /\ UNCHANGED <<disk, reports, changed>>
              /\ workers' = (IF First(E).what = "worker" THEN Put(workers, First(E)) ELSE workers)
              => AcceptedPlace(n)'
         /\ First(E).what \notin {"adopt", "outcome"}
<1>1. PICK id : id = E.worker
  OBVIOUS
<1>2. n.worker = id /\ n.todo = Later(E) /\ n.mem = E.mem /\ n.err = E.err /\ n.decided = E.decided
  BY <1>1 DEF Pops, SameWork
<1>3. /\ First(E).what \in {"worker", "event", "save", "verdict"}
      /\ First(E).what = "worker" => First(E).key = id /\ First(E).val = "done"
  BY <1>1, AcceptedIs
<1>4. AtTheEnd(E) /\ ~Violates(disk.stage, id \in changed)
  BY <1>1 DEF AcceptedPlace
<1>5. MayWrite(E)
  BY <1>1, <1>3, <1>4 DEF MayWrite, AtTheEnd, RunIsSound, FilesAgree
<1>6. PICK rest \in Rests :
        \/ First(E) = Closes(id) /\ Later(E) = <<Finishes, Clears>> \o rest /\ (E.err \/ Judged(id))
        \/ First(E) = Finishes /\ Later(E) = <<Clears>> \o rest /\ ~E.err /\ Done(id) /\ Judged(id)
        \/ First(E) = Clears /\ Later(E) = rest /\ Done(id) /\ Judged(id)
        \/ First(E) \in Votes /\ Later(E) = rest /\ Done(id) /\ Judged(id)
  <2>1. First(E) = Finishes => ~E.err
    BY ClosingIs
  <2>2. <<>> \in Rests
    BY DEF Rests
  <2> QED BY <1>1, <2>1, <2>2, AcceptedTodo
<1>7. First(E) = Closes(id) => First(E).what = "worker"
  BY ClosingIs
<1>8. ASSUME First(E).what \in StateWrites, disk' = E.mem, UNCHANGED <<workers, reports, changed>>,
             CanceledOnDisk => CanceledOnDisk'
      PROVE  AcceptedPlace(n)'
  <2>1. AtTheEnd(n)' /\ disk'.stage = disk.stage
    BY <1>1, <1>2, <1>4, <1>8 DEF AtTheEnd, Synced, SameStage, Current
  <2>2. Later(E) = rest /\ Done(id) /\ Judged(id)
    <3>1. First(E) # Finishes /\ First(E) # Closes(id) /\ First(E) \notin Votes
      BY <1>8, ClosingIs DEF StateWrites
    <3> QED BY <1>6, <3>1
  <2> QED BY <1>2, <1>4, <1>8, <2>1, <2>2 DEF AcceptedPlace, Done, Has, Judged
<1>9. ASSUME First(E).what \notin StateWrites, UNCHANGED <<disk, reports, changed>>,
             workers' = (IF First(E).what = "worker" THEN Put(workers, First(E)) ELSE workers)
      PROVE  AcceptedPlace(n)'
  <2>1. /\ First(E).what = "worker" => Done(id)'
        /\ Done(id) => Done(id)'
        /\ DOMAIN workers \subseteq DOMAIN workers'
    BY <1>3, <1>9 DEF Put, Done, Has
  <2>2. AtTheEnd(n)'
    BY <1>1, <1>2, <1>4, <1>9, <2>1 DEF AtTheEnd, Synced, SameStage, Current, CanceledOnDisk
  <2>3. \/ n.todo = <<Finishes, Clears>> \o rest /\ (n.err \/ (Done(id)' /\ Judged(id)'))
        \/ n.todo \in {<<Clears>> \o rest, rest} /\ Done(id)' /\ Judged(id)'
    <3>1. Judged(id)' = Judged(id)
      BY <1>9 DEF Judged
    <3> QED BY <1>2, <1>6, <1>7, <2>1, <3>1
  <2> QED BY <1>2, <1>4, <1>9, <2>2, <2>3 DEF AcceptedPlace, Finishes, Clears
<1> QED BY <1>3, <1>5, <1>8, <1>9

-----------------------------------------------------------------------------
(* The end of a stage: gates, and a stage that stops the run *)

\* The verdict of gates that passed, and of a project that has none.
GateResult(agents) == Hard(Do("gate", 0, [passed |-> TRUE, after |-> agents]))
NoGates == Event("no_gates_configured")

\* The result of the gates as a write, or that there are none.
LEMMA GateWritesAre ==
  /\ \A k : /\ GateResult(k).what = "gate" /\ GateResult(k).val = [passed |-> TRUE, after |-> k]
            /\ GateResult(k).mode = "hard" /\ GateResult(k).stop = ""
  /\ NoGates.what = "event" /\ NoGates.mode = "strict" /\ NoGates.stop = ""
<1>1. \A k : /\ GateResult(k).what = "gate" /\ GateResult(k).val = [passed |-> TRUE, after |-> k]
             /\ GateResult(k).mode = "hard" /\ GateResult(k).stop = ""
  BY DEF GateResult, Hard, Do
<1>2. NoGates.what = "event" /\ NoGates.mode = "strict" /\ NoGates.stop = ""
  BY DEF NoGates, Event, Do
<1> QED BY <1>1, <1>2

\* What is left to do after the gates.
LEMMA GatedTodo ==
  ASSUME NEW E, GatedPlace(E), E.todo # <<>>
  PROVE  /\ Synced(E.mem) /\ Kind(disk.stage) = "gate" /\ Later(E) = <<>>
         /\ First(E) = GateResult(disk.agents) \/ (First(E) = NoGates /\ "missing" \in GateOutcomes)
<1>1. CASE E.todo = <<GateResult(disk.agents)>>
  BY <1>1, Tuples DEF First, Later, GatedPlace
<1>2. CASE E.todo = <<NoGates>> /\ "missing" \in GateOutcomes
  BY <1>2, Tuples DEF First, Later, GatedPlace
<1> QED BY <1>1, <1>2 DEF GatedPlace, GateResult, NoGates

\* What that write may be.
LEMMA GatedIs ==
  ASSUME NEW E, GatedPlace(E), E.todo # <<>>
  PROVE  /\ First(E).what \in {"gate", "event"} /\ First(E).mode \in {"hard", "strict"} /\ First(E).stop = ""
         /\ First(E).what = "gate" => First(E).val = [passed |-> TRUE, after |-> disk.agents]
         /\ First(E).what = "event" => "missing" \in GateOutcomes
         /\ First(E).mode = "strict" => "missing" \in GateOutcomes
         /\ CanHalt(E)
<1>1. CanHalt(E)
  BY DEF GatedPlace, CanHalt, Synced, Acts
<1>2. CASE First(E) = GateResult(disk.agents)
  BY <1>1, <1>2, GateWritesAre, ZenonT(30)
<1>3. CASE First(E) = NoGates /\ "missing" \in GateOutcomes
  BY <1>1, <1>3, GateWritesAre
<1> QED BY <1>2, <1>3, GatedTodo

\* Gates that are missing stop nobody, told or not.
LEMMA GatedFail ==
  ASSUME NEW E, GatedPlace(E), E.todo # <<>>, First(E).mode = "strict", NEW n, Pops(n, E, TRUE)
  PROVE  GatedPlace(n)
<1>1. "missing" \in GateOutcomes
  BY GatedIs
<1>2. Later(E) = <<>> /\ n.todo = Later(E) /\ n.mem = E.mem
  BY GatedTodo DEF Pops
<1> QED BY <1>1, <1>2 DEF GatedPlace, GatesPassed

\* Once the result is written the gates have passed on disk.
LEMMA GatedWrite ==
  ASSUME NEW E, E.pc = "back", GatedPlace(E), E.todo # <<>>, NEW n, Pops(n, E, E.err)
  PROVE  /\ MayWrite(E)
         /\ UNCHANGED disk /\ gate' = (IF First(E).what = "gate" THEN First(E).val ELSE gate) => GatedPlace(n)'
<1>1. MayWrite(E)
  BY GatedIs DEF MayWrite, CanHalt
<1>2. n.todo = <<>> /\ n.mem = E.mem /\ Synced(E.mem) /\ Kind(disk.stage) = "gate"
  BY GatedTodo DEF Pops
<1>3. ASSUME UNCHANGED disk, gate' = (IF First(E).what = "gate" THEN First(E).val ELSE gate) PROVE GatedPlace(n)'
  <2>1. GatesPassed(disk)'
    <3>1. PICK k : k = disk.agents
      OBVIOUS
    <3>2. "missing" \in GateOutcomes \/ gate' = [passed |-> TRUE, after |-> k]
      BY <1>3, <3>1, GatedIs
    <3> QED BY <1>3, <3>1, <3>2 DEF GatesPassed
  <2> QED BY <1>2, <1>3, <2>1 DEF GatedPlace, Synced, SameStage
<1> QED BY <1>1, <1>3

\* Writes of a run that is stopped or settled.
LEMMA PlainWritesAre ==
  ASSUME NEW w \in Halting \cup Settling \cup Refusing
  PROVE  /\ w.what \in {"event", "run", "mutations", "outcome", "announce", "verdict", "worker", "gate", "save",
                        "config", "baseline"}
         /\ w.what = "save" => w.key = "clear"
         /\ w.what \in {"outcome", "announce"} => w.key = "blocked"
         /\ w.what = "worker" => w.key \in Ids /\ w.val \in {"done", "failed", "canceled"}
         /\ w.what \in {"save", "outcome"} => w.mode \in {"strict", "loose"}
         /\ w.stop \in {"", "halt", "error"}
<1>1. CASE w \in Quiets
  BY <1>1 DEF Quiets, Marked, Sort
<1>2. CASE w \in Votes
  BY <1>2 DEF Votes, Sort
<1>3. CASE w \in Ends
  BY <1>3 DEF Ends, Sort
<1>4. CASE w \in Results
  BY <1>4 DEF Results, Sort
<1>5. CASE w \in Sort("save", {"clear"}, {""}, {"strict"})
  BY <1>5 DEF Sort
<1>6. CASE w \in Blocks({"strict"}) \cup Blocks({"loose"})
  BY <1>6 DEF Blocks, Sort
<1>7. CASE w \in Settling
  <2>1. CASE w \in Sort("config", {0}, {""}, {"hard"})
    BY <2>1 DEF Sort
  <2>2. CASE w \in Sort("baseline", {0}, SUBSET Ids, {"hard"})
    BY <2>2 DEF Sort
  <2>3. CASE w \in Sort("worker", Ids, {"canceled"}, {"hard"})
    BY <2>3 DEF Sort
  <2> QED BY <1>6, <1>7, <2>1, <2>2, <2>3 DEF Settling, Refusing
<1> QED BY <1>1, <1>2, <1>3, <1>4, <1>5, <1>6, <1>7 DEF Halting, Refusing

\* ... of which those before the loop have modes of their own.
LEMMA ModesAre ==
  /\ \A w \in Settling : w.mode \in {"hard", "loose"} /\ w.what # "save" /\ w.what # "gate" /\ w.stop = ""
  /\ \A w \in Refusing : w.mode = "loose" /\ w.what # "save" /\ w.what # "gate" /\ w.stop = ""
<1>1. \A w \in Refusing : w.mode = "loose" /\ w.what # "save" /\ w.what # "gate" /\ w.stop = ""
  BY DEF Refusing, Blocks, Sort
<1>2. ASSUME NEW w \in Settling PROVE w.mode \in {"hard", "loose"} /\ w.what # "save" /\ w.what # "gate" /\ w.stop = ""
  <2>1. CASE w \in Sort("config", {0}, {""}, {"hard"})
    BY <2>1 DEF Sort
  <2>2. CASE w \in Sort("baseline", {0}, SUBSET Ids, {"hard"})
    BY <2>2 DEF Sort
  <2>3. CASE w \in Sort("worker", Ids, {"canceled"}, {"hard"})
    BY <2>3 DEF Sort
  <2> QED BY <1>1, <1>2, <2>1, <2>2, <2>3 DEF Settling
<1> QED BY <1>1, <1>2

\* Such a plan, and what is left of it.
LEMMA PlainTodo ==
  ASSUME NEW W, NEW E, E.todo \in Seq(W), E.todo # <<>>
  PROVE  First(E) \in W /\ Later(E) \in Seq(W)
  BY Parts DEF First, Later

\* The read before such a save changes nothing that the loop has to agree on.
LEMMA PlainCheck ==
  ASSUME RunIsSound, NEW E, E.pc # "over", Remembers(E), SameStage(E.mem), E.todo # <<>>,
         First(E) \in Halting \cup Settling \cup Refusing, First(E).what \in {"save", "outcome"}
  PROVE  /\ MaySave(E)
         /\ \A n : Looks(n, E) => /\ SameStage(n.mem) /\ (First(E).what = "outcome" => n.mem.agents = E.mem.agents)
                                  /\ First(E).what = "outcome" /\ Synced(E.mem) => Synced(n.mem)
<1>1. First(E).what = "save" => First(E).key = "clear"
  BY PlainWritesAre
<1>2. First(E).what = "outcome" => First(E).key = "blocked"
  BY PlainWritesAre
<1>3. Sound(E.mem)
  BY DEF Remembers, MemoryIsSound
<1>4. CASE First(E).what = "save"
  <2> DEFINE m == Changed(E.mem, "clear")
  <2>1. Sound(m) /\ m.status = E.mem.status /\ m.agents = E.mem.agents /\ m.stage = E.mem.stage
    BY <1>3, ClearIsSound
  <2> HIDE DEF m
  <2>2. MaySave(E)
    BY <1>1, <1>4, <2>1 DEF MaySave, m
  <2>3. ASSUME NEW n, Looks(n, E) PROVE SameStage(n.mem)
    BY <1>1, <1>4, <2>1, <2>3 DEF Looks, Adopts, Reads, Held, SameStage, m
  <2> QED BY <1>4, <2>2, <2>3
<1>5. CASE First(E).what = "outcome"
  <2>1. PICK status \in {"blocked", "canceled"} : status = IF CanceledOnDisk THEN "canceled" ELSE "blocked"
    OBVIOUS
  <2> DEFINE m == Ended(E.mem, status)
  <2>2. m.agents = E.mem.agents /\ m.stage = E.mem.stage /\ m.stages = E.mem.stages /\ m.visits = E.mem.visits
    BY <1>3, <2>1, EndedIsSound
  <2>3. Held(E) = m
    BY <1>2, <1>5, <2>1 DEF Held
  <2> HIDE DEF m
  <2>4. MaySave(E)
    BY <1>2, <1>5 DEF MaySave
  <2>5. ASSUME NEW n, Looks(n, E) PROVE n.mem = m
    BY <1>5, <2>3, <2>5 DEF Looks, Reads
  <2> QED BY <1>5, <2>2, <2>4, <2>5 DEF SameStage, Synced
<1> QED BY <1>4, <1>5

\* A stage that ends early stops the run.
LEMMA BlockIsPlain == Block \in Seq(Halting) /\ <<>> \in Seq(Halting) /\ Loose(Block) \in Seq(Refusing)
<1>1. PICK a, b : a = Do("outcome", "blocked", "") /\ b = Do("announce", "blocked", "")
  OBVIOUS
<1>2. a \in Halting /\ b \in Halting
  BY <1>1 DEF Do, Halting, Blocks, Sort
<1>3. Block = <<a, b>>
  BY <1>1 DEF Block, Outcome
<1>4. PICK c, d : c = [a EXCEPT !.mode = "loose"] /\ d = [b EXCEPT !.mode = "loose"]
  OBVIOUS
<1>5. c \in Refusing /\ d \in Refusing
  BY <1>1, <1>4 DEF Do, Refusing, Blocks, Sort
<1>6. <<a, b>> \in Seq(Halting)
  BY <1>2
<1>7. Loose(<<a, b>>) \in Seq(Refusing)
  <2>1. Len(<<a, b>>) = 2 /\ DOMAIN <<a, b>> = 1 .. 2 /\ <<a, b>>[1] = a /\ <<a, b>>[2] = b
    OBVIOUS
  <2> DEFINE f == [i \in 1 .. 2 |-> [<<a, b>>[i] EXCEPT !.mode = "loose"]]
  <2>2. f[1] = c /\ f[2] = d
    BY <1>4, <2>1
  <2>3. \A i \in 1 .. 2 : f[i] \in Refusing
    <3>1. \A i \in 1 .. 2 : i = 1 \/ i = 2
      OBVIOUS
    <3> HIDE DEF f
    <3> QED BY <1>5, <2>2, <3>1
  <2>4. f \in [1 .. 2 -> Refusing]
    BY <2>3
  <2>5. Loose(<<a, b>>) = f
    BY <2>1 DEF Loose
  <2> HIDE DEF f
  <2>6. f \in Seq(Refusing)
    <3>1. PICK k \in Nat : k = 2
      OBVIOUS
    <3>2. f \in [1 .. k -> Refusing]
      BY <2>4, <3>1
    <3> QED BY <3>2
  <2> QED BY <2>5, <2>6
<1> QED BY <1>3, <1>6, <1>7

\* A stage that ends early is not left.
LEMMA EndsEarly ==
  ASSUME NEW E, CanHalt(E), NEW ended \in {"halt", "error"}, NEW todo \in Seq(Halting), NEW n, Backs(n, E, ended, todo)
  PROVE  n.pc = "back" /\ BackPlace(n)
  BY DEF Backs, BackPlace, HaltedPlace, CanHalt

\* Writes of a stage that is not left, whatever comes of them.
LEMMA HaltedPops ==
  ASSUME NEW E, E.pc = "back", HaltedPlace(E), E.todo # <<>>, NEW n, NEW err, Pops(n, E, err)
  PROVE  /\ HaltedPlace(n) /\ MayWrite(E) /\ First(E) \in Halting
         /\ disk' = E.mem \/ UNCHANGED disk => HaltedPlace(n)'
         /\ First(E).what \notin {"adopt", "launch"}
<1>1. First(E) \in Halting /\ Later(E) \in Seq(Halting)
  BY PlainTodo DEF HaltedPlace
<1>2. /\ n.todo \in Seq(Halting) /\ n.ended = E.ended /\ n.mem = E.mem
  BY <1>1 DEF Pops, SameWork
<1>3. MayWrite(E)
  BY <1>1, PlainWritesAre DEF MayWrite, HaltedPlace
<1>4. First(E).what \notin {"adopt", "launch"}
  BY <1>1, PlainWritesAre
<1> QED BY <1>1, <1>2, <1>3, <1>4 DEF HaltedPlace, SameStage

\* A write before the loop.
LEMMA RefusedPops ==
  ASSUME NEW W, W = Refusing \/ W = Settling, NEW E, E.todo \in Seq(W), E.todo # <<>>, NEW n, NEW err, Pops(n, E, err)
  PROVE  /\ n.todo \in Seq(W) /\ n.mem = E.mem /\ MayWrite(E) /\ First(E) \in W /\ First(E).what \notin {"save", "adopt", "launch"}
<1>1. First(E) \in W /\ Later(E) \in Seq(W)
  BY PlainTodo
<1>2. First(E).what \notin {"adopt", "launch", "save", "gate", "report"}
  BY <1>1, PlainWritesAre, ModesAre
<1>3. MayWrite(E)
  BY <1>1, <1>2, PlainWritesAre DEF MayWrite
<1> QED BY <1>1, <1>2, <1>3 DEF Pops

-----------------------------------------------------------------------------
(* After the loop *)

Adopt == Do("adopt", "", "")
Comes(status) == Do("outcome", status, "")
Tells(status) == Do("announce", status, "")

\* The last writes of an engine.
LEMMA OverWritesAre ==
  /\ Adopt.what = "adopt" /\ Adopt.mode = "strict" /\ Adopt.stop = ""
  /\ \A s : /\ Comes(s).what = "outcome" /\ Comes(s).key = s /\ Comes(s).mode = "strict" /\ Comes(s).stop = ""
            /\ Tells(s).what = "announce" /\ Tells(s).key = s /\ Tells(s).mode = "strict" /\ Tells(s).stop = ""
<1>1. Adopt.what = "adopt" /\ Adopt.mode = "strict" /\ Adopt.stop = ""
  BY DEF Adopt, Do
<1>2. \A s : /\ Comes(s).what = "outcome" /\ Comes(s).key = s /\ Comes(s).mode = "strict" /\ Comes(s).stop = ""
             /\ Tells(s).what = "announce" /\ Tells(s).key = s /\ Tells(s).mode = "strict" /\ Tells(s).stop = ""
  BY DEF Comes, Tells, Do
<1> QED BY <1>1, <1>2

\* What is left to do at the end.
LEMMA OverTodo ==
  ASSUME NEW E, OverPlace(E), E.todo # <<>>
  PROVE  LET m == E.mem IN
         \/ First(E) = Adopt /\ Later(E) = <<>> /\ E.seen # NoState /\ m.status = "canceled" /\ SameStage(m)
         \/ \E s \in {"blocked", "failed", "completed"} :
              \/ /\ First(E) = Comes(s) /\ Later(E) = <<Tells(s)>> /\ E.todo = Outcome(s)
                 /\ SameStage(m) /\ (s = "completed" => Kind(disk.stage) = "terminal")
              \/ /\ First(E) = Tells(s) /\ Later(E) = <<>>
                 /\ E.err \/ m.status # s \/ disk.status = s \/ s = "blocked"
<1>1. CASE E.todo = <<Adopt>> /\ E.seen # NoState /\ E.mem.status = "canceled" /\ SameStage(E.mem)
  BY <1>1, Tuples DEF First, Later
<1>2. ASSUME NEW s \in {"blocked", "failed", "completed"}, E.todo = Outcome(s)
      PROVE  First(E) = Comes(s) /\ Later(E) = <<Tells(s)>>
  BY <1>2, Tuples, ZenonT(30) DEF First, Later, Outcome, Comes, Tells
<1>3. ASSUME NEW s \in {"blocked", "failed", "completed"}, E.todo = <<Tells(s)>>
      PROVE  First(E) = Tells(s) /\ Later(E) = <<>>
  BY <1>3, Tuples DEF First, Later
<1> QED BY <1>1, <1>2, <1>3 DEF OverPlace, Adopt, Tells

\* What the next of them may be.
LEMMA OverIs ==
  ASSUME NEW E, OverPlace(E), E.todo # <<>>
  PROVE  /\ First(E).what \in {"adopt", "outcome", "announce"} /\ First(E).mode = "strict" /\ First(E).stop = ""
         /\ MayWrite(E)
         /\ First(E).what = "outcome" =>
              /\ First(E).key \in {"blocked", "failed", "completed"} /\ E.todo = Outcome(First(E).key)
              /\ SameStage(E.mem) /\ (First(E).key = "completed" => Kind(disk.stage) = "terminal")
              /\ Later(E) = <<Tells(First(E).key)>>
         /\ First(E).what # "outcome" => Later(E) = <<>>
<1>1. CASE First(E) = Adopt /\ Later(E) = <<>>
  BY <1>1, OverWritesAre DEF MayWrite
<1>2. ASSUME NEW s \in {"blocked", "failed", "completed"}, First(E) = Comes(s), Later(E) = <<Tells(s)>>, E.todo = Outcome(s),
             SameStage(E.mem), s = "completed" => Kind(disk.stage) = "terminal"
      PROVE  /\ First(E).what = "outcome" /\ First(E).key = s /\ First(E).mode = "strict" /\ First(E).stop = ""
             /\ MayWrite(E)
  <2>1. PICK w : w = First(E)
    OBVIOUS
  <2>2. w = Comes(s)
    BY <1>2, <2>1
  <2>3. w.what = "outcome" /\ w.key = s /\ w.mode = "strict" /\ w.stop = ""
    BY <2>2, OverWritesAre
  <2> QED BY <2>1, <2>3 DEF MayWrite
<1>3. ASSUME NEW s \in {"blocked", "failed", "completed"}, First(E) = Tells(s), Later(E) = <<>>,
             E.err \/ E.mem.status # s \/ disk.status = s \/ s = "blocked"
      PROVE  First(E).what = "announce" /\ First(E).mode = "strict" /\ First(E).stop = "" /\ MayWrite(E)
  <2>1. PICK w : w = First(E)
    OBVIOUS
  <2>2. w = Tells(s)
    BY <1>3, <2>1
  <2>3. w.what = "announce" /\ w.key = s /\ w.mode = "strict" /\ w.stop = ""
    BY <2>2, OverWritesAre
  <2> QED BY <1>3, <2>1, <2>3 DEF MayWrite
<1> QED BY <1>1, <1>2, <1>3, OverTodo, ZenonT(30)

\* The read before the outcome is saved.
LEMMA OverCheck ==
  ASSUME RunIsSound, NEW E, E.pc = "over", OverPlace(E), Remembers(E), E.todo # <<>>, E.seen = NoState,
         First(E).what \in {"save", "outcome"}
  PROVE  /\ MaySave(E)
         /\ \A n : Looks(n, E) => OverPlace(n)
<1>1. PICK s \in {"blocked", "failed", "completed"} :
        First(E).what = "outcome" /\ First(E).key = s /\ E.todo = Outcome(s) /\ SameStage(E.mem)
        /\ (s = "completed" => Kind(disk.stage) = "terminal")
  BY OverIs
<1>2. Sound(E.mem)
  BY DEF Remembers, MemoryIsSound
<1>3. MaySave(E)
  BY <1>1 DEF MaySave, SameStage
<1>4. ASSUME NEW n, Looks(n, E) PROVE OverPlace(n)
  <2>1. PICK t \in {"blocked", "failed", "completed", "canceled"} : t = IF CanceledOnDisk THEN "canceled" ELSE s
    OBVIOUS
  <2> DEFINE m == Ended(E.mem, t)
  <2>2. m.stage = E.mem.stage
    <3>1. CASE t = "completed"
      BY <1>1, <1>2, <2>1, <3>1, CompletedIsSound DEF SameStage
    <3>2. CASE t # "completed"
      BY <1>2, <2>1, <3>2, EndedIsSound
    <3> QED BY <3>1, <3>2
  <2>3. Held(E) = m
    BY <1>1, <2>1 DEF Held
  <2> HIDE DEF m
  <2>4. n.mem = m /\ n.todo = Outcome(s)
    BY <1>1, <1>4, <2>3 DEF Looks, Reads
  <2> QED BY <1>1, <2>2, <2>4 DEF OverPlace, SameStage
<1> QED BY <1>3, <1>4

\* An outcome that could not be written is not announced.
LEMMA OverFail ==
  ASSUME NEW E, OverPlace(E), E.todo # <<>>, NEW n, Pops(n, E, TRUE)
  PROVE  OverPlace(n)
<1>1. n.todo = Later(E) /\ n.err = TRUE
  BY DEF Pops
<1>2. Later(E) = <<>> \/ \E s \in {"blocked", "failed", "completed"} : Later(E) = <<Tells(s)>>
  BY OverTodo
<1> QED BY <1>1, <1>2 DEF OverPlace, Tells

\* One that was written is.
LEMMA OverWrite ==
  ASSUME NEW E, OverPlace(E), E.todo # <<>>, NEW n, Pops(n, E, E.err)
  PROVE  /\ First(E).what \in StateWrites /\ disk' = E.mem => OverPlace(n)'
         /\ First(E).what \notin StateWrites => OverPlace(n)'
         /\ n.todo # <<>> => First(n).what = "announce"
<1>1. n.todo = Later(E) /\ n.mem = E.mem
  BY DEF Pops
<1>2. CASE First(E).what # "outcome"
  BY <1>1, <1>2, OverIs DEF OverPlace
<1>3. CASE First(E).what = "outcome"
  <2>1. PICK s \in {"blocked", "failed", "completed"} : n.todo = <<Tells(s)>>
    BY <1>1, <1>3, OverIs
  <2>2. First(n).what = "announce"
    <3>1. First(n) = Tells(s)
      BY <2>1, Tuples DEF First
    <3> QED BY <3>1, OverWritesAre
  <2>3. disk' = E.mem => OverPlace(n)'
    BY <1>1, <2>1 DEF OverPlace, Tells
  <2> QED BY <1>3, <2>2, <2>3 DEF StateWrites
<1> QED BY <1>2, <1>3
==============================================================================

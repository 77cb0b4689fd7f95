--------------------------- MODULE HeadlessProofs ----------------------------
(***************************************************************************)
(* Every step of Headless keeps the invariant of HeadlessInvariant, and so *)
(* the safety properties of a run that the kernel drives hold in general.  *)
(***************************************************************************)
EXTENDS HeadlessSteps

-----------------------------------------------------------------------------
(* A write of an engine, wherever it is in its loop *)

\* The places, one by one.
LEMMA PlaceCases ==
  ASSUME NEW E, AtItsPlace(E)
  PROVE  \/ E.pc = "drifted" /\ SameStage(E.mem) /\ E.todo \in Seq(Refusing)
         \/ E.pc = "announce" /\ Synced(E.mem) /\ AtMost(E.mem.agents) /\ E.todo \in Seq(Settling)
         \/ E.pc = "step" /\ StepPlace(E)
         \/ E.pc = "dispatch" /\ DispatchPlace(E)
         \/ E.pc = "agent" /\ OpenWorkerPlace(E)
         \/ E.pc = "gate" /\ GatePlace(E)
         \/ E.pc = "settle" /\ SettlePlace(E)
         \/ E.pc = "back" /\ E.ended = "advance" /\ AcceptedPlace(E)
         \/ E.pc = "back" /\ E.ended = "advance" /\ GatedPlace(E)
         \/ E.pc = "back" /\ E.ended # "advance" /\ HaltedPlace(E)
         \/ E.pc = "over" /\ OverPlace(E)
  BY DEF AtItsPlace, BackPlace

\* An engine that stops before a write may end its stage there.
LEMMA PlaceStops ==
  ASSUME NEW E, AtItsPlace(E), E.todo # <<>>, First(E).stop # ""
  PROVE  First(E).stop = "quit" \/ (First(E).stop \in {"halt", "error"} /\ CanHalt(E) /\ E.pc # "over")
<1>1. CASE E.pc = "drifted" /\ E.todo \in Seq(Refusing)
  BY <1>1, PlainTodo, ModesAre
<1>2. CASE E.pc = "announce" /\ E.todo \in Seq(Settling)
  BY <1>2, PlainTodo, ModesAre
<1>3. CASE E.pc = "step" /\ StepPlace(E)
  BY <1>3, StepFail
<1>4. CASE E.pc = "dispatch" /\ DispatchPlace(E)
  BY <1>4, DispatchFail
<1>5. CASE E.pc = "agent" /\ OpenWorkerPlace(E)
  <2>1. CanHalt(E)
    BY <1>5 DEF OpenWorkerPlace, CanHalt, Acts
  <2> QED BY <1>5, <2>1, OpenFail
<1>6. CASE E.pc = "gate" /\ GatePlace(E)
  <2>1. CanHalt(E)
    BY <1>6 DEF GatePlace, CanHalt, Acts, Synced
  <2> QED BY <1>6, <2>1, GateFail
<1>7. CASE E.pc = "settle" /\ SettlePlace(E)
  BY <1>7, SettleIs
<1>8. CASE E.pc = "back" /\ AcceptedPlace(E)
  BY <1>8, AcceptedIs
<1>9. CASE E.pc = "back" /\ GatedPlace(E)
  BY <1>9, GatedIs
<1>10. CASE E.pc = "back" /\ HaltedPlace(E)
  <2>1. First(E) \in Halting /\ CanHalt(E)
    BY <1>10, PlainTodo DEF HaltedPlace, CanHalt
  <2> QED BY <1>10, <2>1, PlainWritesAre
<1>11. CASE E.pc = "over" /\ OverPlace(E)
  BY <1>11, OverIs
<1> QED BY <1>1, <1>2, <1>3, <1>4, <1>5, <1>6, <1>7, <1>8, <1>9, <1>10, <1>11, PlaceCases

\* The read before a save leaves the engine at its place.
LEMMA PlaceCheck ==
  ASSUME RunIsSound, NEW E, AtItsPlace(E), Remembers(E), E.todo # <<>>, E.seen = NoState,
         First(E).what \in {"save", "outcome"}
  PROVE  /\ MaySave(E)
         /\ \A n : Looks(n, E) /\ (Adopts(n, E) => CanceledOnDisk) => AtItsPlace(n)
<1>1. \A n : Looks(n, E) => n.pc = E.pc /\ n.ended = E.ended
  BY DEF Looks, Adopts, Reads, SameWork
<1>2. CASE E.pc = "drifted" /\ SameStage(E.mem) /\ E.todo \in Seq(Refusing)
  <2>1. First(E) \in Refusing /\ Later(E) \in Seq(Refusing)
    BY <1>2, PlainTodo
  <2>2. MaySave(E) /\ \A n : Looks(n, E) => SameStage(n.mem)
    BY <1>2, <2>1, PlainCheck
  <2>3. \A n : Looks(n, E) => n.todo \in Seq(Refusing)
    BY <1>2, <2>1 DEF Looks, Adopts, Reads
  <2> QED BY <1>1, <1>2, <2>2, <2>3 DEF AtItsPlace
<1>3. CASE E.pc = "announce" /\ Synced(E.mem) /\ AtMost(E.mem.agents) /\ E.todo \in Seq(Settling)
  <2>1. First(E) \in Settling /\ Later(E) \in Seq(Settling)
    BY <1>3, PlainTodo
  <2>2. First(E).what = "outcome"
    BY <2>1, ModesAre
  <2>3. MaySave(E) /\ \A n : Looks(n, E) => Synced(n.mem) /\ n.mem.agents = E.mem.agents
    BY <1>3, <2>1, <2>2, PlainCheck DEF Synced
  <2>4. \A n : Looks(n, E) => n.todo \in Seq(Settling)
    BY <1>3, <2>1 DEF Looks, Adopts, Reads
  <2> QED BY <1>1, <1>3, <2>3, <2>4 DEF AtItsPlace
<1>4. CASE E.pc = "step" /\ StepPlace(E)
  BY <1>1, <1>4, StepCheck DEF AtItsPlace
<1>5. CASE E.pc = "dispatch" /\ DispatchPlace(E)
  BY <1>1, <1>5, DispatchCheck DEF AtItsPlace
<1>6. CASE E.pc = "agent" /\ OpenWorkerPlace(E)
  BY <1>1, <1>6, OpenCheck DEF AtItsPlace
<1>7. CASE E.pc = "gate" /\ GatePlace(E)
  BY <1>1, <1>7, GateCheck DEF AtItsPlace
<1>8. CASE E.pc = "settle" /\ SettlePlace(E)
  BY <1>8, SettleIs
<1>9. CASE E.pc = "back" /\ E.ended = "advance" /\ AcceptedPlace(E)
  BY <1>1, <1>9, AcceptedCheck DEF AtItsPlace, BackPlace
<1>10. CASE E.pc = "back" /\ E.ended = "advance" /\ GatedPlace(E)
  BY <1>10, GatedIs
<1>11. CASE E.pc = "back" /\ E.ended # "advance" /\ HaltedPlace(E)
  <2>1. First(E) \in Halting /\ Later(E) \in Seq(Halting)
    BY <1>11, PlainTodo DEF HaltedPlace
  <2>2. MaySave(E) /\ \A n : Looks(n, E) => SameStage(n.mem)
    BY <1>11, <2>1, PlainCheck DEF HaltedPlace
  <2>3. \A n : Looks(n, E) => n.todo \in Seq(Halting)
    BY <1>11, <2>1 DEF Looks, Adopts, Reads, HaltedPlace
  <2> QED BY <1>1, <1>11, <2>2, <2>3 DEF AtItsPlace, BackPlace, HaltedPlace
<1>12. CASE E.pc = "over" /\ OverPlace(E)
  BY <1>1, <1>12, OverCheck DEF AtItsPlace
<1> QED BY <1>2, <1>3, <1>4, <1>5, <1>6, <1>7, <1>8, <1>9, <1>10, <1>11, <1>12, PlaceCases

\* A write that fails leaves the engine at its place, or its stage ends early.
LEMMA PlaceFail ==
  ASSUME NEW E, AtItsPlace(E), E.todo # <<>>, ~(E.err /\ First(E).stop # ""), First(E).what \notin {"launch", "run"}
  PROVE  /\ First(E).mode \in {"hard", "block"} =>
              /\ E.pc # "over" /\ First(E).what \notin StateWrites
              /\ CanHalt(E) \/ (E.pc = "announce" /\ First(E).mode = "hard")
         /\ First(E).mode = "strict" => \A n : Pops(n, E, TRUE) => AtItsPlace(n)
         /\ First(E).mode \notin {"hard", "block", "strict"} => \A n : Pops(n, E, E.err) => AtItsPlace(n)
<1>1. \A n, err : Pops(n, E, err) => n.pc = E.pc /\ n.ended = E.ended
  BY DEF Pops, SameWork
<1>2. CASE E.pc = "drifted" /\ SameStage(E.mem) /\ E.todo \in Seq(Refusing)
  <2>1. \A n, err : Pops(n, E, err) => n.todo \in Seq(Refusing) /\ n.mem = E.mem
    BY <1>2, RefusedPops
  <2>2. First(E).mode = "loose"
    BY <1>2, PlainTodo, ModesAre
  <2> QED BY <1>1, <1>2, <2>1, <2>2 DEF AtItsPlace
<1>3. CASE E.pc = "announce" /\ Synced(E.mem) /\ AtMost(E.mem.agents) /\ E.todo \in Seq(Settling)
  <2>1. \A n, err : Pops(n, E, err) => n.todo \in Seq(Settling) /\ n.mem = E.mem
    BY <1>3, RefusedPops
  <2>2. First(E).mode \in {"hard", "loose"} /\ (First(E).mode = "hard" => First(E).what \notin StateWrites)
    BY <1>3, PlainTodo, ModesAre, PlainWritesAre DEF StateWrites
  <2> QED BY <1>1, <1>3, <2>1, <2>2 DEF AtItsPlace
<1>4. CASE E.pc = "step" /\ StepPlace(E)
  BY <1>1, <1>4, StepFail DEF AtItsPlace
<1>5. CASE E.pc = "dispatch" /\ DispatchPlace(E)
  BY <1>1, <1>5, DispatchFail DEF AtItsPlace
<1>6. CASE E.pc = "agent" /\ OpenWorkerPlace(E)
  BY <1>1, <1>6, OpenFail DEF AtItsPlace
<1>7. CASE E.pc = "gate" /\ GatePlace(E)
  BY <1>1, <1>7, GateFail DEF AtItsPlace
<1>8. CASE E.pc = "settle" /\ SettlePlace(E)
  BY <1>1, <1>8, SettleIs, SettleFail DEF AtItsPlace
<1>9. CASE E.pc = "back" /\ E.ended = "advance" /\ AcceptedPlace(E)
  BY <1>1, <1>9, AcceptedIs, AcceptedFail DEF AtItsPlace, BackPlace, StateWrites
<1>10. CASE E.pc = "back" /\ E.ended = "advance" /\ GatedPlace(E)
  BY <1>1, <1>10, GatedIs, GatedFail DEF AtItsPlace, BackPlace, StateWrites
<1>11. CASE E.pc = "back" /\ E.ended # "advance" /\ HaltedPlace(E)
  <2>1. CanHalt(E)
    BY <1>11 DEF HaltedPlace, CanHalt
  <2>2. First(E).mode \in {"hard", "block"} => First(E).what \notin StateWrites
    BY <1>11, PlainTodo, PlainWritesAre DEF StateWrites, HaltedPlace
  <2> QED BY <1>1, <1>11, <2>1, <2>2, HaltedPops DEF AtItsPlace, BackPlace
<1>12. CASE E.pc = "over" /\ OverPlace(E)
  BY <1>1, <1>12, OverIs, OverFail DEF AtItsPlace
<1> QED BY <1>2, <1>3, <1>4, <1>5, <1>6, <1>7, <1>8, <1>9, <1>10, <1>11, <1>12, PlaceCases, ZenonT(60)

\* The state or a file that is written leaves the engine at its place.
LEMMA PlaceWrite ==
  ASSUME RunIsSound, NEW E, AtItsPlace(E), E.todo # <<>>, ~(E.err /\ First(E).stop # ""), NEW n, Pops(n, E, E.err)
  PROVE  /\ MayWrite(E)
         /\ First(E).what \in StateWrites /\ E.seen # NoState /\ disk' = E.mem
              /\ UNCHANGED <<workers, reports, verdicts, gate, launched, changed>>
              /\ (CanceledOnDisk => CanceledOnDisk')
              => AtItsPlace(n)'
         /\ First(E).what \notin StateWrites /\ UNCHANGED <<disk, changed>>
              /\ workers' = (IF First(E).what = "worker" THEN Put(workers, First(E)) ELSE workers)
              /\ reports' = (IF First(E).what = "report" THEN Put(reports, First(E)) ELSE reports)
              /\ gate' = (IF First(E).what = "gate" THEN First(E).val ELSE gate)
              /\ launched' = (IF First(E).what = "launch" THEN launched \cup {<<First(E).key, Cardinality(launched) + 1>>}
                                                          ELSE launched)
              => AtItsPlace(n)'
         /\ E.pc = "over" /\ n.todo # <<>> => First(n).what = "announce"
<1>1. n.pc = E.pc /\ n.ended = E.ended /\ n.mem = E.mem
  BY DEF Pops, SameWork
<1>2. CASE E.pc = "drifted" /\ SameStage(E.mem) /\ E.todo \in Seq(Refusing)
  <2>1. MayWrite(E) /\ n.todo \in Seq(Refusing)
    BY <1>2, RefusedPops
  <2>2. disk' = E.mem \/ UNCHANGED disk => AtItsPlace(n)'
    BY <1>1, <1>2, <2>1 DEF AtItsPlace, SameStage
  <2> QED BY <1>2, <2>1, <2>2
<1>3. CASE E.pc = "announce" /\ Synced(E.mem) /\ AtMost(E.mem.agents) /\ E.todo \in Seq(Settling)
  <2>1. MayWrite(E) /\ n.todo \in Seq(Settling) /\ First(E).what # "launch"
    BY <1>3, RefusedPops
  <2>2. (disk' = E.mem \/ UNCHANGED disk) /\ UNCHANGED launched => AtItsPlace(n)'
    BY <1>1, <1>3, <2>1 DEF AtItsPlace, SameStage, Synced, AtMost
  <2> QED BY <1>3, <2>1, <2>2
<1>4. CASE E.pc = "step" /\ StepPlace(E)
  <2>1. First(E).what # "launch"
    <3>1. First(E) = Said("stage_completed") \/ \E next \in Stages : First(E) = Save(next)
      BY <1>4, StepTodo
    <3> QED BY <3>1, SaidIs, SaveIs
  <2> QED BY <1>1, <1>4, <2>1, StepWrite DEF AtItsPlace
<1>5. CASE E.pc = "dispatch" /\ DispatchPlace(E)
  <2>1. First(E).what # "launch"
    <3>1. First(E) = Said("stage_started") \/ First(E) = Save("enter")
      BY <1>5, DispatchTodo
    <3> QED BY <3>1, SaidIs, SaveIs
  <2> QED BY <1>1, <1>5, <2>1, DispatchWrite DEF AtItsPlace
<1>6. CASE E.pc = "agent" /\ OpenWorkerPlace(E)
  BY <1>1, <1>6, OpenWrite DEF AtItsPlace
<1>7. CASE E.pc = "gate" /\ GatePlace(E)
  BY <1>1, <1>7, GateWrite DEF AtItsPlace
<1>8. CASE E.pc = "settle" /\ SettlePlace(E)
  <2>1. First(E).what \in {"result", "report"}
    BY <1>8, SettleIs
  <2> QED BY <1>1, <1>8, <2>1, SettleWrite DEF AtItsPlace, StateWrites
<1>9. CASE E.pc = "back" /\ E.ended = "advance" /\ AcceptedPlace(E)
  <2>1. First(E).what \in {"worker", "event", "save", "verdict"}
    BY <1>9, AcceptedIs
  <2> QED BY <1>1, <1>9, <2>1, AcceptedWrite DEF AtItsPlace, BackPlace
<1>10. CASE E.pc = "back" /\ E.ended = "advance" /\ GatedPlace(E)
  <2>1. First(E).what \in {"gate", "event"}
    BY <1>10, GatedIs
  <2> QED BY <1>1, <1>10, <2>1, GatedWrite DEF AtItsPlace, BackPlace, StateWrites
<1>11. CASE E.pc = "back" /\ E.ended # "advance" /\ HaltedPlace(E)
  BY <1>1, <1>11, HaltedPops DEF AtItsPlace, BackPlace
<1>12. CASE E.pc = "over" /\ OverPlace(E)
  BY <1>1, <1>12, OverIs, OverWrite DEF AtItsPlace
<1> QED BY <1>2, <1>3, <1>4, <1>5, <1>6, <1>7, <1>8, <1>9, <1>10, <1>11, <1>12, PlaceCases, ZenonT(60)

\* The engine that holds the run, with something left to write.
LEMMA Holder ==
  ASSUME HeadlessInv, intact, NEW e \in Engines, owner = e, NEW E, E = engine[e], E.todo # <<>>
  PROVE  Remembers(E) /\ AtItsPlace(E) /\ RunIsSound /\ CancelsKnow
<1>1. Knows(E) /\ RunIsSound /\ CancelsKnow
  BY DEF HeadlessInv
<1> QED BY <1>1 DEF Knows, Blank, Remembers

\* Of every engine.
LEMMA Anyone ==
  ASSUME HeadlessInv, intact, NEW e \in Engines, NEW E, E = engine[e], E.todo # <<>> \/ E.pc # "off"
  PROVE  Shaped /\ IsEngine(E) /\ StartsItsAgent(E) /\ E.pc # "off"
<1>1. Shaped /\ IsEngine(E) /\ (E.pc = "off" => E = Off) /\ StartsItsAgent(E)
  BY DEF HeadlessInv, Shaped, AgentsAreStarted
<1>2. Off.todo = <<>>
  BY DEF Off
<1> QED BY <1>1, <1>2

\* An engine that stops at a failed write.
LEMMA StopStep ==
  ASSUME HeadlessInv, NEW e \in Engines, Stop(e)
  PROVE  HeadlessInv'
<1>1. CASE ~intact
  BY <1>1 DEF HeadlessInv, Stop, history
<1>2. CASE intact
  <2>1. PICK E : E = engine[e]
    OBVIOUS
  <2>2. Shaped
    BY <1>2 DEF HeadlessInv
  <2>3. /\ E.todo # <<>> /\ E.seen = NoState /\ E.err /\ First(E).stop # ""
        /\ \E n : /\ engine' = [engine EXCEPT ![e] = n]
                  /\ IF First(E).stop = "quit" THEN Moves(n, E, "over", <<>>) ELSE Backs(n, E, First(E).stop, <<>>)
    BY <2>1, <2>2, StopCases
  <2>4. PICK n : /\ engine' = [engine EXCEPT ![e] = n]
                 /\ IF First(E).stop = "quit" THEN Moves(n, E, "over", <<>>) ELSE Backs(n, E, First(E).stop, <<>>)
    BY <2>3
  <2>5. Follows(n, E) /\ n.worker = E.worker
    <3>1. IsEngine(n) /\ n.pc \in {"over", "back"} /\ n.worker = E.worker
      BY <2>4 DEF Moves, Backs, SameWork
    <3> QED BY <3>1, LeaveFollows
  <2>6. ASSUME owner = e PROVE Knows(n)
    <3>1. Remembers(E) /\ AtItsPlace(E)
      BY <1>2, <2>1, <2>3, <2>6, Holder
    <3>2. CASE First(E).stop = "quit"
      BY <2>3, <2>4, <3>2 DEF Moves, Knows, Blank
    <3>3. CASE First(E).stop # "quit"
      <4>1. First(E).stop \in {"halt", "error"} /\ CanHalt(E) /\ E.pc # "over"
        BY <2>3, <3>1, <3>3, PlaceStops
      <4>2. n.pc = "back" /\ BackPlace(n)
        BY <2>4, <3>3, <4>1, BlockIsPlain, EndsEarly
      <4>3. MemoryIsSound(n) /\ SaveIsChecked(n) /\ EndIsLast(n)
        BY <2>3, <2>4, <3>1, <3>3, <4>1 DEF Remembers, Backs, MemoryIsSound, SaveIsChecked, EndIsLast
      <4> QED BY <4>2, <4>3 DEF Knows, AtItsPlace
    <3> QED BY <3>2, <3>3
  <2>7. UNCHANGED <<files, changed, owner, cancel, history>>
    BY DEF Stop
  <2> QED BY <2>1, <2>4, <2>5, <2>6, <2>7, QuietStep
<1> QED BY <1>1, <1>2

\* An engine that reads the state before it replaces it.
LEMMA CheckStep ==
  ASSUME HeadlessInv, NEW e \in Engines, Check(e)
  PROVE  HeadlessInv'
<1>1. CASE ~intact
  BY <1>1 DEF HeadlessInv, Check, history
<1>2. CASE intact
  <2>1. PICK E : E = engine[e]
    OBVIOUS
  <2>2. Shaped
    BY <1>2 DEF HeadlessInv
  <2>3. /\ E.todo # <<>> /\ E.seen = NoState /\ First(E).what \in {"save", "outcome"}
        /\ \E n : engine' = [engine EXCEPT ![e] = n] /\ Looks(n, E)
    BY <2>1, <2>2, CheckCases
  <2>4. PICK n : engine' = [engine EXCEPT ![e] = n] /\ Looks(n, E)
    BY <2>3
  <2>5. Follows(n, E)
    BY <1>2, <2>1, <2>3, <2>4, Anyone, CheckFollows
  <2>6. ASSUME owner = e PROVE Knows(n)
    <3>1. Remembers(E) /\ AtItsPlace(E) /\ RunIsSound
      BY <1>2, <2>1, <2>3, <2>6, Holder
    <3>2. MaySave(E) /\ ((Adopts(n, E) => CanceledOnDisk) => AtItsPlace(n))
      BY <2>3, <2>4, <3>1, PlaceCheck
    <3>3. Remembers(n) /\ (Adopts(n, E) => CanceledOnDisk)
      BY <2>3, <2>4, <3>1, <3>2, CheckKeeps
    <3> QED BY <3>2, <3>3 DEF Knows, Remembers
  <2>7. n.worker = E.worker
    BY <2>4 DEF Looks, Adopts, Reads, SameWork
  <2>8. UNCHANGED <<files, changed, owner, cancel, history>>
    BY DEF Check
  <2> QED BY <2>1, <2>4, <2>5, <2>6, <2>7, <2>8, QuietStep
<1> QED BY <1>1, <1>2

\* A write that fails.
LEMMA FailStep ==
  ASSUME HeadlessInv, NEW e \in Engines, FailedWrite(e)
  PROVE  HeadlessInv'
<1>1. CASE ~intact
  BY <1>1 DEF HeadlessInv, FailedWrite, history
<1>2. CASE intact
  <2>1. PICK E : E = engine[e]
    OBVIOUS
  <2>2. Shaped
    BY <1>2 DEF HeadlessInv
  <2>3. /\ E.todo # <<>> /\ ~(E.err /\ First(E).stop # "") /\ First(E).what \notin {"launch", "run"}
        /\ First(E).what \in StateWrites => E.seen # NoState
        /\ \E n : /\ engine' = [engine EXCEPT ![e] = n]
                  /\ \/ E.pc = "announce" /\ First(E).mode = "hard" /\ Moves(n, E, "over", <<>>)
                     \/ E.pc # "announce" /\ First(E).mode = "hard" /\ Backs(n, E, "error", <<>>)
                     \/ First(E).mode = "block" /\ Backs(n, E, "halt", Block)
                     \/ First(E).mode = "strict" /\ Pops(n, E, TRUE)
                     \/ First(E).mode \notin {"hard", "block", "strict"} /\ Pops(n, E, E.err)
    BY <2>1, <2>2, FailCases
  <2>4. PICK n : /\ engine' = [engine EXCEPT ![e] = n]
                 /\ \/ E.pc = "announce" /\ First(E).mode = "hard" /\ Moves(n, E, "over", <<>>)
                    \/ E.pc # "announce" /\ First(E).mode = "hard" /\ Backs(n, E, "error", <<>>)
                    \/ First(E).mode = "block" /\ Backs(n, E, "halt", Block)
                    \/ First(E).mode = "strict" /\ Pops(n, E, TRUE)
                    \/ First(E).mode \notin {"hard", "block", "strict"} /\ Pops(n, E, E.err)
    BY <2>3
  <2>5. UNCHANGED <<files, changed, owner, cancel, history>>
    BY DEF FailedWrite
  <2>6. StartsItsAgent(E) /\ E.pc # "off"
    BY <1>2, <2>1, <2>3, Anyone
  <2>7. n.worker = E.worker
    BY <2>4 DEF Moves, Backs, Pops, SameWork
  <2>8. CASE \/ E.pc = "announce" /\ First(E).mode = "hard" /\ Moves(n, E, "over", <<>>)
             \/ E.pc # "announce" /\ First(E).mode = "hard" /\ Backs(n, E, "error", <<>>)
             \/ First(E).mode = "block" /\ Backs(n, E, "halt", Block)
    <3>1. Follows(n, E)
      <4>1. IsEngine(n) /\ n.pc \in {"over", "back"}
        BY <2>8 DEF Moves, Backs
      <4> QED BY <4>1, LeaveFollows
    <3>2. ASSUME owner = e PROVE Knows(n)
      <4>1. Remembers(E) /\ AtItsPlace(E)
        BY <1>2, <2>1, <2>3, <3>2, Holder
      <4>2. /\ First(E).mode \in {"hard", "block"} /\ E.pc # "over" /\ First(E).what \notin StateWrites
            /\ CanHalt(E) \/ (E.pc = "announce" /\ First(E).mode = "hard")
        BY <2>3, <2>8, <4>1, PlaceFail
      <4>3. E.seen = NoState
        BY <4>1, <4>2 DEF Remembers, SaveIsChecked, StateWrites
      <4>4. CASE Moves(n, E, "over", <<>>)
        BY <4>3, <4>4 DEF Moves, Knows, Blank
      <4>5. CASE \/ E.pc # "announce" /\ Backs(n, E, "error", <<>>)
                 \/ First(E).mode = "block" /\ Backs(n, E, "halt", Block)
        <5>1. CanHalt(E)
          BY <4>2, <4>5
        <5>2. n.pc = "back" /\ BackPlace(n)
          BY <4>5, <5>1, BlockIsPlain, EndsEarly
        <5>3. MemoryIsSound(n) /\ SaveIsChecked(n) /\ EndIsLast(n)
          BY <4>1, <4>2, <4>3, <4>5 DEF Remembers, Backs, MemoryIsSound, SaveIsChecked, EndIsLast
        <5> QED BY <5>2, <5>3 DEF Knows, AtItsPlace
      <4> QED BY <2>8, <4>4, <4>5
    <3> QED BY <2>1, <2>4, <2>5, <2>7, <3>1, <3>2, QuietStep
  <2>9. CASE \/ First(E).mode = "strict" /\ Pops(n, E, TRUE)
             \/ First(E).mode \notin {"hard", "block", "strict"} /\ Pops(n, E, E.err)
    <3>1. Follows(n, E)
      BY <2>3, <2>6, <2>9, PopFollows
    <3>2. ASSUME owner = e PROVE Knows(n)
      <4>1. Remembers(E) /\ AtItsPlace(E)
        BY <1>2, <2>1, <2>3, <3>2, Holder
      <4>2. AtItsPlace(n)
        BY <2>3, <2>9, <4>1, PlaceFail
      <4>3. n.mem = E.mem /\ n.pc = E.pc /\ n.seen = NoState /\ n.todo = Later(E)
        BY <2>9 DEF Pops
      <4>4. EndIsLast(n)
        <5>1. ASSUME disk.status \in {"completed", "failed"} PROVE E.pc = "over" /\ Later(E) = <<>>
          <6>1. E.pc = "over" /\ First(E).what = "announce" /\ OverPlace(E)
            BY <2>3, <4>1, <5>1 DEF Remembers, EndIsLast, AtItsPlace
          <6> QED BY <2>3, <6>1, OverIs
        <5> QED BY <4>3, <5>1 DEF EndIsLast
      <4>5. MemoryIsSound(n) /\ SaveIsChecked(n)
        BY <4>1, <4>3 DEF Remembers, MemoryIsSound, SaveIsChecked
      <4> QED BY <4>2, <4>4, <4>5 DEF Knows
    <3> QED BY <2>1, <2>4, <2>5, <2>7, <3>1, <3>2, QuietStep
  <2> QED BY <2>4, <2>8, <2>9
<1> QED BY <1>1, <1>2

\* A write that is done.
LEMMA WriteAnyStep ==
  ASSUME HeadlessInv, NEW e \in Engines, Write(e)
  PROVE  HeadlessInv'
<1>1. CASE ~intact \/ owner # e
  BY <1>1 DEF HeadlessInv, Write, SaveMem, WriteFile
<1>2. CASE intact /\ owner = e
  <2>1. PICK E : E = engine[e]
    OBVIOUS
  <2>2. Shaped
    BY <1>2 DEF HeadlessInv
  <2>3. /\ E.todo # <<>> /\ ~(E.err /\ First(E).stop # "")
        /\ IF First(E).what \in StateWrites THEN E.seen # NoState /\ SaveMem(e) ELSE WriteFile(e)
        /\ \E n : engine' = [engine EXCEPT ![e] = n] /\ Pops(n, E, E.err)
    BY <2>1, <2>2, WriteCases
  <2>4. PICK n : engine' = [engine EXCEPT ![e] = n] /\ Pops(n, E, E.err)
    BY <2>3
  <2>5. Remembers(E) /\ AtItsPlace(E) /\ RunIsSound /\ CancelsKnow
    BY <1>2, <2>1, <2>3, Holder
  <2>6. StartsItsAgent(E) /\ E.pc # "off"
    BY <1>2, <2>1, <2>3, Anyone
  <2>7. IsEngine(n) /\ n.pc = E.pc /\ n.worker = E.worker
    BY <2>4 DEF Pops, SameWork
  <2>8. UNCHANGED <<changed, owner, cancel>>
    BY DEF Write
  <2>9. CASE First(E).what \in StateWrites
    <3>1. /\ disk' = E.mem /\ (intact' => E.seen = disk) /\ E.seen # NoState
          /\ UNCHANGED <<workers, reports, verdicts, gate, log, baseline, launched>>
      BY <2>1, <2>3, <2>9 DEF SaveMem, Mem
    <3>2. SUFFICES ASSUME E.seen = disk PROVE HeadlessInv'
      BY <3>1 DEF HeadlessInv
    <3>3. /\ RunIsSound' /\ CancelsKnow' /\ MemoryIsSound(n)' /\ SaveIsChecked(n)'
          /\ E.pc # "over" => EndIsLast(n)'
          /\ CanceledOnDisk => CanceledOnDisk'
      BY <2>4, <2>5, <2>8, <3>1, <3>2, SavedFiles
    <3>4. AtItsPlace(n)' /\ (E.pc = "over" /\ n.todo # <<>> => First(n).what = "announce")
      BY <2>3, <2>4, <2>5, <2>8, <2>9, <3>1, <3>3, PlaceWrite
    <3>5. Knows(n)'
      BY <2>7, <3>3, <3>4 DEF Knows, EndIsLast
    <3>6. StartsItsAgent(n)'
      <4>1. First(E).what # "launch"
        BY <2>9 DEF StateWrites
      <4>2. launched \subseteq launched'
        BY <3>1
      <4> QED BY <2>3, <2>4, <2>6, <4>1, <4>2, WriteFollows
    <3> QED BY <1>2, <2>1, <2>4, <2>6, <2>7, <2>8, <3>1, <3>3, <3>5, <3>6, WriteStep
  <2>10. CASE First(E).what \notin StateWrites
    <3>1. WriteFile(e)
      BY <2>3, <2>10
    <3>2. /\ workers' = (IF First(E).what = "worker" THEN Put(workers, First(E)) ELSE workers)
          /\ reports' = (IF First(E).what = "report" THEN Put(reports, First(E)) ELSE reports)
          /\ gate' = (IF First(E).what = "gate" THEN First(E).val ELSE gate)
          /\ launched' = (IF First(E).what = "launch" THEN launched \cup {<<First(E).key, Cardinality(launched) + 1>>}
                                                      ELSE launched)
          /\ disk' = disk
      BY <2>1, <3>1 DEF WriteFile, Todo, First
    <3>3. MayWrite(E) /\ AtItsPlace(n)' /\ (E.pc = "over" /\ n.todo # <<>> => First(n).what = "announce")
      BY <2>3, <2>4, <2>5, <2>8, <2>10, <3>2, PlaceWrite
    <3>4. /\ RunIsSound' /\ CancelsKnow' /\ launched \subseteq launched'
          /\ MemoryIsSound(n)' /\ SaveIsChecked(n)'
          /\ E.pc # "over" => EndIsLast(n)'
      BY <2>1, <2>3, <2>4, <2>5, <2>8, <2>10, <3>1, <3>3, WrittenFiles
    <3>5. Knows(n)'
      BY <2>7, <3>3, <3>4 DEF Knows, EndIsLast
    <3>6. StartsItsAgent(n)'
      <4>1. First(E).what = "launch" => <<First(E).key, Cardinality(launched) + 1>> \in launched'
        BY <3>2
      <4> QED BY <2>3, <2>4, <2>6, <3>4, <4>1, WriteFollows
    <3> QED BY <1>2, <2>1, <2>4, <2>6, <2>7, <2>8, <3>4, <3>5, <3>6, WriteStep
  <2> QED BY <2>9, <2>10
<1> QED BY <1>1, <1>2

-----------------------------------------------------------------------------
(* Starting and resuming *)

\* An engine that goes to another place with another memory.
MovesTo(n, E, pc, todo, m) ==
  /\ IsEngine(n) /\ n.pc = pc /\ n.todo = todo /\ n.mem = m
  /\ n.seen = E.seen /\ n.err = E.err /\ SameWork(n, E)

\* What else there is in it.
LEMMA MovesWith ==
  ASSUME NEW E, IsEngine(E), NEW pc, NEW todo, NEW m, NEW n, n = [[E EXCEPT !.pc = pc, !.todo = todo] EXCEPT !.mem = m]
  PROVE  MovesTo(n, E, pc, todo, m)
<1>1. n = [pc |-> pc, mem |-> m, todo |-> todo, seen |-> E.seen, err |-> E.err, lost |-> E.lost, ctx |-> E.ctx,
       ended |-> E.ended, outcome |-> E.outcome, decided |-> E.decided, worker |-> E.worker, refused |-> E.refused]
  BY DEF IsEngine
<1> QED BY <1>1 DEF IsEngine, MovesTo, SameWork

\* An engine that takes the run.
LEMMA OwnerStep ==
  ASSUME HeadlessInv, intact, NEW e \in Engines, NEW n, engine' = [engine EXCEPT ![e] = n], owner' = e,
         UNCHANGED <<files, changed, cancel, history>>, IsEngine(n), n.pc \notin {"off", "agent"}, Knows(n),
         \A f \in Engines : f # e /\ HasAgent(engine[f]) => engine[f].worker # n.worker
  PROVE  HeadlessInv'
<1>1. Shaped /\ RunIsSound /\ CancelsKnow /\ AgentsAreStarted
  BY DEF HeadlessInv
<1>2. /\ engine' = [f \in Engines |-> engine'[f]] /\ engine'[e] = n
      /\ \A f \in Engines : f # e => engine'[f] = engine[f]
  BY <1>1 DEF Shaped
<1> USE DEF files, history
<1>3. Shaped'
  BY <1>1, <1>2 DEF Shaped
<1>4. RunIsSound'
  BY <1>1 DEF RunIsSound, Sound, RunStates, Ordered, Verified, GatesPassed, SlotsAreCounted, AtMost, FilesAgree, Started
<1>5. CancelsKnow'
  BY <1>1 DEF CancelsKnow, CanceledOnDisk
<1>6. AgentsAreStarted'
  <2>1. \A f \in Engines : StartsItsAgent(engine[f])'
    BY <1>1, <1>2 DEF AgentsAreStarted, StartsItsAgent, Started
  <2>2. ASSUME NEW f \in Engines, HasAgent(engine'[f]), f # e PROVE engine'[f].worker # engine'[e].worker
    BY <1>2, <2>2
  <2> QED BY <2>1, <2>2 DEF AgentsAreStarted, HasAgent
<1>7. NothingRanYet'
  BY <1>2 DEF NothingRanYet
<1>8. Knows(engine[owner])'
  <2>1. Knows(n)'
    BY SameFiles
  <2>2. engine'[owner'] = n
    BY <1>2
  <2> QED BY <2>1, <2>2
<1> QED BY <1>3, <1>4, <1>5, <1>6, <1>7, <1>8 DEF HeadlessInv

\* The first engine takes the run.
LEMMA LaunchStep ==
  ASSUME HeadlessInv, NEW e \in Engines, Launch(e)
  PROVE  HeadlessInv'
<1>1. CASE ~intact
  BY <1>1 DEF HeadlessInv, Launch, history
<1>2. CASE intact
  <2>1. PICK E : E = engine[e]
    OBVIOUS
  <2>2. PICK n : n = [[E EXCEPT !.pc = "step", !.todo = <<>>] EXCEPT !.mem = disk]
    OBVIOUS
  <2>3. engine' = [engine EXCEPT ![e] = n] /\ owner' = e
    BY <2>1, <2>2 DEF Launch, GoTo
  <2>4. IsEngine(E) /\ E.seen = NoState /\ RunIsSound
    BY <1>2, <2>1 DEF HeadlessInv, Shaped, Launch, Off
  <2>5. IsEngine(n) /\ n.pc = "step" /\ n.todo = <<>> /\ n.mem = disk /\ n.seen = NoState
    <3>1. MovesTo(n, E, "step", <<>>, disk)
      BY <2>2, <2>4, MovesWith
    <3> QED BY <2>4, <3>1 DEF MovesTo
  <2>6. launched = {} /\ disk.status \notin {"completed", "failed"}
    BY <1>2 DEF HeadlessInv, NothingRanYet, Launch
  <2>7. Sound(disk) /\ disk.agents \in Nat
    BY <2>4, BoundsAssumption DEF RunIsSound, Sound, RunStates
  <2>8. AtMost(disk.agents)
    BY <2>6, <2>7, FS_EmptySet DEF AtMost
  <2>9. Knows(n)
    <3>1. MemoryIsSound(n) /\ SaveIsChecked(n) /\ EndIsLast(n)
      BY <2>5, <2>6, <2>7 DEF MemoryIsSound, SaveIsChecked, EndIsLast, CanceledOnDisk
    <3>2. AtItsPlace(n)
      BY <2>5, <2>8 DEF AtItsPlace, StepPlace, Synced, SameStage
    <3> QED BY <3>1, <3>2 DEF Knows
  <2>10. \A f \in Engines : ~HasAgent(engine[f])
    BY DEF Launch, HasAgent
  <2>11. UNCHANGED <<files, changed, cancel, history>>
    BY DEF Launch
  <2> QED BY <1>2, <2>3, <2>5, <2>9, <2>10, <2>11, OwnerStep
<1> QED BY <1>1, <1>2

\* No agent was started for an engine that has none.
LEMMA NobodyStarted ==
  ASSUME RunIsSound
  PROVE  ~Started(NoWorker) /\ NoWorker \notin Ids
<1>1. NoWorker \notin Ids
  <2>1. \A id \in Ids : id[1] # 0
    BY BoundsAssumption DEF Ids
  <2> QED BY <2>1 DEF NoWorker
<1> QED BY <1>1 DEF RunIsSound, SlotsAreCounted, Started

\* Another engine takes it over.
LEMMA AcquireStep ==
  ASSUME HeadlessInv, NEW e \in Engines, Acquire(e)
  PROVE  HeadlessInv'
<1>1. CASE ~intact
  BY <1>1 DEF HeadlessInv, Acquire, history
<1>2. CASE intact
  <2>1. PICK E : E = engine[e]
    OBVIOUS
  <2>2. PICK n : n = [E EXCEPT !.pc = "resume", !.todo = <<>>]
    OBVIOUS
  <2>3. engine' = [engine EXCEPT ![e] = n] /\ owner' = e
    BY <2>1, <2>2 DEF Acquire, GoTo
  <2>4. IsEngine(E) /\ E.seen = NoState /\ E.worker = NoWorker /\ RunIsSound
    BY <1>2, <2>1 DEF HeadlessInv, Shaped, Acquire, Off
  <2>5. IsEngine(n) /\ n.pc = "resume" /\ n.todo = <<>> /\ n.seen = NoState /\ n.worker = NoWorker
    <3>1. Moves(n, E, "resume", <<>>)
      BY <2>2, <2>4, Going
    <3> QED BY <2>4, <3>1 DEF Moves, SameWork
  <2>6. \A f \in Engines : HasAgent(engine[f]) => engine[f].worker # NoWorker
    <3>1. ASSUME NEW f \in Engines, HasAgent(engine[f]) PROVE Started(engine[f].worker)
      BY <1>2, <3>1, Tuples DEF HeadlessInv, AgentsAreStarted, StartsItsAgent, HasAgent, AgentPlans
    <3> QED BY <2>4, <3>1, NobodyStarted
  <2>7. UNCHANGED <<files, changed, cancel, history>>
    BY DEF Acquire
  <2>8. Knows(n)
    BY <2>5 DEF Knows, Blank
  <2> QED BY <1>2, <2>3, <2>5, <2>6, <2>7, <2>8, OwnerStep
<1> QED BY <1>1, <1>2

\* What a resume writes before the loop.
LEMMA ReconcileType ==
  ASSUME RunIsSound
  PROVE  (IF Drifted THEN <<Hard(File("baseline", 0, changed))>> ELSE <<>>)
            \o Reconcile \o <<Hard(File("config", 0, ""))>> \in Seq(Settling)
<1>1. PICK D : D = {id \in DOMAIN workers : Has(id, "running")}
  OBVIOUS
<1>2. D \subseteq Ids /\ changed \subseteq Ids
  BY <1>1 DEF RunIsSound, FilesAgree
<1>3. IsFiniteSet(D)
  <2>1. IsFiniteSet(1 .. MaxWorkers)
    BY BoundsAssumption, FS_Interval
  <2>2. IsFiniteSet(Ids)
    BY <2>1, WorkflowFacts, FS_Product DEF Ids
  <2> QED BY <1>2, <2>2, FS_Subset
<1>4. PICK open : open = SetToSeq(D)
  OBVIOUS
<1>5. open \in Seq(D)
  BY <1>3, <1>4, SetToSeqType
<1>6. \A id \in Ids : Hard(File("worker", id, "canceled")) \in Settling
  BY DEF Hard, File, Do, Settling, Sort
<1>7. [i \in DOMAIN open |-> Hard(File("worker", open[i], "canceled"))] \in Seq(Settling)
  <2>1. DOMAIN open = 1 .. Len(open) /\ Len(open) \in Nat /\ \A i \in DOMAIN open : open[i] \in Ids
    BY <1>2, <1>5
  <2> DEFINE f == [i \in DOMAIN open |-> Hard(File("worker", open[i], "canceled"))]
  <2>2. f \in [1 .. Len(open) -> Settling]
    BY <1>6, <2>1
  <2> HIDE DEF f
  <2>3. f \in Seq(Settling)
    BY <2>1, <2>2
  <2> QED BY <2>3 DEF f
<1>8. Loose(Block) \in Seq(Settling)
  <2>1. Refusing \subseteq Settling
    BY DEF Settling
  <2> QED BY <2>1, BlockIsPlain
<1>9. Reconcile \in Seq(Settling)
  <2>1. PICK s \in Seq(Settling) : s = [i \in DOMAIN open |-> Hard(File("worker", open[i], "canceled"))]
    BY <1>7
  <2>2. PICK t \in Seq(Settling) : t = IF LegacyViolation THEN Loose(Block) ELSE <<>>
    <3>1. <<>> \in Seq(Settling)
      OBVIOUS
    <3> QED BY <1>8, <3>1, Zenon
  <2>3. Reconcile = s \o t
    BY <1>1, <1>4, <2>1, <2>2 DEF Reconcile
  <2> QED BY <2>3
<1>10. (IF Drifted THEN <<Hard(File("baseline", 0, changed))>> ELSE <<>>) \in Seq(Settling)
  <2>1. Hard(File("baseline", 0, changed)) \in Settling
    BY <1>2 DEF Hard, File, Do, Settling, Sort
  <2>2. \A w \in Settling : <<w>> \in Seq(Settling)
    OBVIOUS
  <2>3. <<>> \in Seq(Settling)
    OBVIOUS
  <2> QED BY <2>1, <2>2, <2>3, Zenon
<1>11. <<Hard(File("config", 0, ""))>> \in Seq(Settling)
  <2>1. Hard(File("config", 0, "")) \in Settling
    BY DEF Hard, File, Do, Settling, Sort
  <2>2. \A w \in Settling : <<w>> \in Seq(Settling)
    OBVIOUS
  <2> QED BY <2>1, <2>2, Zenon
<1>12. \A a, b, c \in Seq(Settling) : a \o b \o c \in Seq(Settling)
  OBVIOUS
<1> QED BY <1>9, <1>10, <1>11, <1>12, Zenon

\* A resume reads the run.
LEMMA ResumeStep ==
  ASSUME HeadlessInv, NEW e \in Engines, NEW accept, Resume(e, accept)
  PROVE  HeadlessInv'
<1>1. CASE ~intact
  BY <1>1 DEF HeadlessInv, Resume, history
<1>2. CASE intact
  <2>1. PICK E : E = engine[e]
    OBVIOUS
  <2>2. /\ IsEngine(E) /\ E.seen = NoState /\ RunIsSound /\ Sound(disk) /\ disk.status \in {"active", "blocked", "completed", "failed", "canceled"}
    BY <1>2, <2>1 DEF HeadlessInv, Shaped, Resume, At, RunIsSound, Sound, RunStates
  <2>3. UNCHANGED <<files, changed, owner, cancel, history>>
    BY DEF Resume
  <2>4. CASE Final(disk.status)
    <3>1. PICK n : n = [E EXCEPT !.pc = "over", !.todo = <<>>]
      OBVIOUS
    <3>2. engine' = [engine EXCEPT ![e] = n]
      BY <2>1, <2>4, <3>1 DEF Resume, GoTo
    <3>3. IsEngine(n) /\ n.pc = "over" /\ n.todo = <<>> /\ n.seen = NoState /\ n.worker = E.worker
      <4>1. Moves(n, E, "over", <<>>)
        BY <2>2, <3>1, Going
      <4> QED BY <2>2, <4>1 DEF Moves, SameWork
    <3>4. Follows(n, E)
      BY <3>3, LeaveFollows
    <3>5. Knows(n)
      BY <3>3 DEF Knows, Blank
    <3> QED BY <2>1, <2>3, <3>2, <3>3, <3>4, <3>5, QuietStep
  <2>5. CASE ~Final(disk.status) /\ Drifted /\ ~accept
    <3>1. PICK n : n = [[E EXCEPT !.pc = "drifted", !.todo = DriftBlock] EXCEPT !.mem = disk]
      OBVIOUS
    <3>2. engine' = [engine EXCEPT ![e] = n]
      BY <2>1, <2>5, <3>1 DEF Resume, GoTo
    <3>3. IsEngine(n) /\ n.pc = "drifted" /\ n.todo = DriftBlock /\ n.mem = disk /\ n.seen = NoState /\ n.worker = E.worker
      <4>1. MovesTo(n, E, "drifted", DriftBlock, disk)
        BY <2>2, <3>1, MovesWith
      <4> QED BY <2>2, <4>1 DEF MovesTo, SameWork
    <3>4. Follows(n, E)
      BY <3>3, LeaveFollows
    <3>5. Knows(n)
      <4>1. MemoryIsSound(n) /\ SaveIsChecked(n) /\ EndIsLast(n)
        <5>1. disk.agents \in Nat
          BY <2>2, BoundsAssumption DEF Sound, RunStates
        <5> QED BY <2>2, <2>5, <3>3, <5>1 DEF MemoryIsSound, SaveIsChecked, EndIsLast, Final
      <4>2. AtItsPlace(n)
        BY <3>3, BlockIsPlain DEF AtItsPlace, SameStage, DriftBlock
      <4> QED BY <4>1, <4>2 DEF Knows
    <3> QED BY <2>1, <2>3, <3>2, <3>3, <3>4, <3>5, QuietStep
  <2>6. CASE ~Final(disk.status) /\ ~(Drifted /\ ~accept)
    <3>1. PICK mem : mem = [disk EXCEPT !.status = "active"]
      OBVIOUS
    <3>2. PICK todo : todo = (IF Drifted THEN <<Hard(File("baseline", 0, changed))>> ELSE <<>>)
                               \o Reconcile \o <<Hard(File("config", 0, ""))>>
      OBVIOUS
    <3>3. PICK n : n = [[E EXCEPT !.pc = "announce", !.todo = todo] EXCEPT !.mem = mem, !.refused = LegacyViolation]
      OBVIOUS
    <3>4. engine' = [engine EXCEPT ![e] = n]
      BY <2>1, <2>6, <3>1, <3>2, <3>3 DEF Resume, GoTo
    <3>5. IsEngine(n) /\ n.pc = "announce" /\ n.todo = todo /\ n.mem = mem /\ n.seen = NoState /\ n.worker = E.worker
      <4>1. PICK k : k = [[E EXCEPT !.pc = "announce", !.todo = todo] EXCEPT !.mem = mem]
        OBVIOUS
      <4>2. IsEngine(k) /\ k.pc = "announce" /\ k.todo = todo /\ k.mem = mem /\ k.seen = NoState /\ k.worker = E.worker
        <5>1. MovesTo(k, E, "announce", todo, mem)
          BY <2>2, <4>1, MovesWith
        <5> QED BY <2>2, <5>1 DEF MovesTo, SameWork
      <4>3. /\ n.mem = k.mem /\ n.pc = k.pc /\ n.todo = k.todo /\ n.seen = k.seen /\ n.worker = k.worker /\ IsEngine(n)
        <5>1. n = [pc |-> "announce", mem |-> mem, todo |-> todo, seen |-> E.seen, err |-> E.err, lost |-> E.lost,
                   ctx |-> E.ctx, ended |-> E.ended, outcome |-> E.outcome, decided |-> E.decided, worker |-> E.worker,
                   refused |-> LegacyViolation]
          BY <2>2, <3>3 DEF IsEngine
        <5> QED BY <2>2, <4>2, <5>1 DEF IsEngine
      <4> QED BY <4>2, <4>3
    <3>6. Follows(n, E)
      BY <3>5, LeaveFollows
    <3>7. Knows(n)
      <4>1. /\ mem.status = "active" /\ mem.stage = disk.stage /\ mem.agents = disk.agents /\ mem.stages = disk.stages
            /\ mem.visits = disk.visits /\ Sound(mem)
        BY <2>2, <3>1 DEF Sound, RunStates, Ordered, Verified, GatesPassed
      <4>2. disk.agents \in Nat /\ disk.status \notin {"completed", "failed", "canceled"}
        BY <2>2, <2>6, BoundsAssumption DEF Sound, RunStates, Final
      <4>3. MemoryIsSound(n) /\ SaveIsChecked(n) /\ EndIsLast(n)
        BY <3>5, <4>1, <4>2 DEF MemoryIsSound, SaveIsChecked, EndIsLast
      <4>4. AtMost(disk.agents)
        BY <2>2, <4>2 DEF RunIsSound, SlotsAreCounted
      <4>5. todo \in Seq(Settling)
        BY <2>2, <3>2, ReconcileType
      <4>6. AtItsPlace(n)
        BY <3>5, <4>1, <4>4, <4>5 DEF AtItsPlace, Synced, SameStage
      <4> QED BY <4>3, <4>6 DEF Knows
    <3> QED BY <2>1, <2>3, <3>4, <3>5, <3>6, <3>7, QuietStep
  <2> QED BY <2>4, <2>5, <2>6
<1> QED BY <1>1, <1>2

\* A resume enters the loop.
LEMMA ResumedStep ==
  ASSUME HeadlessInv, NEW e \in Engines, Resumed(e)
  PROVE  HeadlessInv'
<1>1. CASE ~intact
  BY <1>1 DEF HeadlessInv, Resumed, history
<1>2. CASE intact
  <2>1. PICK E : E = engine[e]
    OBVIOUS
  <2>2. PICK v : v = IF E.mem.status = "blocked" THEN E.mem.active ELSE NoWorker
    OBVIOUS
  <2>3. PICK m : m = [E.mem EXCEPT !.active = v]
    OBVIOUS
  <2>4. PICK n : n = [[E EXCEPT !.pc = "step", !.todo = <<>>] EXCEPT !.mem = m]
    OBVIOUS
  <2>5. engine' = [engine EXCEPT ![e] = n]
    BY <1>2, <2>1, <2>2, <2>3, <2>4 DEF HeadlessInv, Shaped, IsEngine, Resumed, GoTo, Mem
  <2>6. IsEngine(E) /\ E.seen = NoState /\ E.pc = "announce" /\ RunIsSound
    BY <1>2, <2>1 DEF HeadlessInv, Shaped, Resumed, At
  <2>7. IsEngine(n) /\ n.pc = "step" /\ n.todo = <<>> /\ n.mem = m /\ n.seen = NoState /\ n.worker = E.worker
    <3>1. MovesTo(n, E, "step", <<>>, m)
      BY <2>4, <2>6, MovesWith
    <3> QED BY <2>6, <3>1 DEF MovesTo, SameWork
  <2>8. Follows(n, E)
    BY <2>7, LeaveFollows
  <2>9. ASSUME owner = e PROVE Knows(n)
    <3>1. MemoryIsSound(E) /\ EndIsLast(E) /\ Synced(E.mem) /\ AtMost(E.mem.agents)
      BY <1>2, <2>1, <2>6, <2>9 DEF HeadlessInv, Knows, Blank, AtItsPlace
    <3>2. /\ m.status = E.mem.status /\ m.stage = E.mem.stage /\ m.agents = E.mem.agents /\ m.stages = E.mem.stages
          /\ m.visits = E.mem.visits /\ Sound(m)
      BY <2>2, <2>3, <3>1 DEF MemoryIsSound, Sound, RunStates, Ordered, Verified, GatesPassed
    <3>3. MemoryIsSound(n) /\ SaveIsChecked(n) /\ EndIsLast(n)
      BY <2>6, <2>7, <3>1, <3>2 DEF MemoryIsSound, SaveIsChecked, EndIsLast
    <3>4. AtItsPlace(n)
      BY <2>7, <3>1, <3>2 DEF AtItsPlace, StepPlace, Synced, SameStage
    <3> QED BY <3>3, <3>4 DEF Knows
  <2>10. UNCHANGED <<files, changed, owner, cancel, history>>
    BY DEF Resumed
  <2> QED BY <2>1, <2>5, <2>7, <2>8, <2>9, <2>10, QuietStep
<1> QED BY <1>1, <1>2

\* A resume that found drift ends.
LEMMA GiveUpStep ==
  ASSUME HeadlessInv, NEW e \in Engines, GiveUp(e)
  PROVE  HeadlessInv'
<1>1. CASE ~intact
  BY <1>1 DEF HeadlessInv, GiveUp, history
<1>2. CASE intact
  <2>1. PICK E : E = engine[e]
    OBVIOUS
  <2>2. IsEngine(E) /\ E.seen = NoState /\ E.todo = <<>> /\ Shaped
    BY <1>2, <2>1 DEF HeadlessInv, Shaped, GiveUp, At
  <2>3. PICK n : n = [E EXCEPT !.pc = "over", !.todo = <<>>]
    OBVIOUS
  <2>4. n = [E EXCEPT !.pc = "over"]
    BY <2>2, <2>3 DEF IsEngine
  <2>5. engine' = [engine EXCEPT ![e] = n]
    BY <2>1, <2>2, <2>4 DEF GiveUp, Shaped
  <2>6. IsEngine(n) /\ n.pc = "over" /\ n.todo = <<>> /\ n.seen = NoState /\ n.worker = E.worker
    <3>1. Moves(n, E, "over", <<>>)
      BY <2>2, <2>3, Going
    <3> QED BY <2>2, <3>1 DEF Moves, SameWork
  <2>7. Follows(n, E)
    BY <2>6, LeaveFollows
  <2>8. Knows(n)
    BY <2>6 DEF Knows, Blank
  <2>9. UNCHANGED <<files, changed, owner, cancel, history>>
    BY DEF GiveUp
  <2> QED BY <2>1, <2>5, <2>6, <2>7, <2>8, <2>9, QuietStep
<1> QED BY <1>1, <1>2

-----------------------------------------------------------------------------
(* The loop *)

\* An engine that ends.
LEMMA GoesOver ==
  ASSUME NEW E, E.seen = NoState, NEW n, Moves(n, E, "over", <<>>)
  PROVE  Knows(n)
  BY DEF Moves, Knows, Blank

\* ... with an outcome of the run.
LEMMA ComesToAnEnd ==
  ASSUME NEW n, n.pc = "over", NEW s \in {"blocked", "failed", "completed"}, n.todo = Outcome(s), n.seen = NoState,
         MemoryIsSound(n), SameStage(n.mem), s = "completed" => Kind(disk.stage) = "terminal",
         disk.status \notin {"completed", "failed"}
  PROVE  Knows(n)
<1>1. AtItsPlace(n)
  BY DEF AtItsPlace, OverPlace
<1> QED BY <1>1 DEF Knows, SaveIsChecked, EndIsLast

\* AdoptCancel.
LEMMA Adopted ==
  ASSUME RunIsSound, CanceledOnDisk, NEW E, IsEngine(E), NEW m, m = Ended(E.mem, "canceled"), NEW n,
         n = [[E EXCEPT !.pc = "over", !.todo = <<Adopt>>] EXCEPT !.mem = m, !.seen = disk]
  PROVE  /\ IsEngine(n) /\ n.pc = "over" /\ n.worker = E.worker
         /\ MemoryIsSound(E) /\ SameStage(E.mem) => Knows(n)
<1>1. n = [pc |-> "over", mem |-> m, todo |-> <<Adopt>>, seen |-> disk, err |-> E.err, lost |-> E.lost,
           ctx |-> E.ctx, ended |-> E.ended, outcome |-> E.outcome, decided |-> E.decided, worker |-> E.worker,
           refused |-> E.refused]
  BY DEF IsEngine
<1>2. IsEngine(n) /\ n.pc = "over" /\ n.todo = <<Adopt>> /\ n.mem = m /\ n.seen = disk /\ n.worker = E.worker
  BY <1>1 DEF IsEngine
<1>3. ASSUME MemoryIsSound(E), SameStage(E.mem) PROVE Knows(n)
  <2>1. Sound(m) /\ m.status = "canceled" /\ m.stage = E.mem.stage /\ m.agents = E.mem.agents
    BY <1>3, EndedIsSound DEF MemoryIsSound
  <2>2. First(n) = Adopt /\ n.todo # <<>> /\ disk # NoState
    BY <1>2, Tuples, StatusOnDisk DEF First
  <2>3. MemoryIsSound(n)
    BY <1>2, <1>3, <2>1 DEF MemoryIsSound
  <2>4. SaveIsChecked(n) /\ EndIsLast(n)
    BY <1>2, <2>1, <2>2, OverWritesAre DEF SaveIsChecked, EndIsLast, CanceledOnDisk
  <2>5. AtItsPlace(n)
    BY <1>2, <1>3, <2>1, <2>2 DEF AtItsPlace, OverPlace, SameStage, Adopt
  <2> QED BY <2>3, <2>4, <2>5 DEF Knows
<1> QED BY <1>2, <1>3

\* A round of the loop begins.
LEMMA StepStep ==
  ASSUME HeadlessInv, NEW e \in Engines, Step(e)
  PROVE  HeadlessInv'
<1>1. CASE ~intact
  BY <1>1 DEF HeadlessInv, Step, history
<1>2. CASE intact
  <2>1. PICK E : E = engine[e]
    OBVIOUS
  <2>2. PICK m : m = E.mem
    OBVIOUS
  <2>3. PICK n : n = StepPlan(e)
    OBVIOUS
  <2>4. engine' = [engine EXCEPT ![e] = n] /\ UNCHANGED <<files, changed, owner, cancel, history>>
    BY <2>3 DEF Step
  <2>5. IsEngine(E) /\ E.pc = "step" /\ E.todo = <<>> /\ E.seen = NoState /\ RunIsSound
    BY <1>2, <2>1 DEF HeadlessInv, Shaped, Step, At
  <2>6. owner = e => /\ MemoryIsSound(E) /\ (E.err \/ (Synced(m) /\ AtMost(m.agents)))
                     /\ disk.status \notin {"completed", "failed"}
    <3>1. ASSUME owner = e PROVE MemoryIsSound(E) /\ EndIsLast(E) /\ StepPlace(E)
      BY <1>2, <2>1, <2>5, <3>1 DEF HeadlessInv, Knows, Blank, AtItsPlace
    <3>2. \A next : Leave(next) # <<>>
      BY Tuples DEF Leave
    <3> QED BY <2>2, <2>5, <3>1, <3>2 DEF StepPlace, EndIsLast
  <2>7. SUFFICES IsEngine(n) /\ n.pc \notin {"off", "agent"} /\ n.worker = E.worker /\ (owner = e => Knows(n))
    <3>1. ASSUME IsEngine(n), n.pc \notin {"off", "agent"} PROVE Follows(n, E)
      BY <3>1, LeaveFollows
    <3> QED BY <1>2, <2>1, <2>4, <3>1, QuietStep
  <2>8. CASE n = [E EXCEPT !.pc = "over", !.todo = <<>>]
    <3>1. Moves(n, E, "over", <<>>)
      BY <2>5, <2>8, Going
    <3>2. IsEngine(n) /\ n.pc = "over" /\ n.worker = E.worker
      BY <3>1 DEF Moves, SameWork
    <3> QED BY <2>5, <3>1, <3>2, GoesOver
  <2>9. CASE ~E.err /\ CanceledOnDisk
             /\ n = [[E EXCEPT !.pc = "over", !.todo = <<Adopt>>] EXCEPT !.mem = Ended(m, "canceled"), !.seen = disk]
    <3>1. PICK k : k = Ended(m, "canceled")
      OBVIOUS
    <3>2. /\ IsEngine(n) /\ n.pc = "over" /\ n.worker = E.worker
          /\ MemoryIsSound(E) /\ SameStage(E.mem) => Knows(n)
      BY <2>2, <2>5, <2>9, <3>1, Adopted, ZenonT(30)
    <3> QED BY <2>2, <2>6, <2>9, <3>2 DEF Synced
  <2>10. ASSUME ~E.err, NEW s \in {"blocked", "failed", "completed"}, s = "completed" => Kind(m.stage) = "terminal",
                n = [E EXCEPT !.pc = "over", !.todo = Outcome(s)]
         PROVE  IsEngine(n) /\ n.pc \notin {"off", "agent"} /\ n.worker = E.worker /\ (owner = e => Knows(n))
    <3>1. PICK todo : todo = Outcome(s)
      OBVIOUS
    <3>2. Moves(n, E, "over", todo)
      BY <2>5, <2>10, <3>1, Going
    <3>3. ASSUME owner = e PROVE Knows(n)
      <4>1. MemoryIsSound(n) /\ SameStage(n.mem) /\ n.pc = "over" /\ n.todo = Outcome(s) /\ n.seen = NoState
        BY <2>2, <2>5, <2>6, <2>10, <3>1, <3>2, <3>3 DEF Moves, MemoryIsSound, Synced
      <4>2. s = "completed" => Kind(disk.stage) = "terminal"
        BY <2>6, <2>10, <3>3 DEF Synced, SameStage
      <4> QED BY <2>6, <3>3, <4>1, <4>2, ComesToAnEnd
    <3> QED BY <3>2, <3>3 DEF Moves, SameWork
  <2> DEFINE entered == [m EXCEPT !.visits[m.stage] = @ + 1]
  <2>11. ASSUME MemoryIsSound(E)
         PROVE  /\ Sound(entered) /\ entered.stage = m.stage /\ entered.agents = m.agents /\ entered.status = m.status
    BY <2>2, <2>11 DEF MemoryIsSound, Sound, RunStates, Ordered, Verified, GatesPassed
  <2>12. CASE ~E.err /\ n = [[E EXCEPT !.pc = "over", !.todo = Block] EXCEPT !.mem = entered]
    <3>1. PICK todo, k : todo = Block /\ k = entered
      OBVIOUS
    <3>2. MovesTo(n, E, "over", todo, k)
      BY <2>5, <2>12, <3>1, MovesWith
    <3>3. ASSUME owner = e PROVE Knows(n)
      <4>1. /\ Sound(k) /\ k.stage = m.stage /\ k.agents = m.agents /\ k.status = m.status
            /\ n.pc = "over" /\ n.todo = todo /\ n.mem = k /\ n.seen = NoState
        BY <2>5, <2>6, <2>11, <3>1, <3>2, <3>3 DEF MovesTo
      <4>2. MemoryIsSound(n) /\ SameStage(n.mem)
        BY <2>2, <2>5, <2>6, <2>12, <3>3, <4>1 DEF MemoryIsSound, Synced, SameStage
      <4> QED BY <2>6, <3>1, <3>3, <4>1, <4>2, ComesToAnEnd DEF Block
    <3> QED BY <3>2, <3>3 DEF MovesTo, SameWork
  <2>13. CASE /\ ~E.err /\ Kind(m.stage) \notin {"none", "terminal"}
              /\ n = [[E EXCEPT !.pc = "dispatch", !.todo = <<Save("enter"), Said("stage_started")>>]
                        EXCEPT !.mem = entered]
    <3>1. PICK todo, k : todo = <<Save("enter"), Said("stage_started")>> /\ k = entered
      OBVIOUS
    <3>2. MovesTo(n, E, "dispatch", todo, k)
      BY <2>5, <2>13, <3>1, MovesWith
    <3>3. ASSUME owner = e PROVE Knows(n)
      <4>1. /\ Sound(k) /\ k.stage = m.stage /\ k.agents = m.agents /\ k.status = m.status
            /\ n.pc = "dispatch" /\ n.todo = todo /\ n.mem = k /\ n.seen = NoState
        BY <2>5, <2>6, <2>11, <3>1, <3>2, <3>3 DEF MovesTo
      <4>2. MemoryIsSound(n) /\ SaveIsChecked(n) /\ EndIsLast(n) /\ SameStage(n.mem)
        BY <2>2, <2>5, <2>6, <2>13, <3>3, <4>1 DEF MemoryIsSound, SaveIsChecked, EndIsLast, Synced, SameStage
      <4>3. Kind(k.stage) \in Acts
        BY <2>13, <4>1, WorkflowFacts DEF StageFacts, Sound, RunStates
      <4>4. AtItsPlace(n)
        BY <2>6, <2>13, <3>1, <3>3, <4>1, <4>2, <4>3 DEF AtItsPlace, DispatchPlace, Synced, Said
      <4> QED BY <4>2, <4>4 DEF Knows
    <3> QED BY <3>2, <3>3 DEF MovesTo, SameWork
  <2>14. \/ n = [E EXCEPT !.pc = "over", !.todo = <<>>]
         \/ /\ ~E.err /\ CanceledOnDisk
            /\ n = [[E EXCEPT !.pc = "over", !.todo = <<Adopt>>] EXCEPT !.mem = Ended(m, "canceled"), !.seen = disk]
         \/ ~E.err /\ n = [E EXCEPT !.pc = "over", !.todo = Outcome("blocked")]
         \/ ~E.err /\ n = [E EXCEPT !.pc = "over", !.todo = Outcome("failed")]
         \/ ~E.err /\ Kind(m.stage) = "terminal" /\ n = [E EXCEPT !.pc = "over", !.todo = Outcome("completed")]
         \/ ~E.err /\ n = [[E EXCEPT !.pc = "over", !.todo = Block] EXCEPT !.mem = entered]
         \/ /\ ~E.err /\ Kind(m.stage) \notin {"none", "terminal"}
            /\ n = [[E EXCEPT !.pc = "dispatch", !.todo = <<Save("enter"), Said("stage_started")>>]
                      EXCEPT !.mem = entered]
    BY <2>1, <2>2, <2>3 DEF StepPlan, GoTo, Mem, AdoptCancel, Adopt, Block, BudgetBlock, Said
  <2> HIDE DEF entered
  <2> QED BY <2>8, <2>9, <2>10, <2>12, <2>13, <2>14
<1> QED BY <1>1, <1>2

\* An engine that ends its stage, or goes on to another place, with the run as it is.
LEMMA EndsItsStage ==
  ASSUME NEW E, MemoryIsSound(E), E.pc # "over", E.seen = NoState, disk.status \notin {"completed", "failed"},
         NEW ended, NEW todo, NEW n, Backs(n, E, ended, todo), BackPlace(n)
  PROVE  Knows(n)
<1>1. MemoryIsSound(n) /\ SaveIsChecked(n) /\ EndIsLast(n)
  BY DEF Backs, MemoryIsSound, SaveIsChecked, EndIsLast
<1>2. n.pc = "back"
  BY DEF Backs
<1>3. AtItsPlace(n)
  BY <1>2 DEF AtItsPlace
<1> QED BY <1>1, <1>3 DEF Knows

\* An engine that goes to another place with the memory it has.
LEMMA GoesToAPlace ==
  ASSUME NEW E, MemoryIsSound(E), E.pc # "over", E.seen = NoState, disk.status \notin {"completed", "failed"},
         NEW pc, NEW todo, NEW n, Moves(n, E, pc, todo), AtItsPlace(n)
  PROVE  Knows(n)
<1>1. MemoryIsSound(n) /\ SaveIsChecked(n) /\ EndIsLast(n)
  BY DEF Moves, MemoryIsSound, SaveIsChecked, EndIsLast
<1> QED BY <1>1 DEF Knows

\* An engine whose stage halts or fails before anything was written.
LEMMA HaltsItsStage ==
  ASSUME NEW E, E.seen = NoState, NEW ended \in {"halt", "error"}, NEW todo \in Seq(Halting),
         NEW n, Backs(n, E, ended, todo)
  PROVE  /\ IsEngine(n) /\ n.pc = "back" /\ n.worker = E.worker
         /\ MemoryIsSound(E) /\ E.pc # "over" /\ CanHalt(E) /\ disk.status \notin {"completed", "failed"} => Knows(n)
<1>1. IsEngine(n) /\ n.pc = "back" /\ n.worker = E.worker
  BY DEF Backs
<1>2. ASSUME MemoryIsSound(E), E.pc # "over", CanHalt(E), disk.status \notin {"completed", "failed"} PROVE Knows(n)
  <2>1. BackPlace(n)
    BY <1>2, EndsEarly
  <2> QED BY <1>2, <2>1, EndsItsStage
<1> QED BY <1>1, <1>2

\* announceWorkerStart: the agent's number is one more than those before.
LEMMA Opens ==
  ASSUME RunIsSound, NEW E, IsEngine(E), E.seen = NoState, NEW m, m = E.mem,
         NEW id, id = <<m.agents + 1, m.stage>>,
         NEW todo, todo = <<Open(id), Save("start"), Announced, Agent(id)>>,
         NEW k, k = [m EXCEPT !.agents = @ + 1],
         NEW n, IsEngine(n), n.pc = "agent", n.mem = k, n.todo = todo, n.seen = NoState, n.worker = id
  PROVE  /\ Follows(n, E)
         /\ /\ MemoryIsSound(E) /\ E.pc # "over" /\ Synced(m) /\ AtMost(m.agents) /\ m.agents < MaxWorkers
            /\ Kind(m.stage) \in Works /\ ~AgentBudgetExceeded(m) /\ disk.status \notin {"completed", "failed"}
            => Knows(n) /\ ~Started(n.worker)
<1>1. todo # <<>> /\ todo \in AgentPlans(id)
  BY Tuples DEF AgentPlans
<1>2. Follows(n, E)
  BY <1>1 DEF Follows, StartsItsAgent, HasAgent
<1>3. ASSUME MemoryIsSound(E), E.pc # "over", Synced(m), AtMost(m.agents), m.agents < MaxWorkers,
             Kind(m.stage) \in Works, ~AgentBudgetExceeded(m), disk.status \notin {"completed", "failed"}
      PROVE  Knows(n) /\ ~Started(n.worker)
  <2>1. Sound(m) /\ m.agents \in Nat /\ m.stage \in Stages /\ m.status \notin {"completed", "failed"}
    BY <1>3, BoundsAssumption DEF MemoryIsSound, Sound, RunStates
  <2>2. m.agents + 1 \in 0 .. MaxWorkers /\ m.agents + 1 \in 1 .. MaxWorkers
    BY <1>3, <2>1, BoundsAssumption
  <2>3. /\ k.status = m.status /\ k.stage = m.stage /\ k.agents = m.agents + 1 /\ k.stages = m.stages
        /\ k.visits = m.visits /\ k \in RunStates
    BY <2>1, <2>2 DEF Sound, RunStates
  <2>4. Sound(k)
    BY <1>3, <2>1, <2>3 DEF Sound, Ordered, Verified, Works
  <2>5. id \in Ids /\ id[1] = m.agents + 1 /\ id[2] = m.stage
    BY <2>1, <2>2 DEF Ids
  <2>6. MaxAgents > 0 => id[1] <= MaxAgents
    BY <1>3, <2>1, <2>5, ConfigAssumption DEF AgentBudgetExceeded
  <2>7. Fresh(id)
    <3>1. id[1] - 1 = m.agents
      BY <2>1, <2>5
    <3> QED BY <1>3, <2>5, <2>6, <3>1 DEF Fresh
  <2>8. MemoryIsSound(n) /\ SaveIsChecked(n) /\ EndIsLast(n)
    <3>1. disk.agents <= k.agents
      BY <1>3, <2>1, <2>3 DEF Synced
    <3> QED BY <1>3, <2>1, <2>3, <2>4, <3>1 DEF MemoryIsSound, SaveIsChecked, EndIsLast
  <2>9. OpenWorkerPlace(n)
    <3>1. disk.agents = id[1] - 1 /\ k.agents = id[1]
      BY <1>3, <2>1, <2>3, <2>5 DEF Synced
    <3> QED BY <1>3, <2>3, <2>5, <2>7, <3>1 DEF OpenWorkerPlace, Synced, SameStage
  <2>10. ~Started(id)
    BY <1>3, <2>1, <2>5 DEF Started, AtMost, RunIsSound, SlotsAreCounted, Ids
  <2> QED BY <2>8, <2>9, <2>10 DEF Knows, AtItsPlace
<1> QED BY <1>2, <1>3

\* A stage starts its agent or its gates.
LEMMA DispatchStep ==
  ASSUME HeadlessInv, NEW e \in Engines, NEW how, NEW outcome \in GateOutcomes, NEW late, Dispatch(e, how, outcome, late)
  PROVE  HeadlessInv'
<1>1. CASE ~intact
  BY <1>1 DEF HeadlessInv, Dispatch, history
<1>2. CASE intact
  <2>1. PICK E, m : E = engine[e] /\ m = E.mem
    OBVIOUS
  <2>2. PICK n : n = IF late THEN GoTo(e, "over", BudgetBlock)
                     ELSE IF Kind(Mem(e).stage) = "gate" THEN GatePlan(e, outcome)
                     ELSE WorkerPlan(e, how)
    OBVIOUS
  <2>3. engine' = [engine EXCEPT ![e] = n] /\ UNCHANGED <<files, changed, owner, cancel, history>>
    BY <2>2 DEF Dispatch
  <2>4. IsEngine(E) /\ E.pc = "dispatch" /\ E.todo = <<>> /\ E.seen = NoState /\ RunIsSound /\ m.agents < MaxWorkers
    BY <1>2, <2>1 DEF HeadlessInv, Shaped, Dispatch, At, Mem
  <2>5. owner = e => /\ MemoryIsSound(E) /\ Synced(m) /\ AtMost(m.agents) /\ Kind(m.stage) \in Acts /\ CanHalt(E)
                     /\ disk.status \notin {"completed", "failed"}
    <3>1. ASSUME owner = e PROVE MemoryIsSound(E) /\ EndIsLast(E) /\ DispatchPlace(E)
      BY <1>2, <2>1, <2>4, <3>1 DEF HeadlessInv, Knows, Blank, AtItsPlace
    <3>2. \A a, b : <<a, b>> # <<>> /\ <<a>> # <<>>
      BY Tuples
    <3>3. ASSUME owner = e PROVE Synced(m) /\ AtMost(m.agents) /\ Kind(m.stage) \in Acts
      BY <2>1, <2>4, <3>1, <3>2, <3>3 DEF DispatchPlace
    <3> QED BY <2>1, <2>4, <3>1, <3>3 DEF EndIsLast, CanHalt, Synced, SameStage
  <2>6. SUFFICES Follows(n, E) /\ (owner = e => Knows(n) /\ (n.worker = E.worker \/ ~Started(n.worker)))
    BY <1>2, <2>1, <2>3, QuietStep
  <2>7. ASSUME IsEngine(n), n.pc \notin {"off", "agent"}, n.worker = E.worker, owner = e => Knows(n)
        PROVE  Follows(n, E) /\ (owner = e => Knows(n) /\ (n.worker = E.worker \/ ~Started(n.worker)))
    BY <2>7, LeaveFollows
  <2>8. CASE n = [E EXCEPT !.pc = "over", !.todo = Block]
    <3>1. PICK todo : todo = Outcome("blocked")
      OBVIOUS
    <3>2. Moves(n, E, "over", todo)
      BY <2>4, <2>8, <3>1, Going DEF Block
    <3>3. IsEngine(n) /\ n.pc = "over" /\ n.worker = E.worker
      BY <3>2 DEF Moves, SameWork
    <3>4. ASSUME owner = e PROVE Knows(n)
      <4>1. MemoryIsSound(n) /\ SameStage(n.mem) /\ n.todo = Outcome("blocked") /\ n.seen = NoState
        BY <2>1, <2>4, <2>5, <3>1, <3>2, <3>4 DEF Moves, MemoryIsSound, Synced
      <4> QED BY <2>5, <3>3, <3>4, <4>1, ComesToAnEnd
    <3> QED BY <2>7, <3>3, <3>4
  <2>9. ASSUME NEW ended \in {"halt", "error"}, NEW todo \in Seq(Halting),
               n = [[E EXCEPT !.pc = "back", !.todo = todo] EXCEPT !.ended = ended]
        PROVE  Follows(n, E) /\ (owner = e => Knows(n) /\ (n.worker = E.worker \/ ~Started(n.worker)))
    <3>1. /\ IsEngine(n) /\ n.pc = "back" /\ n.worker = E.worker
          /\ MemoryIsSound(E) /\ E.pc # "over" /\ CanHalt(E) /\ disk.status \notin {"completed", "failed"} => Knows(n)
      <4>1. Backs(n, E, ended, todo)
        BY <2>4, <2>9, Ending
      <4> QED BY <2>4, <2>9, <4>1, HaltsItsStage
    <3> QED BY <2>4, <2>5, <2>7, <3>1
  <2>10. CASE /\ Kind(m.stage) = "gate" /\ "missing" \in GateOutcomes
              /\ n = [[E EXCEPT !.pc = "back", !.todo = <<NoGates>>] EXCEPT !.ended = "advance"]
    <3>1. PICK todo : todo = <<NoGates>>
      OBVIOUS
    <3>2. Backs(n, E, "advance", todo)
      BY <2>4, <2>10, <3>1, Ending
    <3>3. IsEngine(n) /\ n.pc = "back" /\ n.worker = E.worker
      BY <3>2 DEF Backs
    <3>4. ASSUME owner = e PROVE Knows(n)
      <4>1. BackPlace(n)
        BY <2>1, <2>5, <2>10, <3>1, <3>2, <3>4 DEF Backs, BackPlace, GatedPlace, Synced, SameStage, NoGates
      <4> QED BY <2>4, <2>5, <3>2, <3>4, <4>1, EndsItsStage
    <3> QED BY <2>7, <3>3, <3>4
  <2>11. CASE Kind(m.stage) = "gate" /\ n = [E EXCEPT !.pc = "gate", !.todo = <<Save("touch"), Run>>]
    <3>1. PICK todo : todo = <<Save("touch"), Run>>
      OBVIOUS
    <3>2. Moves(n, E, "gate", todo)
      BY <2>4, <2>11, <3>1, Going
    <3>3. IsEngine(n) /\ n.pc = "gate" /\ n.worker = E.worker
      BY <3>2 DEF Moves, SameWork
    <3>4. ASSUME owner = e PROVE Knows(n)
      <4>1. AtItsPlace(n)
        BY <2>1, <2>5, <2>11, <3>1, <3>2, <3>4 DEF Moves, AtItsPlace, GatePlace, Synced, SameStage, Run
      <4> QED BY <2>4, <2>5, <3>2, <3>4, <4>1, GoesToAPlace
    <3> QED BY <2>7, <3>3, <3>4
  <2>12. CASE Kind(m.stage) # "gate" /\ ~AgentBudgetExceeded(m) /\ n = OpenWorker(e)
    <3>1. PICK id : id = <<m.agents + 1, m.stage>>
      OBVIOUS
    <3>2. PICK todo : todo = <<Open(id), Save("start"), Announced, Agent(id)>>
      OBVIOUS
    <3>3. n = [[E EXCEPT !.pc = "agent", !.todo = todo] EXCEPT !.mem.agents = @ + 1, !.worker = id]
      BY <2>1, <2>12, <3>1, <3>2 DEF OpenWorker, GoTo, Mem, Open, Announced, Agent
    <3>4. PICK k : k = [m EXCEPT !.agents = @ + 1]
      OBVIOUS
    <3>5. n = [pc |-> "agent", mem |-> k, todo |-> todo, seen |-> E.seen, err |-> E.err, lost |-> E.lost,
               ctx |-> E.ctx, ended |-> E.ended, outcome |-> E.outcome, decided |-> E.decided, worker |-> id,
               refused |-> E.refused]
      BY <2>1, <2>4, <3>3, <3>4 DEF IsEngine
    <3>6. IsEngine(n) /\ n.pc = "agent" /\ n.mem = k /\ n.todo = todo /\ n.seen = NoState /\ n.worker = id
      BY <2>4, <3>5 DEF IsEngine
    <3>7. /\ Follows(n, E)
          /\ /\ MemoryIsSound(E) /\ E.pc # "over" /\ Synced(m) /\ AtMost(m.agents) /\ m.agents < MaxWorkers
             /\ Kind(m.stage) \in Works /\ ~AgentBudgetExceeded(m) /\ disk.status \notin {"completed", "failed"}
             => Knows(n) /\ ~Started(n.worker)
      BY <2>1, <2>4, <3>1, <3>2, <3>4, <3>6, Opens
    <3> QED BY <2>4, <2>5, <2>12, <3>7 DEF Acts
  <2>13. \/ n = [E EXCEPT !.pc = "over", !.todo = Block]
         \/ n = [[E EXCEPT !.pc = "back", !.todo = Block] EXCEPT !.ended = "halt"]
         \/ n = [[E EXCEPT !.pc = "back", !.todo = <<>>] EXCEPT !.ended = "error"]
         \/ /\ Kind(m.stage) = "gate" /\ "missing" \in GateOutcomes
            /\ n = [[E EXCEPT !.pc = "back", !.todo = <<NoGates>>] EXCEPT !.ended = "advance"]
         \/ Kind(m.stage) = "gate" /\ n = [E EXCEPT !.pc = "gate", !.todo = <<Save("touch"), Run>>]
         \/ Kind(m.stage) # "gate" /\ ~AgentBudgetExceeded(m) /\ n = OpenWorker(e)
    <3>1. CASE late
      BY <2>1, <2>2, <3>1 DEF GoTo, BudgetBlock
    <3>2. CASE ~late /\ Kind(m.stage) = "gate"
      <4>1. n = GatePlan(e, outcome)
        BY <2>1, <2>2, <3>2 DEF Mem
      <4> QED BY <2>1, <3>2, <4>1 DEF GatePlan, EndStage, GoTo, NoGates, Run
    <3>3. CASE ~late /\ Kind(m.stage) # "gate"
      <4>1. n = WorkerPlan(e, how)
        BY <2>1, <2>2, <3>3 DEF Mem
      <4> QED BY <2>1, <3>3, <4>1 DEF WorkerPlan, EndStage, GoTo, BudgetBlock, Mem
    <3> QED BY <3>1, <3>2, <3>3
  <2> QED BY <2>8, <2>9, <2>10, <2>11, <2>12, <2>13, BlockIsPlain, ZenonT(30)
<1> QED BY <1>1, <1>2

-----------------------------------------------------------------------------
(* While an agent or a gate runs *)

\* An engine that changes only what no place of the loop looks at.
Marks(n, E) ==
  /\ IsEngine(n) /\ n.pc = E.pc /\ n.todo = E.todo /\ n.mem = E.mem /\ n.seen = E.seen /\ n.err = E.err
  /\ n.ended = E.ended /\ n.outcome = E.outcome /\ n.decided = E.decided /\ n.worker = E.worker

\* Knowledge does not depend on what Marks leaves open.
LEMMA SameKnowledge ==
  ASSUME NEW E, StartsItsAgent(E), E.pc # "off", NEW n, Marks(n, E)
  PROVE  Follows(n, E) /\ n.worker = E.worker /\ (Knows(E) => Knows(n))
<1>1. /\ IsEngine(n) /\ n.pc = E.pc /\ n.todo = E.todo /\ n.mem = E.mem /\ n.seen = E.seen /\ n.err = E.err
      /\ n.ended = E.ended /\ n.outcome = E.outcome /\ n.decided = E.decided /\ n.worker = E.worker
  BY DEF Marks
<1>2. Follows(n, E)
  BY <1>1 DEF Follows, StartsItsAgent, HasAgent
<1>3. ASSUME Knows(E) PROVE Knows(n)
  <2> USE <1>1
  <2>1. /\ MemoryIsSound(E) => MemoryIsSound(n)
        /\ SaveIsChecked(E) => SaveIsChecked(n)
        /\ EndIsLast(E) => EndIsLast(n)
        /\ Blank(E) => Blank(n)
    BY DEF MemoryIsSound, SaveIsChecked, EndIsLast, Blank, First
  <2>2. /\ StepPlace(E) => StepPlace(n)
        /\ DispatchPlace(E) => DispatchPlace(n)
        /\ OpenWorkerPlace(E) => OpenWorkerPlace(n)
        /\ GatePlace(E) => GatePlace(n)
        /\ OverPlace(E) => OverPlace(n)
    BY DEF StepPlace, DispatchPlace, OpenWorkerPlace, GatePlace, OverPlace
  <2>3. /\ SettlePlace(E) => SettlePlace(n)
        /\ BackPlace(E) => BackPlace(n)
    BY DEF SettlePlace, BackPlace, AcceptedPlace, GatedPlace, HaltedPlace, AtTheEnd
  <2>4. AtItsPlace(E) => AtItsPlace(n)
    BY <2>2, <2>3 DEF AtItsPlace
  <2> QED BY <1>3, <2>1, <2>4 DEF Knows
<1> QED BY <1>1, <1>2, <1>3

\* An engine with another context, or one that lost its lock.
LEMMA MarkedFields ==
  ASSUME NEW E, IsEngine(E), NEW v, NEW c, NEW n, n = [E EXCEPT !.lost = v, !.ctx = c] \/ n = [E EXCEPT !.ctx = c]
  PROVE  Marks(n, E)
<1>1. \E lost : n = [pc |-> E.pc, mem |-> E.mem, todo |-> E.todo, seen |-> E.seen, err |-> E.err, lost |-> lost,
                    ctx |-> c, ended |-> E.ended, outcome |-> E.outcome, decided |-> E.decided,
                    worker |-> E.worker, refused |-> E.refused]
  BY DEF IsEngine
<1> QED BY <1>1 DEF IsEngine, Marks

\* A cancel, a deadline and a lost lock leave their mark on a step.
LEMMA MarkSteps ==
  ASSUME HeadlessInv, NEW e \in Engines, WatchCancel(e) \/ Deadline(e) \/ LoseLock(e)
  PROVE  HeadlessInv'
<1>1. CASE ~intact
  BY <1>1 DEF HeadlessInv, WatchCancel, Deadline, LoseLock, history
<1>2. CASE intact
  <2>1. PICK E : E = engine[e]
    OBVIOUS
  <2>2. IsEngine(E) /\ StartsItsAgent(E) /\ (owner = e => Knows(E))
    BY <1>2, <2>1 DEF HeadlessInv, Shaped, AgentsAreStarted
  <2>3. E.pc # "off" /\ UNCHANGED <<files, changed, owner, cancel, history>>
    BY <2>1 DEF WatchCancel, Deadline, LoseLock, AtWork, At, Running
  <2>4. \E n, c : engine' = [engine EXCEPT ![e] = n] /\ (n = [E EXCEPT !.lost = TRUE, !.ctx = c] \/ n = [E EXCEPT !.ctx = c])
    <3>1. CASE WatchCancel(e)
      BY <2>1, <3>1 DEF WatchCancel
    <3>2. CASE Deadline(e)
      BY <2>1, <3>2 DEF Deadline
    <3>3. CASE LoseLock(e)
      <4>1. PICK c : c = IF E.ctx = "live" THEN "canceled" ELSE E.ctx
        OBVIOUS
      <4>2. engine' = [engine EXCEPT ![e] = [E EXCEPT !.lost = TRUE, !.ctx = c]]
        BY <1>2, <2>1, <2>2, <3>3, <4>1 DEF LoseLock, HeadlessInv, Shaped, IsEngine
      <4> QED BY <4>2
    <3> QED BY <3>1, <3>2, <3>3
  <2>5. PICK n, c : engine' = [engine EXCEPT ![e] = n] /\ (n = [E EXCEPT !.lost = TRUE, !.ctx = c] \/ n = [E EXCEPT !.ctx = c])
    BY <2>4
  <2>6. Marks(n, E)
    BY <2>2, <2>5, MarkedFields
  <2>7. Follows(n, E) /\ n.worker = E.worker /\ (owner = e => Knows(n))
    BY <2>2, <2>3, <2>6, SameKnowledge
  <2> QED BY <2>1, <2>3, <2>5, <2>7, QuietStep
<1> QED BY <1>1, <1>2

\* The agent of an engine is on record before it changes anything.
LEMMA AgentEditsStep ==
  ASSUME HeadlessInv, NEW e \in Engines, AgentEdits(e)
  PROVE  HeadlessInv'
<1> SUFFICES ASSUME intact'
             PROVE  (Shaped /\ RunIsSound /\ CancelsKnow /\ AgentsAreStarted /\ NothingRanYet
                     /\ (owner \in Engines => Knows(engine[owner])))'
  BY DEF HeadlessInv
<1>1. intact /\ UNCHANGED <<files, owner, engine, cancel, history>> /\ changed' = changed \cup {engine[e].worker}
  BY DEF AgentEdits, history, Active
<1>2. /\ Shaped /\ RunIsSound /\ CancelsKnow /\ AgentsAreStarted /\ NothingRanYet
      /\ owner \in Engines => Knows(engine[owner])
  BY <1>1 DEF HeadlessInv
<1>3. HasAgent(engine[e]) /\ Started(engine[e].worker)
  BY <1>2, Tuples DEF AgentEdits, At, AgentsAreStarted, StartsItsAgent, HasAgent, AgentPlans
<1>4. engine[e].worker \in DOMAIN workers
  BY <1>2, <1>3 DEF RunIsSound, SlotsAreCounted, FilesAgree, Started
<1> USE DEF files, history
<1>5. Shaped' /\ AgentsAreStarted' /\ NothingRanYet'
  BY <1>1, <1>2 DEF Shaped, AgentsAreStarted, StartsItsAgent, Started, NothingRanYet
<1>6. RunIsSound'
  BY <1>1, <1>2, <1>4 DEF RunIsSound, Sound, RunStates, Ordered, Verified, GatesPassed, SlotsAreCounted, AtMost, FilesAgree,
     Started
<1>7. CancelsKnow'
  BY <1>1, <1>2 DEF CancelsKnow, CanceledOnDisk
<1>8. ASSUME owner \in Engines PROVE Knows(engine[owner])'
  <2>1. PICK E : E = engine[owner]
    OBVIOUS
  <2>2. E.pc = "agent" \/ (E.worker \in changed') = (E.worker \in changed)
    <3>1. CASE owner = e
      BY <2>1, <3>1 DEF AgentEdits, At
    <3>2. CASE owner # e
      BY <1>1, <1>2, <1>3, <1>8, <2>1, <3>2 DEF AgentsAreStarted
    <3> QED BY <3>1, <3>2
  <2>3. Knows(E)'
    BY <1>1, <1>2, <1>8, <2>1, <2>2, SameTree
  <2> QED BY <1>1, <2>1, <2>3
<1> QED BY <1>1, <1>5, <1>6, <1>7, <1>8

-----------------------------------------------------------------------------
(* The end of a process *)

\* An engine is killed.
LEMMA CrashStep ==
  ASSUME HeadlessInv, NEW e \in Engines, Crash(e)
  PROVE  HeadlessInv'
<1>1. CASE ~intact
  BY <1>1 DEF HeadlessInv, Crash, history
<1>2. CASE intact
  <2>1. PICK E, n : E = engine[e] /\ n = [Off EXCEPT !.pc = "dead"]
    OBVIOUS
  <2>2. engine' = [engine EXCEPT ![e] = n] /\ UNCHANGED <<files, changed, owner, cancel, history>>
    BY <2>1 DEF Crash
  <2>3. IsEngine(n) /\ n.pc = "dead" /\ n.todo = <<>> /\ n.seen = NoState /\ n.worker = NoWorker
    BY <2>1 DEF Off, IsEngine
  <2>4. Follows(n, E)
    BY <2>3, LeaveFollows
  <2>5. Knows(n)
    BY <2>3 DEF Knows, Blank
  <2>6. ~Started(n.worker)
    BY <1>2, <2>3, NobodyStarted DEF HeadlessInv
  <2> QED BY <2>1, <2>2, <2>4, <2>5, <2>6, QuietStep
<1> QED BY <1>1, <1>2

\* An engine ends.
LEMMA ExitStep ==
  ASSUME HeadlessInv, NEW e \in Engines, Exit(e)
  PROVE  HeadlessInv'
<1> SUFFICES ASSUME intact'
             PROVE  (Shaped /\ RunIsSound /\ CancelsKnow /\ AgentsAreStarted /\ NothingRanYet
                     /\ (owner \in Engines => Knows(engine[owner])))'
  BY DEF HeadlessInv
<1>1. intact /\ UNCHANGED <<files, changed, engine, cancel, history>> /\ owner' = Nobody
  BY DEF Exit, history
<1>2. /\ Shaped /\ RunIsSound /\ CancelsKnow /\ AgentsAreStarted /\ NothingRanYet
  BY <1>1 DEF HeadlessInv
<1> USE DEF files, history
<1>3. Shaped' /\ NothingRanYet'
  BY <1>1, <1>2 DEF Shaped, NothingRanYet
<1>4. AgentsAreStarted'
  BY <1>1, <1>2, EnginesAssumption DEF AgentsAreStarted, StartsItsAgent, Started
<1>5. RunIsSound'
  BY <1>1, <1>2 DEF RunIsSound, Sound, RunStates, Ordered, Verified, GatesPassed, SlotsAreCounted, AtMost, FilesAgree, Started
<1>6. CancelsKnow'
  BY <1>1, <1>2 DEF CancelsKnow, CanceledOnDisk
<1> QED BY <1>1, <1>3, <1>4, <1>5, <1>6, EnginesAssumption

-----------------------------------------------------------------------------
(* The end of an agent and of the gates *)

\* An agent ends.
LEMMA AgentEndsStep ==
  ASSUME HeadlessInv, NEW e \in Engines, NEW outcome, NEW tokens \in Usage, NEW decided \in Verdicts,
         AgentEnds(e, outcome, tokens, decided)
  PROVE  HeadlessInv'
<1>1. CASE ~intact
  BY <1>1 DEF HeadlessInv, AgentEnds, history
<1>2. CASE intact
  <2>1. PICK E, m : E = engine[e] /\ m = E.mem
    OBVIOUS
  <2>2. PICK d : d = IF Kind(m.stage) = "review" THEN decided ELSE "none"
    OBVIOUS
  <2>3. PICK k, todo : k = [m EXCEPT !.tokens[m.stage] = @ + tokens] /\ todo = Evidence(e, outcome)
    OBVIOUS
  <2>4. PICK n : n = [[E EXCEPT !.pc = "settle", !.todo = todo]
                        EXCEPT !.mem.tokens[m.stage] = @ + tokens, !.outcome = outcome, !.decided = d]
    OBVIOUS
  <2>5. engine' = [engine EXCEPT ![e] = n] /\ UNCHANGED <<files, changed, owner, cancel, history>>
    BY <2>1, <2>2, <2>3, <2>4 DEF AgentEnds, GoTo, Mem
  <2>6. IsEngine(E) /\ E.pc = "agent" /\ E.todo = <<>> /\ E.seen = NoState /\ RunIsSound
    BY <1>2, <2>1 DEF HeadlessInv, Shaped, AgentEnds, At
  <2>7. /\ IsEngine(n) /\ n.pc = "settle" /\ n.todo = todo /\ n.mem = k /\ n.seen = NoState /\ n.worker = E.worker
        /\ n.outcome = outcome /\ n.decided = d /\ n.err = E.err
    <3>1. n = [pc |-> "settle", mem |-> k, todo |-> todo, seen |-> E.seen, err |-> E.err, lost |-> E.lost,
               ctx |-> E.ctx, ended |-> E.ended, outcome |-> outcome, decided |-> d, worker |-> E.worker,
               refused |-> E.refused]
      BY <2>1, <2>3, <2>4, <2>6 DEF IsEngine
    <3> QED BY <2>6, <3>1 DEF IsEngine
  <2>8. Follows(n, E)
    BY <2>7, LeaveFollows
  <2>9. ASSUME owner = e PROVE Knows(n)
    <3>1. MemoryIsSound(E) /\ EndIsLast(E) /\ OpenWorkerPlace(E)
      BY <1>2, <2>1, <2>6, <2>9 DEF HeadlessInv, Knows, Blank, AtItsPlace
    <3>2. Synced(m) /\ Kind(disk.stage) \in Works /\ E.worker \in DOMAIN workers /\ Current(E.worker)
      BY <2>1, <2>6, <3>1, Tuples DEF OpenWorkerPlace
    <3>3. /\ k.status = m.status /\ k.stage = m.stage /\ k.agents = m.agents /\ k.stages = m.stages
          /\ k.visits = m.visits /\ Sound(k)
      <4>1. Sound(m) /\ tokens \in Nat
        BY <2>1, <3>1, EnvironmentAssumption DEF MemoryIsSound
      <4>2. /\ k.status = m.status /\ k.stage = m.stage /\ k.agents = m.agents /\ k.stages = m.stages
            /\ k.visits = m.visits /\ k \in RunStates
        BY <2>3, <4>1 DEF Sound, RunStates
      <4> QED BY <4>1, <4>2 DEF Sound, Ordered, Verified, GatesPassed
    <3>4. MemoryIsSound(n) /\ SaveIsChecked(n) /\ EndIsLast(n)
      BY <2>1, <2>6, <2>7, <3>1, <3>3 DEF MemoryIsSound, SaveIsChecked, EndIsLast
    <3>5. AtTheEnd(n)
      BY <2>2, <2>7, <3>2, <3>3 DEF AtTheEnd, Synced, SameStage
    <3>6. SettlePlace(n)
      <4>1. \/ outcome \in {"unstarted", "unaudited"} /\ todo \in {<<Result>>, <<>>}
            \/ todo = <<Result, Report(E.worker)>>
        BY <2>1, <2>3 DEF Evidence, Result, Report, Active
      <4> QED BY <2>7, <3>5, <4>1 DEF SettlePlace, Result, Report
    <3> QED BY <2>7, <3>4, <3>6 DEF Knows, AtItsPlace
  <2> QED BY <2>1, <2>5, <2>7, <2>8, <2>9, QuietStep
<1> QED BY <1>1, <1>2

\* Gates that changed the tree, or failed, halt the run.
LEMMA GateHalts ==
  ASSUME NEW agents \in 0 .. MaxWorkers, NEW passed \in BOOLEAN
  PROVE  LET saved == <<Hard(Do("gate", 0, [passed |-> passed, after |-> agents]))>> IN
         /\ saved \in Seq(Halting) /\ saved \o Block \in Seq(Halting)
         /\ saved \o <<File("mutations", 0, "")>> \o Block \in Seq(Halting)
<1>1. PICK w : w = Hard(Do("gate", 0, [passed |-> passed, after |-> agents]))
  OBVIOUS
<1>2. PICK x : x = File("mutations", 0, "")
  OBVIOUS
<1>3. w \in Halting
  <2>1. w \in Results
    BY <1>1 DEF Hard, Do, Results, Sort
  <2> QED BY <2>1 DEF Halting
<1>4. x \in Halting
  BY <1>2 DEF File, Do, Halting, Quiets, Sort
<1>5. <<w>> \in Seq(Halting) /\ <<x>> \in Seq(Halting)
  BY <1>3, <1>4
<1>6. \A a, b, c \in Seq(Halting) : a \o b \in Seq(Halting) /\ a \o b \o c \in Seq(Halting)
  OBVIOUS
<1> QED BY <1>1, <1>2, <1>5, <1>6, BlockIsPlain, Zenon

\* The gates end.
LEMMA GateEndsStep ==
  ASSUME HeadlessInv, NEW e \in Engines, NEW outcome, GateEnds(e, outcome)
  PROVE  HeadlessInv'
<1>1. CASE ~intact
  BY <1>1 DEF HeadlessInv, GateEnds, history
<1>2. CASE intact
  <2>1. PICK E, m : E = engine[e] /\ m = E.mem
    OBVIOUS
  <2>2. PICK p, saved : /\ p = (outcome # "fail") /\ p \in BOOLEAN
                        /\ saved = <<Hard(Do("gate", 0, [passed |-> p, after |-> m.agents]))>>
    OBVIOUS
  <2>3. PICK n : n =
       CASE outcome = "mutate" -> EndStage(e, "halt", saved \o <<File("mutations", 0, "")>> \o Block)
         [] outcome = "pass" -> EndStage(e, "advance", saved)
         [] OTHER -> IF engine[e].ctx = "deadline" THEN EndStage(e, "error", saved)
                                                   ELSE EndStage(e, "halt", saved \o Block)
    OBVIOUS
  <2>4. engine' = [engine EXCEPT ![e] = n] /\ UNCHANGED <<files, changed, owner, cancel, history>>
    BY <2>1, <2>2, <2>3 DEF GateEnds, Mem
  <2>5. IsEngine(E) /\ E.pc = "gate" /\ E.todo = <<>> /\ E.seen = NoState /\ RunIsSound
    BY <1>2, <2>1 DEF HeadlessInv, Shaped, GateEnds, At
  <2>6. \E ended, todo :
          /\ n = [[E EXCEPT !.pc = "back", !.todo = todo] EXCEPT !.ended = ended]
          /\ \/ outcome = "pass" /\ ended = "advance" /\ todo = saved
             \/ ended = "halt" /\ todo = saved \o <<File("mutations", 0, "")>> \o Block
             \/ ended = "error" /\ todo = saved
             \/ ended = "halt" /\ todo = saved \o Block
    BY <2>1, <2>3 DEF EndStage, GoTo
  <2>7. PICK ended, todo :
          /\ n = [[E EXCEPT !.pc = "back", !.todo = todo] EXCEPT !.ended = ended]
          /\ \/ outcome = "pass" /\ ended = "advance" /\ todo = saved
             \/ ended = "halt" /\ todo = saved \o <<File("mutations", 0, "")>> \o Block
             \/ ended = "error" /\ todo = saved
             \/ ended = "halt" /\ todo = saved \o Block
    BY <2>6
  <2>8. Backs(n, E, ended, todo)
    BY <2>5, <2>7, Ending
  <2>9. IsEngine(n) /\ n.pc = "back" /\ n.worker = E.worker
    BY <2>8 DEF Backs
  <2>10. Follows(n, E)
    BY <2>9, LeaveFollows
  <2>11. ASSUME owner = e PROVE Knows(n)
    <3>1. MemoryIsSound(E) /\ EndIsLast(E) /\ GatePlace(E)
      BY <1>2, <2>1, <2>5, <2>11 DEF HeadlessInv, Knows, Blank, AtItsPlace
    <3>2. Synced(m) /\ Kind(disk.stage) = "gate" /\ m.agents \in 0 .. MaxWorkers
      BY <2>1, <3>1 DEF GatePlace, MemoryIsSound, Sound, RunStates
    <3>3. CanHalt(E) /\ disk.status \notin {"completed", "failed"}
      BY <2>1, <2>5, <3>1, <3>2 DEF CanHalt, Synced, Acts, EndIsLast
    <3>4. CASE ended = "advance"
      <4>1. todo = <<GateResult(disk.agents)>>
        BY <2>2, <2>7, <3>2, <3>4 DEF GateResult, Synced
      <4>2. BackPlace(n)
        BY <2>1, <2>8, <3>2, <3>4, <4>1 DEF Backs, BackPlace, GatedPlace, GateResult
      <4> QED BY <2>5, <2>8, <3>1, <3>3, <4>2, EndsItsStage
    <3>5. CASE ended # "advance"
      <4>1. ended \in {"halt", "error"} /\ todo \in Seq(Halting)
        <5>1. /\ saved \in Seq(Halting) /\ saved \o Block \in Seq(Halting)
              /\ saved \o <<File("mutations", 0, "")>> \o Block \in Seq(Halting)
          BY <2>2, <3>2, GateHalts
        <5> QED BY <2>7, <3>5, <5>1, Zenon
      <4> QED BY <2>5, <2>8, <3>1, <3>3, <4>1, HaltsItsStage
    <3> QED BY <3>4, <3>5
  <2> QED BY <2>1, <2>4, <2>9, <2>10, <2>11, QuietStep
<1> QED BY <1>1, <1>2

-----------------------------------------------------------------------------
(* The end of a worker *)

\* What a worker writes that halts the run.
LEMMA WorkerHalts ==
  ASSUME NEW id \in Ids
  PROVE  /\ \A s \in {"failed", "canceled"} : Loose(<<File("worker", id, s)>>) \in Seq(Halting)
         /\ <<File("worker", id, "failed"), Run>> \o Block \in Seq(Halting)
         /\ <<Closes(id), Finishes, Clears>> \o Block \in Seq(Halting)
         /\ \A v \in Votes : <<Closes(id), Finishes, Clears>> \o (<<v>> \o Block) \in Seq(Halting)
<1>1. \A s \in {"failed", "canceled"} : Loose(<<File("worker", id, s)>>) \in Seq(Halting)
  <2>1. SUFFICES ASSUME NEW s \in {"failed", "canceled"} PROVE Loose(<<File("worker", id, s)>>) \in Seq(Halting)
    OBVIOUS
  <2>2. PICK w : w = File("worker", id, s)
    OBVIOUS
  <2>3. PICK x : x = [w EXCEPT !.mode = "loose"]
    OBVIOUS
  <2>4. x \in Ends
    BY <2>1, <2>2, <2>3 DEF File, Do, Ends, Sort
  <2>5. Loose(<<w>>) = <<x>>
    <3>1. DOMAIN <<w>> = 1 .. 1 /\ <<w>>[1] = w
      OBVIOUS
    <3>2. \A i \in 1 .. 1 : i = 1
      OBVIOUS
    <3>3. Loose(<<w>>) = [i \in 1 .. 1 |-> x]
      BY <2>3, <3>1, <3>2 DEF Loose
    <3> QED BY <3>3
  <2>6. x \in Halting
    BY <2>4 DEF Halting
  <2>7. <<x>> \in Seq(Halting)
    BY <2>6
  <2>8. Loose(<<w>>) \in Seq(Halting)
    BY <2>5, <2>7
  <2> QED BY <2>2, <2>8, Zenon
<1>2. PICK f : f = File("worker", id, "failed")
  OBVIOUS
<1>3. f \in Halting
  <2>1. f \in Ends
    BY <1>2 DEF File, Do, Ends, Sort
  <2> QED BY <2>1 DEF Halting
<1>4. Run \in Halting /\ Finishes \in Halting
  <2>1. Run \in Quiets /\ Finishes \in Quiets
    BY DEF Run, Finishes, Errs, Event, Do, Quiets, Marked, EventNames
  <2> QED BY <2>1 DEF Halting
<1>5. Closes(id) \in Halting
  <2>1. Closes(id) \in Ends
    BY DEF Closes, File, Do, Ends, Sort
  <2> QED BY <2>1 DEF Halting
<1>6. Clears \in Halting
  BY DEF Clears, Save, Do, Halting, Sort
<1>7. \A v \in Votes : <<v>> \in Seq(Halting)
  <2>1. Votes \subseteq Halting
    BY DEF Halting
  <2> QED BY <2>1
<1>8. PICK a, b, c : a = Closes(id) /\ b = Finishes /\ c = Clears
  OBVIOUS
<1>9. <<f, Run>> \in Seq(Halting) /\ <<a, b, c>> \in Seq(Halting)
  BY <1>3, <1>4, <1>5, <1>6, <1>8
<1>10. \A s, t \in Seq(Halting) : s \o t \in Seq(Halting)
  OBVIOUS
<1> QED BY <1>1, <1>2, <1>7, <1>8, <1>9, <1>10, BlockIsPlain, Zenon

\* The verdict of a review that is not left unread.
LEMMA VoteIs ==
  ASSUME NEW i \in Nat, NEW verdict \in Verdicts
  PROVE  [File("verdict", i, verdict) EXCEPT !.mode = "block"] \in Votes
  BY DEF File, Do, Votes, Sort

\* What is written when the worker of an engine has ended, and how its stage ends.
SettlesTo(e, ended, todo) ==
  LET id == engine[e].worker
      m == engine[e].mem
      closes == <<Closes(id), Finishes, Clears>>
      vote == [File("verdict", m.visits["review"], engine[e].decided) EXCEPT !.mode = "block"]
  IN
  \/ ended = "error" /\ \E s \in {"failed", "canceled"} : todo = Loose(<<File("worker", id, s)>>)
  \/ ended = "halt" /\ todo = Loose(<<File("worker", id, "canceled")>>)
  \/ ended = "halt" /\ todo = <<File("worker", id, "failed"), Run>> \o Block
  \/ ended = "halt" /\ todo = closes \o Block
  \/ ended = "halt" /\ todo = closes \o (<<vote>> \o Block) /\ engine[e].decided # "none" /\ Kind(m.stage) # "worker"
  \/ /\ ended = "advance" /\ engine[e].outcome \notin {"unstarted", "unaudited"} /\ ~Violates(m.stage, id \in changed)
     /\ \/ todo = closes \o <<>>
        \/ todo = closes \o <<vote>> /\ engine[e].decided # "none" /\ Kind(m.stage) # "worker"

\* SettlePlan comes to one of these ends.
LEMMA SettleCases ==
  ASSUME NEW e \in Engines
  PROVE  \E ended, todo :
           /\ SettlePlan(e) = [[engine[e] EXCEPT !.pc = "back", !.todo = todo] EXCEPT !.ended = ended]
           /\ SettlesTo(e, ended, todo)
<1>1. PICK E, id, m, n : E = engine[e] /\ id = E.worker /\ m = E.mem /\ n = SettlePlan(e)
  OBVIOUS
<1> DEFINE Ends2(ended, todo) == n = [[E EXCEPT !.pc = "back", !.todo = todo] EXCEPT !.ended = ended]
<1>2. \A ended, todo : n = EndStage(e, ended, todo) => Ends2(ended, todo)
  BY <1>1 DEF EndStage, GoTo
<1>3. \A writes : Finished(e, writes) = <<Closes(id), Finishes, Clears>> \o writes
  BY <1>1 DEF Finished, Active, Closes, Finishes, Clears
<1>4. PICK vote : vote = [File("verdict", m.visits["review"], E.decided) EXCEPT !.mode = "block"]
  OBVIOUS
<1>5. CASE n = VerdictPlan(e) /\ Kind(m.stage) # "worker" /\ E.outcome \notin {"unstarted", "unaudited"} /\ ~Violates(m.stage, id \in changed)
  <2>1. \/ n = EndStage(e, "halt", Finished(e, Block))
        \/ n = EndStage(e, "halt", Finished(e, <<vote>> \o Block)) /\ E.decided # "none"
        \/ n = EndStage(e, "advance", Finished(e, <<vote>>)) /\ E.decided # "none"
    BY <1>1, <1>4, <1>5 DEF VerdictPlan, Mem
  <2>2. CASE n = EndStage(e, "halt", Finished(e, Block))
    BY <1>1, <1>2, <1>3, <2>2 DEF SettlesTo
  <2>3. CASE n = EndStage(e, "halt", Finished(e, <<vote>> \o Block)) /\ E.decided # "none"
    <3>1. PICK todo : todo = <<Closes(id), Finishes, Clears>> \o (<<vote>> \o Block)
      OBVIOUS
    <3>2. SettlesTo(e, "halt", todo)
      BY <1>1, <1>4, <1>5, <2>3, <3>1 DEF SettlesTo
    <3>3. n = EndStage(e, "halt", todo)
      BY <1>3, <2>3, <3>1
    <3> QED BY <1>1, <1>2, <3>2, <3>3
  <2>4. CASE n = EndStage(e, "advance", Finished(e, <<vote>>)) /\ E.decided # "none"
    <3>1. PICK todo : todo = <<Closes(id), Finishes, Clears>> \o <<vote>>
      OBVIOUS
    <3>2. SettlesTo(e, "advance", todo)
      BY <1>1, <1>4, <1>5, <2>4, <3>1 DEF SettlesTo
    <3>3. n = EndStage(e, "advance", todo)
      BY <1>3, <2>4, <3>1
    <3> QED BY <1>1, <1>2, <3>2, <3>3
  <2> QED BY <2>1, <2>2, <2>3, <2>4
<1>6. CASE n = EndStage(e, "advance", Finished(e, <<>>)) /\ E.outcome \notin {"unstarted", "unaudited"}
           /\ ~Violates(m.stage, id \in changed)
  BY <1>1, <1>2, <1>3, <1>6 DEF SettlesTo
<1>7. CASE n = EndStage(e, "halt", Finished(e, Block))
  BY <1>1, <1>2, <1>3, <1>7 DEF SettlesTo
<1>8. CASE n = EndStage(e, "halt", <<File("worker", id, "failed"), Run>> \o Block)
  <2>1. PICK todo : todo = <<File("worker", id, "failed"), Run>> \o Block
    OBVIOUS
  <2>2. SettlesTo(e, "halt", todo)
    BY <1>1, <2>1 DEF SettlesTo
  <2>3. n = EndStage(e, "halt", todo)
    BY <1>8, <2>1
  <2> QED BY <1>1, <1>2, <2>2, <2>3
<1>9. CASE n = EndStage(e, "halt", Loose(<<File("worker", id, "canceled")>>))
  BY <1>1, <1>2, <1>9 DEF SettlesTo
<1>10. ASSUME NEW s \in {"failed", "canceled"}, n = EndStage(e, "error", Loose(<<File("worker", id, s)>>))
       PROVE  \E ended, todo : Ends2(ended, todo) /\ SettlesTo(e, ended, todo)
  <2>1. PICK todo : todo = Loose(<<File("worker", id, s)>>)
    OBVIOUS
  <2>2. SettlesTo(e, "error", todo)
    BY <1>1, <1>10, <2>1 DEF SettlesTo
  <2>3. n = EndStage(e, "error", todo)
    BY <1>10, <2>1
  <2> QED BY <1>2, <2>2, <2>3
<1>11. \/ /\ n = VerdictPlan(e) /\ Kind(m.stage) # "worker" /\ E.outcome \notin {"unstarted", "unaudited"}
          /\ ~Violates(m.stage, id \in changed)
       \/ /\ n = EndStage(e, "advance", Finished(e, <<>>)) /\ E.outcome \notin {"unstarted", "unaudited"}
          /\ ~Violates(m.stage, id \in changed)
       \/ n = EndStage(e, "halt", Finished(e, Block))
       \/ n = EndStage(e, "halt", <<File("worker", id, "failed"), Run>> \o Block)
       \/ n = EndStage(e, "halt", Loose(<<File("worker", id, "canceled")>>))
       \/ n = EndStage(e, "error", Loose(<<File("worker", id, "failed")>>))
       \/ n = EndStage(e, "error", Loose(<<File("worker", id, "canceled")>>))
  BY <1>1 DEF SettlePlan, Mem, Active, Run
<1> QED BY <1>1, <1>5, <1>6, <1>7, <1>8, <1>9, <1>10, <1>11

\* The end of a worker is planned.
LEMMA SettleStep ==
  ASSUME HeadlessInv, NEW e \in Engines, Settle(e)
  PROVE  HeadlessInv'
<1>1. CASE ~intact
  BY <1>1 DEF HeadlessInv, Settle, history
<1>2. CASE intact
  <2>1. PICK E, m, id : E = engine[e] /\ m = E.mem /\ id = E.worker
    OBVIOUS
  <2>2. PICK ended, todo : /\ SettlePlan(e) = [[E EXCEPT !.pc = "back", !.todo = todo] EXCEPT !.ended = ended]
                           /\ SettlesTo(e, ended, todo)
    BY <2>1, SettleCases
  <2>3. PICK n : n = [[E EXCEPT !.pc = "back", !.todo = todo] EXCEPT !.ended = ended]
    OBVIOUS
  <2>4. engine' = [engine EXCEPT ![e] = n] /\ UNCHANGED <<files, changed, owner, cancel, history>>
    BY <2>2, <2>3 DEF Settle
  <2>5. IsEngine(E) /\ E.pc = "settle" /\ E.todo = <<>> /\ E.seen = NoState /\ RunIsSound
    BY <1>2, <2>1 DEF HeadlessInv, Shaped, Settle, At
  <2>6. Backs(n, E, ended, todo)
    BY <2>3, <2>5, Ending
  <2>7. IsEngine(n) /\ n.pc = "back" /\ n.worker = E.worker
    BY <2>6 DEF Backs
  <2>8. Follows(n, E)
    BY <2>7, LeaveFollows
  <2>9. ASSUME owner = e PROVE Knows(n)
    <3>1. MemoryIsSound(E) /\ EndIsLast(E) /\ SettlePlace(E)
      BY <1>2, <2>1, <2>5, <2>9 DEF HeadlessInv, Knows, Blank, AtItsPlace
    <3>2. AtTheEnd(E) /\ (E.outcome \in {"unstarted", "unaudited"} \/ E.err \/ Judged(id))
      BY <2>1, <2>5, <3>1, Tuples DEF SettlePlace
    <3>3. CanHalt(E) /\ disk.status \notin {"completed", "failed"} /\ id \in Ids /\ Synced(m)
      BY <2>1, <2>5, <3>1, <3>2 DEF AtTheEnd, CanHalt, Synced, Acts, EndIsLast, RunIsSound, FilesAgree
    <3>4. PICK vote : vote = [File("verdict", m.visits["review"], E.decided) EXCEPT !.mode = "block"]
      OBVIOUS
    <3>5. E.decided # "none" /\ Kind(m.stage) # "worker" => vote \in Votes
      <4>1. Kind(m.stage) # "worker" => m.visits["review"] \in Nat
        <5>1. m.stage \in Stages /\ m.visits \in [Stages -> Nat] /\ Kind(m.stage) \in Works
          BY <2>1, <3>1, <3>2, <3>3 DEF MemoryIsSound, Sound, RunStates, AtTheEnd, Synced, SameStage
        <5>2. Kind(m.stage) # "worker" => m.stage = "review"
          BY <5>1, WorkflowFacts DEF StageFacts, Works
        <5> QED BY <5>1, <5>2
      <4>2. E.decided # "none" => E.decided \in Verdicts
        BY <3>2 DEF AtTheEnd
      <4> QED BY <3>4, <4>1, <4>2, VoteIs
    <3>6. CASE ended = "advance"
      <4>1. /\ E.outcome \notin {"unstarted", "unaudited"} /\ ~Violates(m.stage, id \in changed)
            /\ \/ todo = <<Closes(id), Finishes, Clears>> \o <<>>
               \/ todo = <<Closes(id), Finishes, Clears>> \o <<vote>> /\ vote \in Votes
        BY <2>1, <2>2, <3>4, <3>5, <3>6 DEF SettlesTo
      <4>2. \E rest \in Rests : todo = <<Closes(id), Finishes, Clears>> \o rest
        BY <4>1 DEF Rests
      <4>3. AtTheEnd(n)
        BY <2>6, <3>2 DEF Backs, AtTheEnd
      <4>4. AcceptedPlace(n)
        <5>1. ~Violates(disk.stage, id \in changed)
          BY <3>3, <4>1 DEF Synced, SameStage
        <5>2. n.worker = id /\ n.todo = todo /\ n.err = E.err
          BY <2>1, <2>6 DEF Backs
        <5> QED BY <3>2, <4>1, <4>2, <4>3, <5>1, <5>2 DEF AcceptedPlace, Closes, Finishes, Clears
      <4>5. BackPlace(n)
        BY <2>6, <3>6, <4>4 DEF Backs, BackPlace
      <4> QED BY <2>5, <2>6, <3>1, <3>3, <4>5, EndsItsStage
    <3>7. CASE ended # "advance"
      <4>1. /\ ended \in {"halt", "error"}
            /\ \/ \E s \in {"failed", "canceled"} : todo = Loose(<<File("worker", id, s)>>)
               \/ todo = <<File("worker", id, "failed"), Run>> \o Block
               \/ todo = <<Closes(id), Finishes, Clears>> \o Block
               \/ todo = <<Closes(id), Finishes, Clears>> \o (<<vote>> \o Block) /\ vote \in Votes
        BY <2>1, <2>2, <3>4, <3>5, <3>7 DEF SettlesTo
      <4>2. todo \in Seq(Halting)
        BY <3>3, <4>1, WorkerHalts
      <4> QED BY <2>5, <2>6, <3>1, <3>3, <4>1, <4>2, HaltsItsStage
    <3> QED BY <3>6, <3>7
  <2> QED BY <2>1, <2>4, <2>7, <2>8, <2>9, QuietStep
<1> QED BY <1>1, <1>2

-----------------------------------------------------------------------------
(* After a stage *)

\* The stage of a run that was not canceled may be left for the one its branch leads to.
LEMMA StageIsLeft ==
  ASSUME RunIsSound, ~CanceledOnDisk, NEW E, MemoryIsSound(E), E.todo = <<>>, E.ended = "advance", BackPlace(E)
  PROVE  /\ Branch(E.mem) \in Stages /\ MayLeave(E.worker, Branch(E.mem))
         /\ Synced(E.mem) /\ AtMost(E.mem.agents) /\ E.mem.agents = disk.agents
<1>1. PICK id, m, s : id = E.worker /\ m = E.mem /\ s = disk.stage
  OBVIOUS
<1>2. Synced(m) /\ Kind(s) \in Acts /\ (AcceptedPlace(E) \/ GatedPlace(E))
  BY <1>1 DEF BackPlace, AcceptedPlace, GatedPlace, AtTheEnd, Acts
<1>3. s \in Stages /\ AtMost(m.agents) /\ m.stage = s /\ m.visits = disk.visits /\ m.agents = disk.agents
  BY <1>1, <1>2 DEF RunIsSound, Sound, RunStates, SlotsAreCounted, Synced, SameStage, CanceledOnDisk
<1>4. Kind(s) = "gate" => GatesPassed(disk)
  <2>1. Kind(s) = "gate" => GatedPlace(E)
    BY <1>1, <1>2 DEF AcceptedPlace, AtTheEnd, Works
  <2> QED BY <2>1, Tuples DEF GatedPlace
<1>5. Kind(s) \in Works => id = <<disk.agents, s>> /\ Done(id) /\ Judged(id) /\ ~Violates(s, id \in changed)
  <2>1. SUFFICES ASSUME Kind(s) \in Works
                 PROVE  id = <<disk.agents, s>> /\ Done(id) /\ Judged(id) /\ ~Violates(s, id \in changed)
    OBVIOUS
  <2>2. AcceptedPlace(E)
    BY <1>1, <1>2, <2>1 DEF GatedPlace, Works
  <2>3. Done(id) /\ Judged(id)
    <3>1. PICK rest \in Rests :
            \/ E.todo = <<Closes(id), Finishes, Clears>> \o rest
            \/ E.todo = <<Finishes, Clears>> \o rest
            \/ E.todo \in {<<Clears>> \o rest, rest} /\ Done(id) /\ Judged(id)
      BY <1>1, <2>2 DEF AcceptedPlace, Closes, Finishes, Clears
    <3>2. PICK W : W = Votes \cup {Closes(id), Finishes, Clears}
      OBVIOUS
    <3>3. rest \in Seq(W) /\ Closes(id) \in W /\ Finishes \in W /\ Clears \in W
      <4>1. rest = <<>> \/ \E v \in Votes : rest = <<v>>
        BY DEF Rests
      <4>2. \A v \in W : <<v>> \in Seq(W)
        OBVIOUS
      <4>3. <<>> \in Seq(W)
        OBVIOUS
      <4> QED BY <3>2, <4>1, <4>2, <4>3
    <3>4. <<Closes(id), Finishes, Clears>> \o rest # <<>> /\ <<Finishes, Clears>> \o rest # <<>>
      BY <3>3, FrontOfTwo, FrontOfThree
    <3> QED BY <3>1, <3>4
  <2>4. id \in Ids /\ id[1] = disk.agents /\ id[2] = s
    BY <1>1, <2>2 DEF AcceptedPlace, AtTheEnd, Current, RunIsSound, FilesAgree
  <2>5. id = <<disk.agents, s>>
    BY <2>4 DEF Ids
  <2> QED BY <1>1, <2>2, <2>3, <2>5 DEF AcceptedPlace
<1>6. Branch(m) = IF Kind(s) = "review" /\ Verdict(disk.visits["review"]) # "approved"
                    THEN Workflow[s].onFixes ELSE Workflow[s].next
  BY <1>3 DEF Branch
<1>7. Branch(m) \in Stages
  BY <1>2, <1>3, <1>6, WorkflowFacts DEF StageFacts
<1>8. MayLeave(id, Branch(m))
  BY <1>1, <1>2, <1>4, <1>5, <1>6 DEF MayLeave
<1> QED BY <1>1, <1>2, <1>3, <1>7, <1>8

\* [GoTo(e, pc, todo) EXCEPT !.ctx = ctx]
LEMMA GoingLive ==
  ASSUME NEW E, IsEngine(E), NEW pc, NEW todo, NEW ctx, NEW n, n = [[E EXCEPT !.pc = pc, !.todo = todo] EXCEPT !.ctx = ctx]
  PROVE  Moves(n, E, pc, todo)
<1>1. n = [pc |-> pc, mem |-> E.mem, todo |-> todo, seen |-> E.seen, err |-> E.err, lost |-> E.lost, ctx |-> ctx,
       ended |-> E.ended, outcome |-> E.outcome, decided |-> E.decided, worker |-> E.worker, refused |-> E.refused]
  BY DEF IsEngine
<1> QED BY <1>1 DEF IsEngine, Moves, SameWork

\* A stage has ended.
LEMMA BackStep ==
  ASSUME HeadlessInv, NEW e \in Engines, Back(e)
  PROVE  HeadlessInv'
<1>1. CASE ~intact
  BY <1>1 DEF HeadlessInv, Back, history
<1>2. CASE intact
  <2>1. PICK E, m : E = engine[e] /\ m = E.mem
    OBVIOUS
  <2>2. PICK n : n = IF engine[e].lost THEN GoTo(e, "over", <<>>)
       ELSE IF CanceledOnDisk THEN AdoptCancel(e)
       ELSE IF engine[e].ctx = "deadline" THEN GoTo(e, "over", BudgetBlock)
       ELSE CASE engine[e].ended = "error" -> GoTo(e, "over", Outcome("failed"))
              [] engine[e].ended = "halt"  -> GoTo(e, "over", <<>>)
              [] OTHER -> [GoTo(e, "step", Leave(Branch(Mem(e)))) EXCEPT !.ctx = "live"]
    OBVIOUS
  <2>3. engine' = [engine EXCEPT ![e] = n] /\ UNCHANGED <<files, changed, owner, cancel, history>>
    BY <2>2 DEF Back
  <2>4. IsEngine(E) /\ E.pc = "back" /\ E.todo = <<>> /\ E.seen = NoState /\ RunIsSound
    BY <1>2, <2>1 DEF HeadlessInv, Shaped, Back, At
  <2>5. owner = e => MemoryIsSound(E) /\ BackPlace(E) /\ SameStage(m) /\ disk.status \notin {"completed", "failed"}
    <3>1. ASSUME owner = e PROVE MemoryIsSound(E) /\ EndIsLast(E) /\ BackPlace(E)
      BY <1>2, <2>1, <2>4, <3>1 DEF HeadlessInv, Knows, Blank, AtItsPlace
    <3> QED BY <2>1, <2>4, <3>1 DEF EndIsLast, BackPlace, AcceptedPlace, AtTheEnd, GatedPlace, HaltedPlace, Synced
  <2>6. SUFFICES IsEngine(n) /\ n.pc \notin {"off", "agent"} /\ n.worker = E.worker /\ (owner = e => Knows(n))
    <3>1. ASSUME IsEngine(n), n.pc \notin {"off", "agent"} PROVE Follows(n, E)
      BY <3>1, LeaveFollows
    <3> QED BY <1>2, <2>1, <2>3, <3>1, QuietStep
  <2>7. CASE n = [E EXCEPT !.pc = "over", !.todo = <<>>]
    <3>1. Moves(n, E, "over", <<>>)
      BY <2>4, <2>7, Going
    <3>2. IsEngine(n) /\ n.pc = "over" /\ n.worker = E.worker
      BY <3>1 DEF Moves, SameWork
    <3> QED BY <2>4, <3>1, <3>2, GoesOver
  <2>8. CASE CanceledOnDisk
             /\ n = [[E EXCEPT !.pc = "over", !.todo = <<Adopt>>] EXCEPT !.mem = Ended(m, "canceled"), !.seen = disk]
    <3>1. PICK k : k = Ended(m, "canceled")
      OBVIOUS
    <3>2. k = Ended(E.mem, "canceled") /\ n = [[E EXCEPT !.pc = "over", !.todo = <<Adopt>>] EXCEPT !.mem = k, !.seen = disk]
      BY <2>1, <2>8, <3>1
    <3>3. /\ IsEngine(n) /\ n.pc = "over" /\ n.worker = E.worker
          /\ MemoryIsSound(E) /\ SameStage(E.mem) => Knows(n)
      BY <2>4, <2>8, <3>2, Adopted
    <3> QED BY <2>1, <2>5, <3>3
  <2>9. ASSUME NEW s \in {"blocked", "failed"}, n = [E EXCEPT !.pc = "over", !.todo = Outcome(s)]
        PROVE  IsEngine(n) /\ n.pc \notin {"off", "agent"} /\ n.worker = E.worker /\ (owner = e => Knows(n))
    <3>1. PICK todo : todo = Outcome(s)
      OBVIOUS
    <3>2. Moves(n, E, "over", todo)
      BY <2>4, <2>9, <3>1, Going
    <3>3. ASSUME owner = e PROVE Knows(n)
      <4>1. MemoryIsSound(n) /\ SameStage(n.mem) /\ n.pc = "over" /\ n.todo = Outcome(s) /\ n.seen = NoState
        BY <2>1, <2>4, <2>5, <3>1, <3>2, <3>3 DEF Moves, MemoryIsSound
      <4> QED BY <2>5, <3>3, <4>1, ComesToAnEnd
    <3> QED BY <3>2, <3>3 DEF Moves, SameWork
  <2>10. CASE /\ ~CanceledOnDisk /\ E.ended \notin {"error", "halt"}
              /\ n = [[E EXCEPT !.pc = "step", !.todo = Leave(Branch(m))] EXCEPT !.ctx = "live"]
    <3>1. PICK next, todo : next = Branch(m) /\ todo = Leave(next)
      OBVIOUS
    <3>2. Moves(n, E, "step", todo)
      BY <2>4, <2>10, <3>1, GoingLive
    <3>3. ASSUME owner = e PROVE Knows(n)
      <4>1. E.ended = "advance"
        BY <2>5, <2>10, <3>3 DEF BackPlace, HaltedPlace
      <4>2. /\ next \in Stages /\ MayLeave(E.worker, next)
            /\ Synced(m) /\ AtMost(m.agents) /\ m.agents = disk.agents
        BY <2>1, <2>4, <2>5, <2>10, <3>1, <3>3, <4>1, StageIsLeft
      <4>3. n.pc = "step" /\ n.todo = Leave(next) /\ n.mem = m /\ n.seen = NoState /\ n.worker = E.worker
        BY <2>1, <2>4, <3>1, <3>2 DEF Moves, SameWork
      <4>4. AtItsPlace(n)
        BY <4>2, <4>3 DEF AtItsPlace, StepPlace, Synced
      <4> QED BY <2>4, <2>5, <3>2, <3>3, <4>4, GoesToAPlace
    <3> QED BY <3>2, <3>3 DEF Moves, SameWork
  <2>11. \/ n = [E EXCEPT !.pc = "over", !.todo = <<>>]
         \/ /\ CanceledOnDisk
            /\ n = [[E EXCEPT !.pc = "over", !.todo = <<Adopt>>] EXCEPT !.mem = Ended(m, "canceled"), !.seen = disk]
         \/ n = [E EXCEPT !.pc = "over", !.todo = Outcome("blocked")]
         \/ n = [E EXCEPT !.pc = "over", !.todo = Outcome("failed")]
         \/ /\ ~CanceledOnDisk /\ E.ended \notin {"error", "halt"}
            /\ n = [[E EXCEPT !.pc = "step", !.todo = Leave(Branch(m))] EXCEPT !.ctx = "live"]
    BY <2>1, <2>2 DEF GoTo, Mem, AdoptCancel, Adopt, Block, BudgetBlock
  <2> QED BY <2>7, <2>8, <2>9, <2>10, <2>11
<1> QED BY <1>1, <1>2

-----------------------------------------------------------------------------
(* A cancel from outside *)

\* What a cancel has read holds when it goes on from there.
Informed(k) ==
  /\ IsCancel(k)
  /\ k.pc \in {"audit", "save"} => k.seen.status \notin {"completed", "failed"}
  /\ k.pc = "audit" /\ k.seen.status = "canceled" => CanceledOnDisk
  /\ k.pc = "record" => CanceledOnDisk

\* An engine that holds the run knows what it knew when a cancel writes no state.
LEMMA CancelQuietly ==
  ASSUME HeadlessInv, NEW c \in Cancellers, NEW k, cancel' = [cancel EXCEPT ![c] = k],
         UNCHANGED <<disk, workers, reports, verdicts, gate, baseline, changed, owner, engine, history>>,
         intact => Informed(k) /\ (log' = log \/ (log' = log \cup {"canceled"} /\ CanceledOnDisk))
  PROVE  HeadlessInv'
<1> SUFFICES ASSUME intact'
             PROVE  (Shaped /\ RunIsSound /\ CancelsKnow /\ AgentsAreStarted /\ NothingRanYet
                     /\ (owner \in Engines => Knows(engine[owner])))'
  BY DEF HeadlessInv
<1> USE DEF history
<1>1. /\ intact /\ Shaped /\ RunIsSound /\ CancelsKnow /\ AgentsAreStarted /\ NothingRanYet
      /\ owner \in Engines => Knows(engine[owner])
  BY DEF HeadlessInv
<1>2. Informed(k) /\ (log' = log \/ (log' = log \cup {"canceled"} /\ CanceledOnDisk))
  BY <1>1
<1>3. /\ cancel' = [d \in Cancellers |-> cancel'[d]] /\ cancel'[c] = k
      /\ \A d \in Cancellers : d # c => cancel'[d] = cancel[d]
  BY <1>1 DEF Shaped
<1>4. Shaped'
  BY <1>1, <1>2, <1>3 DEF Shaped, Informed
<1>5. RunIsSound'
  <2>1. Sound(disk)' /\ SlotsAreCounted'
    BY <1>1 DEF RunIsSound, Sound, RunStates, Ordered, Verified, GatesPassed, SlotsAreCounted, AtMost
  <2>2. FilesAgree'
    BY <1>1, <1>2 DEF RunIsSound, FilesAgree, Started, CanceledOnDisk
  <2> QED BY <2>1, <2>2 DEF RunIsSound
<1>6. CancelsKnow'
  BY <1>1, <1>2, <1>3 DEF CancelsKnow, Informed, CanceledOnDisk
<1>7. AgentsAreStarted' /\ NothingRanYet'
  BY <1>1 DEF AgentsAreStarted, StartsItsAgent, Started, NothingRanYet
<1>8. ASSUME owner \in Engines PROVE Knows(engine[owner])'
  <2>1. PICK E : E = engine[owner]
    OBVIOUS
  <2>2. Knows(E)'
    BY <1>1, <1>8, <2>1, SameTree
  <2> QED BY <2>1, <2>2
<1> QED BY <1>4, <1>5, <1>6, <1>7, <1>8

\* A cancel reads, records or fails.
LEMMA CancelSteps ==
  ASSUME HeadlessInv, NEW c \in Cancellers, LoadState(c) \/ OpenAudit(c) \/ RecordCancel(c) \/ CancelFails(c)
  PROVE  HeadlessInv'
<1>1. PICK x : x = cancel[c]
  OBVIOUS
<1>2. intact => /\ IsCancel(x) /\ RunIsSound
                /\ x.pc = "audit" => x.seen.status \notin {"completed", "failed"}
                /\ x.pc = "audit" /\ x.seen.status = "canceled" => CanceledOnDisk
                /\ x.pc = "record" => CanceledOnDisk
  BY <1>1 DEF HeadlessInv, Shaped, CancelsKnow
<1>3. CASE ~intact
  BY <1>3 DEF HeadlessInv, LoadState, OpenAudit, RecordCancel, CancelFails, history
<1>4. CASE intact
  <2>1. CASE LoadState(c)
    <3>1. PICK k, pc : /\ k = [x EXCEPT !.seen = disk, !.pc = pc]
                       /\ pc = IF Final(disk.status) /\ ~CanceledOnDisk THEN "refused" ELSE "audit"
      OBVIOUS
    <3>2. cancel' = [cancel EXCEPT ![c] = k]
      BY <1>1, <1>4, <2>1, <3>1 DEF LoadState, HeadlessInv, Shaped
    <3>3. k = [pc |-> pc, seen |-> disk, recorded |-> x.recorded]
      BY <1>2, <1>4, <3>1 DEF IsCancel
    <3>4. Informed(k)
      BY <3>1, <3>3 DEF Informed, IsCancel, Final, CanceledOnDisk
    <3> QED BY <2>1, <3>2, <3>4, CancelQuietly DEF LoadState, files
  <2>2. CASE OpenAudit(c)
    <3>1. PICK k, recorded, pc :
            /\ k = [x EXCEPT !.recorded = recorded, !.pc = pc]
            /\ recorded = ("canceled" \in log) /\ pc = IF x.seen.status = "canceled" THEN "record" ELSE "save"
      OBVIOUS
    <3>2. cancel' = [cancel EXCEPT ![c] = k]
      BY <1>1, <1>4, <2>2, <3>1 DEF OpenAudit, HeadlessInv, Shaped
    <3>3. k = [pc |-> pc, seen |-> x.seen, recorded |-> recorded] /\ x.pc = "audit"
      BY <1>1, <1>2, <1>4, <2>2, <3>1 DEF IsCancel, OpenAudit
    <3>4. Informed(k)
      BY <1>2, <1>4, <3>1, <3>3 DEF Informed, IsCancel
    <3> QED BY <2>2, <3>2, <3>4, CancelQuietly DEF OpenAudit, files
  <2>3. CASE RecordCancel(c) \/ CancelFails(c)
    <3>1. PICK k, pc : /\ k = [x EXCEPT !.pc = pc]
                       /\ pc = IF RecordCancel(c) THEN "done" ELSE "failed"
      OBVIOUS
    <3>2. cancel' = [cancel EXCEPT ![c] = k]
      BY <1>1, <1>4, <2>3, <3>1 DEF RecordCancel, CancelFails, CancelTo, HeadlessInv, Shaped
    <3>3. k = [pc |-> pc, seen |-> x.seen, recorded |-> x.recorded]
      BY <1>2, <1>4, <3>1 DEF IsCancel
    <3>4. Informed(k)
      BY <3>1, <3>3 DEF Informed, IsCancel
    <3>5. log' = log \/ (log' = log \cup {"canceled"} /\ CanceledOnDisk)
      BY <1>1, <1>2, <1>4, <2>3 DEF RecordCancel, CancelFails, files
    <3>6. UNCHANGED <<disk, workers, reports, verdicts, gate, baseline, changed, owner, engine, history>>
      BY <2>3 DEF RecordCancel, CancelFails, files
    <3> QED BY <3>2, <3>4, <3>5, <3>6, CancelQuietly
  <2> QED BY <2>1, <2>2, <2>3
<1> QED BY <1>3, <1>4

\* A cancel ends a run that has not ended otherwise.
LEMMA CanceledFiles ==
  ASSUME RunIsSound, disk.status \notin {"completed", "failed"}, disk' = [disk EXCEPT !.status = "canceled"],
         UNCHANGED <<workers, reports, verdicts, gate, log, baseline, changed, owner, launched>>
  PROVE  /\ RunIsSound' /\ CanceledOnDisk'
         /\ disk'.stage = disk.stage /\ disk'.agents = disk.agents /\ disk'.stages = disk.stages
         /\ disk'.visits = disk.visits
<1>1. /\ disk'.status = "canceled" /\ disk'.stage = disk.stage /\ disk'.agents = disk.agents
      /\ disk'.stages = disk.stages /\ disk'.visits = disk.visits /\ disk' \in RunStates
  BY DEF RunIsSound, Sound, RunStates
<1>2. Sound(disk)'
  BY <1>1 DEF RunIsSound, Sound, RunStates, Ordered, Verified, GatesPassed
<1>3. SlotsAreCounted'
  BY <1>1 DEF RunIsSound, SlotsAreCounted
<1>4. FilesAgree'
  BY <1>1 DEF RunIsSound, FilesAgree, Started, Final
<1> QED BY <1>1, <1>2, <1>3, <1>4 DEF RunIsSound, CanceledOnDisk

\* The engine that holds the run still knows its files after a cancel.
LEMMA KnowsOfCancel ==
  ASSUME NEW E, Knows(E), disk.status \notin {"completed", "failed"}, CanceledOnDisk',
         disk'.stage = disk.stage, disk'.agents = disk.agents, disk'.stages = disk.stages, disk'.visits = disk.visits,
         UNCHANGED <<workers, reports, verdicts, gate, log, baseline, changed, launched>>
  PROVE  Knows(E)'
<1> USE DEF SameStage, Synced, Current, Done, Has, Judged, Fresh, AtMost, GatesPassed
<1>1. MemoryIsSound(E) => MemoryIsSound(E)'
  BY DEF MemoryIsSound, Sound, RunStates, Ordered, Verified
<1>2. EndIsLast(E)'
  BY DEF EndIsLast, CanceledOnDisk
<1>3. StepPlace(E) => StepPlace(E)'
  <2>1. \A id, next : MayLeave(id, next) => MayLeave(id, next)'
    BY DEF MayLeave, Verdict
  <2>2. Gone(disk)' = Gone(disk)
    BY DEF Gone
  <2> QED BY <2>1, <2>2 DEF StepPlace
<1>4. DispatchPlace(E) => DispatchPlace(E)'
  BY DEF DispatchPlace
<1>5. OpenWorkerPlace(E) => OpenWorkerPlace(E)'
  BY DEF OpenWorkerPlace
<1>6. GatePlace(E) => GatePlace(E)'
  BY DEF GatePlace
<1>7. AtTheEnd(E) => AtTheEnd(E)'
  BY DEF AtTheEnd
<1>8. SettlePlace(E) => SettlePlace(E)'
  BY <1>7 DEF SettlePlace
<1>9. BackPlace(E) => BackPlace(E)'
  BY <1>7 DEF BackPlace, AcceptedPlace, GatedPlace, HaltedPlace
<1>10. OverPlace(E) => OverPlace(E)'
  BY DEF OverPlace
<1>11. AtItsPlace(E) => AtItsPlace(E)'
  BY <1>3, <1>4, <1>5, <1>6, <1>8, <1>9, <1>10 DEF AtItsPlace
<1> QED BY <1>1, <1>2, <1>11 DEF Knows, SaveIsChecked, Blank

\* A cancel writes the state.
LEMMA CancelStateStep ==
  ASSUME HeadlessInv, NEW c \in Cancellers, CancelState(c)
  PROVE  HeadlessInv'
<1> SUFFICES ASSUME intact'
             PROVE  (Shaped /\ RunIsSound /\ CancelsKnow /\ AgentsAreStarted /\ NothingRanYet
                     /\ (owner \in Engines => Knows(engine[owner])))'
  BY DEF HeadlessInv
<1>1. /\ intact /\ disk = cancel[c].seen /\ disk' = [disk EXCEPT !.status = "canceled"]
      /\ UNCHANGED <<workers, reports, verdicts, gate, log, baseline, changed, owner, engine, launched>>
      /\ cancel[c].pc = "save" /\ cancel' = [cancel EXCEPT ![c].pc = "record"]
  BY DEF CancelState, CancelTo
<1>2. /\ Shaped /\ RunIsSound /\ CancelsKnow /\ AgentsAreStarted /\ NothingRanYet
      /\ owner \in Engines => Knows(engine[owner])
  BY <1>1 DEF HeadlessInv
<1>3. disk.status \notin {"completed", "failed"}
  BY <1>1, <1>2 DEF CancelsKnow
<1>4. /\ RunIsSound' /\ CanceledOnDisk'
      /\ disk'.stage = disk.stage /\ disk'.agents = disk.agents /\ disk'.stages = disk.stages
      /\ disk'.visits = disk.visits
  BY <1>1, <1>2, <1>3, CanceledFiles
<1>5. PICK k : k = [cancel[c] EXCEPT !.pc = "record"]
  OBVIOUS
<1>6. IsCancel(k) /\ k.pc = "record"
  BY <1>2, <1>5 DEF Shaped, IsCancel
<1>7. /\ cancel' = [d \in Cancellers |-> cancel'[d]] /\ cancel'[c] = k
      /\ \A d \in Cancellers : d # c => cancel'[d] = cancel[d]
  BY <1>1, <1>2, <1>5 DEF Shaped
<1>8. Shaped'
  BY <1>1, <1>2, <1>6, <1>7 DEF Shaped
<1>9. CancelsKnow'
  BY <1>2, <1>4, <1>6, <1>7 DEF CancelsKnow
<1>10. AgentsAreStarted' /\ NothingRanYet'
  BY <1>1, <1>2, <1>4 DEF AgentsAreStarted, StartsItsAgent, Started, NothingRanYet, CanceledOnDisk
<1>11. ASSUME owner \in Engines PROVE Knows(engine[owner])'
  <2>1. PICK E : E = engine[owner]
    OBVIOUS
  <2>2. Knows(E)'
    BY <1>1, <1>2, <1>3, <1>4, <1>11, <2>1, KnowsOfCancel
  <2> QED BY <1>1, <2>1, <2>2
<1> QED BY <1>1, <1>4, <1>8, <1>9, <1>10, <1>11

-----------------------------------------------------------------------------
(* The invariant *)

\* A run that was just created.
LEMMA RunBegins ==
  ASSUME Init
  PROVE  HeadlessInv
<1>1. /\ Start \in Stages /\ Kind(Start) = "worker" /\ MaxWorkers \in Nat /\ MaxAgents \in Nat
  BY WorkflowFacts, BoundsAssumption, ConfigAssumption
<1>2. Shaped
  <2>1. IsEngine(Off)
    BY DEF IsEngine, Off
  <2>2. \A c \in Cancellers : IsCancel(cancel[c])
    BY DEF Init, IsCancel
  <2>3. engine = [e \in Engines |-> engine[e]] /\ cancel = [c \in Cancellers |-> cancel[c]]
    BY DEF Init
  <2>4. \A e \in Engines : engine[e] = Off
    BY DEF Init
  <2> QED BY <2>1, <2>2, <2>3, <2>4 DEF Shaped
<1>3. RunIsSound
  <2>1. Sound(disk)
    <3>1. disk \in RunStates
      BY <1>1 DEF Init, RunStates, StageStatus
    <3>2. Ordered(disk)
      BY DEF Init, Ordered
    <3>3. Verified(disk)
      BY <1>1 DEF Init, Verified
    <3> QED BY <3>1, <3>2, <3>3 DEF Sound
  <2>2. SlotsAreCounted
    <3>1. launched = {} /\ disk.agents = 0
      BY DEF Init
    <3>2. IsFiniteSet(launched) /\ Cardinality(launched) = 0
      BY <3>1, FS_EmptySet
    <3> QED BY <1>1, <3>1, <3>2 DEF SlotsAreCounted, AtMost
  <2>3. FilesAgree
    <3>1. DOMAIN workers = {} /\ DOMAIN reports = {} /\ changed = {} /\ log = {} /\ owner = Nobody /\ launched = {}
      BY DEF Init
    <3> QED BY <3>1 DEF FilesAgree, Started
  <2> QED BY <2>1, <2>2, <2>3 DEF RunIsSound
<1>4. CancelsKnow
  BY DEF Init, CancelsKnow
<1>5. AgentsAreStarted
  BY DEF Init, AgentsAreStarted, StartsItsAgent, HasAgent, Off
<1>6. NothingRanYet
  BY DEF Init, NothingRanYet
<1>7. owner \notin Engines
  BY EnginesAssumption DEF Init
<1> QED BY <1>2, <1>3, <1>4, <1>5, <1>6, <1>7 DEF HeadlessInv

\* A step that changes nothing.
LEMMA RunStutters ==
  ASSUME HeadlessInv, UNCHANGED vars
  PROVE  HeadlessInv'
<1> SUFFICES ASSUME intact'
             PROVE  (Shaped /\ RunIsSound /\ CancelsKnow /\ AgentsAreStarted /\ NothingRanYet
                     /\ (owner \in Engines => Knows(engine[owner])))'
  BY DEF HeadlessInv
<1>1. UNCHANGED <<disk, workers, reports, verdicts, gate, log, baseline, changed, owner, engine, cancel, launched, intact>>
  BY DEF vars, files, history
<1>2. /\ Shaped /\ RunIsSound /\ CancelsKnow /\ AgentsAreStarted /\ NothingRanYet
      /\ owner \in Engines => Knows(engine[owner])
  BY <1>1 DEF HeadlessInv
<1>3. Shaped' /\ CancelsKnow' /\ AgentsAreStarted' /\ NothingRanYet'
  BY <1>1, <1>2 DEF Shaped, CancelsKnow, CanceledOnDisk, AgentsAreStarted, StartsItsAgent, Started, NothingRanYet
<1>4. RunIsSound'
  BY <1>1, <1>2 DEF RunIsSound, Sound, RunStates, Ordered, Verified, GatesPassed, SlotsAreCounted, AtMost, FilesAgree, Started
<1>5. ASSUME owner \in Engines PROVE Knows(engine[owner])'
  <2>1. PICK E : E = engine[owner]
    OBVIOUS
  <2>2. Knows(E)'
    BY <1>1, <1>2, <1>5, <2>1, SameTree
  <2> QED BY <1>1, <2>1, <2>2
<1> QED BY <1>1, <1>3, <1>4, <1>5

\* Every step of an engine, of the agents and gates it runs, and of a cancel.
LEMMA RunGoesOn ==
  ASSUME HeadlessInv, [Next]_vars
  PROVE  HeadlessInv'
<1>1. ASSUME NEW e \in Engines, EngineStep(e) PROVE HeadlessInv'
  <2>1. \/ Stop(e) \/ Check(e) \/ Write(e) \/ \E accept \in BOOLEAN : Resume(e, accept)
        \/ Resumed(e) \/ GiveUp(e) \/ Step(e)
        \/ \E how \in Starts, outcome \in GateOutcomes, late \in BOOLEAN : Dispatch(e, how, outcome, late)
        \/ Settle(e) \/ Back(e) \/ Exit(e)
    BY <1>1 DEF EngineStep
  <2>2. CASE Stop(e) \/ Check(e) \/ Write(e)
    BY <2>2, StopStep, CheckStep, WriteAnyStep
  <2>3. CASE \E accept \in BOOLEAN : Resume(e, accept)
    BY <2>3, ResumeStep
  <2>4. CASE Resumed(e) \/ GiveUp(e) \/ Step(e)
    BY <2>4, ResumedStep, GiveUpStep, StepStep
  <2>5. CASE \E how \in Starts, outcome \in GateOutcomes, late \in BOOLEAN : Dispatch(e, how, outcome, late)
    BY <2>5, DispatchStep
  <2>6. CASE Settle(e) \/ Back(e) \/ Exit(e)
    BY <2>6, SettleStep, BackStep, ExitStep
  <2> QED BY <2>1, <2>2, <2>3, <2>4, <2>5, <2>6
<1>2. ASSUME NEW e \in Engines, WatchCancel(e) \/ LoseLock(e) PROVE HeadlessInv'
  BY <1>2, MarkSteps
<1>3. ASSUME NEW e \in Engines, Environment(e) PROVE HeadlessInv'
  <2>1. CASE Launch(e) \/ Acquire(e)
    BY <2>1, LaunchStep, AcquireStep
  <2>2. CASE AgentEdits(e) \/ Deadline(e)
    BY <2>2, AgentEditsStep, MarkSteps
  <2>3. CASE WorkEnds(e)
    <3>1. CASE \E outcome \in AgentOutcomes, tokens \in Usage, decided \in Verdicts : AgentEnds(e, outcome, tokens, decided)
      BY <3>1, AgentEndsStep
    <3>2. CASE \E outcome \in GateOutcomes \cap {"pass", "fail", "mutate"} : GateEnds(e, outcome)
      BY <3>2, GateEndsStep
    <3> QED BY <2>3, <3>1, <3>2 DEF WorkEnds
  <2>4. CASE FailedWrite(e) \/ Crash(e)
    BY <2>4, FailStep, CrashStep
  <2> QED BY <1>3, <2>1, <2>2, <2>3, <2>4 DEF Environment
<1>4. ASSUME NEW c \in Cancellers, Cancel(c) PROVE HeadlessInv'
  <2>1. CASE CancelState(c)
    BY <2>1, CancelStateStep
  <2>2. CASE LoadState(c) \/ OpenAudit(c) \/ RecordCancel(c) \/ CancelFails(c)
    BY <2>2, CancelSteps
  <2> QED BY <1>4, <2>1, <2>2 DEF Cancel
<1>5. CASE UNCHANGED vars
  BY <1>5, RunStutters
<1> QED BY <1>1, <1>2, <1>3, <1>4, <1>5 DEF Next

\* As long as no save was overtaken, the files of a run agree with each other and the
\* engine that holds it knows what they say, wherever it is in its loop.
THEOREM RunHoldsTogether == Spec => []HeadlessInv
<1>1. Init => HeadlessInv
  BY RunBegins
<1>2. HeadlessInv /\ [Next]_vars => HeadlessInv'
  BY RunGoesOn
<1> QED BY <1>1, <1>2, PTL DEF Spec

-----------------------------------------------------------------------------
(* What the files tell *)

\* NeverOverReports: as long as no save was overtaken, the log announces no end that
\* the state does not have.
THEOREM LogTellsTheTruth == Spec => []NeverOverReports
<1>1. HeadlessInv => NeverOverReports
  BY DEF HeadlessInv, RunIsSound, FilesAgree, NeverOverReports
<1> QED BY <1>1, RunHoldsTogether, PTL

\* OneAgentPerSlot: a number is given to one agent, whatever was killed in between, and
\* the agents that were started stay within the budget of the run.
THEOREM AgentsStayInBudget == Spec => []OneAgentPerSlot
<1>1. HeadlessInv => OneAgentPerSlot
  BY DEF HeadlessInv, RunIsSound, SlotsAreCounted, OneAgentPerSlot
<1> QED BY <1>1, RunHoldsTogether, PTL

\* AcceptedStageIsLeft: a run is never at a stage whose work was accepted before, but
\* for those its workflow comes back to.
THEOREM StagesAreLeftForGood == Spec => []AcceptedStageIsLeft
<1>1. ASSUME HeadlessInv, intact PROVE disk.stages[disk.stage] = "done" => disk.stage \in {"review", "fix", "done"}
  <2>1. disk.stage \in Stages /\ Ordered(disk)
    BY <1>1 DEF HeadlessInv, RunIsSound, Sound, RunStates
  <2>2. Rank(disk.stage) \in Nat
    BY <2>1, WorkflowFacts
  <2> QED BY <2>1, <2>2 DEF Ordered
<1>2. HeadlessInv => AcceptedStageIsLeft
  BY <1>1 DEF AcceptedStageIsLeft
<1> QED BY <1>2, RunHoldsTogether, PTL

\* CompletedIsVerified: a run is completed on gates that passed after its last agent.
THEOREM CompletionIsVerified == Spec => []CompletedIsVerified
<1>1. HeadlessInv => CompletedIsVerified
  BY DEF HeadlessInv, RunIsSound, Sound, Verified, GatesPassed, CompletedIsVerified
<1> QED BY <1>1, RunHoldsTogether, PTL

\* TypeOK: the files of a run that was not overtaken have their types.
THEOREM FilesAreTyped == Spec => [](intact => TypeOK)
<1>1. ASSUME HeadlessInv, intact PROVE TypeOK
  <2>1. disk \in RunStates /\ FilesAgree
    BY <1>1 DEF HeadlessInv, RunIsSound, Sound
  <2> QED BY <2>1 DEF RunStates, FilesAgree, TypeOK
<1> QED BY <1>1, RunHoldsTogether, PTL

-----------------------------------------------------------------------------
(* What a write of the state may do *)

\* The state is written by an engine that has checked it and by vichu cancel.
LEMMA DiskWrites ==
  ASSUME [Next]_vars, disk' # disk
  PROVE  \/ \E e \in Engines : /\ engine[e].todo # <<>> /\ First(engine[e]).what \in StateWrites
                               /\ engine[e].seen # NoState /\ SaveMem(e)
         \/ \E c \in Cancellers : CancelState(c)
<1>1. \A e \in Engines : Write(e) => /\ engine[e].todo # <<>> /\ First(engine[e]).what \in StateWrites
                                     /\ engine[e].seen # NoState /\ SaveMem(e)
  BY DEF Write, WriteFile, StateWrites, Todo, First
<1>2. \A e \in Engines : EngineStep(e) => Write(e)
  BY DEF EngineStep, Stop, Check, Resume, Resumed, GiveUp, Step, Dispatch, Settle, Back, Exit, files
<1>3. ASSUME NEW e \in Engines PROVE ~WatchCancel(e) /\ ~LoseLock(e) /\ ~Environment(e)
  <2>1. ~WatchCancel(e) /\ ~LoseLock(e) /\ ~Launch(e) /\ ~Acquire(e) /\ ~AgentEdits(e) /\ ~Deadline(e)
    BY DEF WatchCancel, LoseLock, Launch, Acquire, AgentEdits, Deadline, files
  <2>2. ~WorkEnds(e)
    BY DEF WorkEnds, AgentEnds, GateEnds, files
  <2>3. ~FailedWrite(e) /\ ~Crash(e)
    BY DEF FailedWrite, Crash, files
  <2> QED BY <2>1, <2>2, <2>3 DEF Environment
<1>4. \A c \in Cancellers : Cancel(c) => CancelState(c)
  BY DEF Cancel, LoadState, OpenAudit, RecordCancel, CancelFails, files
<1> QED BY <1>1, <1>2, <1>3, <1>4 DEF Next, vars, files

\* An engine that writes the state keeps its stage, or leaves it on accepted work.
LEMMA SavesItsStage ==
  ASSUME NEW E, AtItsPlace(E), E.todo # <<>>, E.seen # NoState, First(E).what \in StateWrites
  PROVE  SameStage(E.mem) \/ MayLeave(E.worker, E.mem.stage)
<1>1. CASE E.pc = "step" /\ StepPlace(E)
  <2>1. First(E) # Said("stage_completed")
    BY SaidIs DEF StateWrites
  <2> QED BY <1>1, <2>1, StepTodo
<1>2. CASE E.pc = "over" /\ OverPlace(E)
  <2>1. First(E).what # "announce"
    BY DEF StateWrites
  <2>2. \A status : First(E) # Tells(status)
    BY <2>1, OverWritesAre, Zenon
  <2> QED BY <1>2, <2>2, OverTodo
<1> QED BY <1>1, <1>2, PlaceCases DEF DispatchPlace, OpenWorkerPlace, GatePlace, SettlePlace, AcceptedPlace, AtTheEnd,
                                      GatedPlace, HaltedPlace, Synced

\* CancelIsFinalUnlessOvertaken: no engine that has read a cancel writes it away.
THEOREM CancelIsFinal == Spec => CancelIsFinalUnlessOvertaken
<1>1. ASSUME HeadlessInv, [Next]_vars, disk' # disk, disk.status = "canceled", intact'
      PROVE  disk'.status = "canceled"
  <2>1. CASE \E e \in Engines : /\ engine[e].todo # <<>> /\ First(engine[e]).what \in StateWrites
                                /\ engine[e].seen # NoState /\ SaveMem(e)
    <3>1. PICK e \in Engines : /\ engine[e].todo # <<>> /\ engine[e].seen # NoState /\ SaveMem(e)
      BY <2>1
    <3>2. PICK E : E = engine[e]
      OBVIOUS
    <3>3. intact /\ owner = e /\ disk = E.seen /\ disk' = E.mem
      BY <1>1, <3>1, <3>2 DEF SaveMem, Mem
    <3>4. Remembers(E)
      BY <1>1, <3>1, <3>2, <3>3, Holder
    <3> QED BY <1>1, <3>1, <3>2, <3>3, <3>4 DEF Remembers, SaveIsChecked
  <2>2. CASE \E c \in Cancellers : CancelState(c)
    <3>1. PICK c \in Cancellers : CancelState(c)
      BY <2>2
    <3>2. disk' = [disk EXCEPT !.status = "canceled"] /\ disk \in RunStates
      BY <1>1, <3>1 DEF CancelState, HeadlessInv, RunIsSound, Sound
    <3> QED BY <3>2 DEF RunStates
  <2> QED BY <1>1, <2>1, <2>2, DiskWrites
<1>2. HeadlessInv /\ [Next]_vars => [disk.status = "canceled" /\ intact' => disk'.status = "canceled"]_disk
  BY <1>1
<1> QED BY <1>2, RunHoldsTogether, PTL DEF Spec, CancelIsFinalUnlessOvertaken

\* LeftOnCleanWork: a stage with an agent is left on the clean audit of its latest
\* agent, and a review for the stage that its latest verdict asks for.
THEOREM WorkIsAccepted == Spec => LeftOnCleanWork
<1> DEFINE Clean ==
      LET id == <<disk.agents, disk.stage>> IN
      intact' /\ disk'.stage # disk.stage /\ Kind(disk.stage) \in {"worker", "review"} =>
        /\ Done(id) /\ id \in DOMAIN reports
        /\ ~Violates(disk.stage, id \in changed)
        /\ Kind(disk.stage) = "review" =>
             disk'.stage = IF Verdict(disk.visits["review"]) = "approved" THEN Workflow["review"].next
                                                                         ELSE Workflow["review"].onFixes
<1>1. ASSUME HeadlessInv, [Next]_vars, intact', disk'.stage # disk.stage PROVE Clean
  <2>1. CASE \E e \in Engines : /\ engine[e].todo # <<>> /\ First(engine[e]).what \in StateWrites
                                /\ engine[e].seen # NoState /\ SaveMem(e)
    <3>1. PICK e \in Engines : /\ engine[e].todo # <<>> /\ First(engine[e]).what \in StateWrites
                               /\ engine[e].seen # NoState /\ SaveMem(e)
      BY <2>1
    <3>2. PICK E : E = engine[e]
      OBVIOUS
    <3>3. intact /\ owner = e /\ disk' = E.mem
      BY <1>1, <3>1, <3>2 DEF SaveMem, Mem
    <3>4. AtItsPlace(E) /\ RunIsSound
      BY <1>1, <3>1, <3>2, <3>3, Holder
    <3>5. MayLeave(E.worker, disk'.stage)
      BY <1>1, <3>1, <3>2, <3>3, <3>4, SavesItsStage DEF SameStage
    <3>6. disk.stage \in Stages /\ (Kind(disk.stage) = "review" => disk.stage = "review")
      BY <3>4, WorkflowFacts DEF RunIsSound, Sound, RunStates, StageFacts
    <3> QED BY <3>5, <3>6 DEF MayLeave, Judged, Works
  <2>2. CASE \E c \in Cancellers : CancelState(c)
    <3>1. PICK c \in Cancellers : CancelState(c)
      BY <2>2
    <3>2. disk' = [disk EXCEPT !.status = "canceled"] /\ disk \in RunStates
      BY <1>1, <3>1 DEF CancelState, HeadlessInv, RunIsSound, Sound
    <3>3. disk'.stage = disk.stage
      BY <3>2 DEF RunStates
    <3> QED BY <1>1, <3>3
  <2> QED BY <1>1, <2>1, <2>2, DiskWrites
<1>2. HeadlessInv /\ [Next]_vars => [Clean]_disk
  BY <1>1
<1> QED BY <1>2, RunHoldsTogether, PTL DEF Spec, LeftOnCleanWork

-----------------------------------------------------------------------------
(* Cancels *)

\* A cancel that goes on, while the log grows.
LEMMA RecordedStill ==
  ASSUME CancelsRecord, NEW c \in Cancellers, NEW k, cancel' = [cancel EXCEPT ![c] = k], IsCancel(k), log \subseteq log',
         k.pc \in {"save", "record"} /\ k.recorded => "canceled" \in log',
         k.pc = "done" => "canceled" \in log'
  PROVE  CancelsRecord'
<1>1. /\ cancel' = [d \in Cancellers |-> cancel'[d]] /\ cancel'[c] = k
      /\ \A d \in Cancellers : d # c => cancel'[d] = cancel[d]
  BY DEF CancelsRecord
<1> QED BY <1>1 DEF CancelsRecord

\* The log only grows, and a cancel that found itself recorded stays so.
LEMMA CancelsAreRecorded ==
  ASSUME CancelsRecord, [Next]_vars
  PROVE  CancelsRecord'
<1>1. CASE log \subseteq log' /\ UNCHANGED cancel
  BY <1>1 DEF CancelsRecord
<1>2. ASSUME NEW c \in Cancellers, Cancel(c) PROVE CancelsRecord'
  <2>1. PICK x : x = cancel[c]
    OBVIOUS
  <2>2. IsCancel(x) /\ (x.pc \in {"save", "record"} /\ x.recorded => "canceled" \in log)
    BY <2>1 DEF CancelsRecord
  <2>3. CASE LoadState(c)
    <3>1. PICK k, pc : /\ k = [x EXCEPT !.seen = disk, !.pc = pc]
                       /\ pc = IF Final(disk.status) /\ ~CanceledOnDisk THEN "refused" ELSE "audit"
      OBVIOUS
    <3>2. cancel' = [cancel EXCEPT ![c] = k] /\ log' = log
      BY <2>1, <2>3, <3>1 DEF LoadState, CancelsRecord, files
    <3>3. k = [pc |-> pc, seen |-> disk, recorded |-> x.recorded] /\ pc \notin {"save", "record", "done"}
      BY <2>2, <3>1 DEF IsCancel
    <3>4. IsCancel(k) /\ k.pc \notin {"save", "record", "done"}
      BY <3>3 DEF IsCancel
    <3> QED BY <3>2, <3>4, RecordedStill
  <2>4. CASE OpenAudit(c)
    <3>1. PICK k, recorded, pc :
            /\ k = [x EXCEPT !.recorded = recorded, !.pc = pc]
            /\ recorded = ("canceled" \in log) /\ pc = IF x.seen.status = "canceled" THEN "record" ELSE "save"
      OBVIOUS
    <3>2. cancel' = [cancel EXCEPT ![c] = k] /\ log' = log
      BY <2>1, <2>4, <3>1 DEF OpenAudit, CancelsRecord, files
    <3>3. k = [pc |-> pc, seen |-> x.seen, recorded |-> recorded] /\ pc # "done"
      BY <2>2, <3>1 DEF IsCancel
    <3>4. IsCancel(k) /\ k.pc # "done" /\ (k.recorded => "canceled" \in log)
      BY <3>1, <3>3 DEF IsCancel
    <3> QED BY <3>2, <3>4, RecordedStill
  <2>5. CASE CancelState(c) \/ RecordCancel(c) \/ CancelFails(c)
    <3>1. PICK k, pc : /\ k = [x EXCEPT !.pc = pc]
                       /\ pc = IF CancelState(c) THEN "record" ELSE IF RecordCancel(c) THEN "done" ELSE "failed"
      OBVIOUS
    <3>2. cancel' = [cancel EXCEPT ![c] = k]
      BY <2>1, <2>5, <3>1 DEF CancelState, RecordCancel, CancelFails, CancelTo, CancelsRecord
    <3>3. k = [pc |-> pc, seen |-> x.seen, recorded |-> x.recorded]
      BY <2>2, <3>1 DEF IsCancel
    <3>4. IsCancel(k) /\ k.pc = pc /\ k.recorded = x.recorded
      BY <3>3 DEF IsCancel
    <3>5. log \subseteq log'
      BY <2>5 DEF CancelState, RecordCancel, CancelFails, files
    <3>6. pc = "record" /\ x.recorded => "canceled" \in log'
      BY <2>1, <2>2, <3>1, <3>5 DEF CancelState
    <3>7. pc = "done" => "canceled" \in log'
      BY <2>1, <2>2, <3>1 DEF RecordCancel
    <3>8. pc # "save"
      BY <3>1
    <3> QED BY <3>2, <3>4, <3>5, <3>6, <3>7, <3>8, RecordedStill
  <2> QED BY <1>2, <2>3, <2>4, <2>5 DEF Cancel
<1>3. ASSUME NEW e \in Engines, EngineStep(e) \/ WatchCancel(e) \/ LoseLock(e) \/ Environment(e)
      PROVE  log \subseteq log' /\ UNCHANGED cancel
  <2>1. CASE Write(e)
    BY <2>1 DEF Write, SaveMem, WriteFile
  <2>2. CASE EngineStep(e) /\ ~Write(e)
    BY <2>2 DEF EngineStep, Stop, Check, Resume, Resumed, GiveUp, Step, Dispatch, Settle, Back, Exit, files
  <2>3. CASE WatchCancel(e) \/ LoseLock(e) \/ Environment(e)
    BY <2>3 DEF WatchCancel, LoseLock, Environment, Launch, Acquire, AgentEdits, WorkEnds, AgentEnds, GateEnds, Deadline,
                FailedWrite, Crash, files
  <2> QED BY <1>3, <2>1, <2>2, <2>3
<1> QED BY <1>1, <1>2, <1>3 DEF Next, vars, files

\* ReportedCancelIsRecorded: a vichu cancel that reports success is in the log, also
\* when its saves and those of the engines overtake each other.
THEOREM ReportedCancelsAreRecorded == Spec => []ReportedCancelIsRecorded
<1>1. ASSUME Init PROVE CancelsRecord
  <2>1. \A c \in Cancellers : cancel[c] = [pc |-> "off", seen |-> NoState, recorded |-> FALSE]
    BY <1>1 DEF Init
  <2>2. \A c \in Cancellers : IsCancel(cancel[c]) /\ cancel[c].pc = "off"
    BY <2>1 DEF IsCancel
  <2>3. cancel = [c \in Cancellers |-> cancel[c]]
    BY <1>1 DEF Init
  <2> QED BY <2>2, <2>3 DEF CancelsRecord
<1>2. CancelsRecord /\ [Next]_vars => CancelsRecord'
  BY CancelsAreRecorded
<1>3. CancelsRecord => ReportedCancelIsRecorded
  BY DEF CancelsRecord, ReportedCancelIsRecorded
<1> QED BY <1>1, <1>2, <1>3, PTL DEF Spec
==============================================================================

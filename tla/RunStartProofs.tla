--------------------------- MODULE RunStartProofs ---------------------------
(***************************************************************************)
(* run start for any number of calls, operations, runs, crashes and failed *)
(* writes.  The invariant has three parts: the types, who may fill and     *)
(* remove the reservation of an operation (StartInv), and what everybody   *)
(* who read or is about to write a state knows of its run (KnowledgeHolds).*)
(***************************************************************************)
EXTENDS RunStart, TLAPS

\* The calls are records of a place, a run and the states they know, whatever these are.
IsCall(c) == c \in [pc : {c.pc}, id : {c.id}, mem : {c.mem}, seen : {c.seen}]

Shape ==
  /\ attempt = [p \in Attempts |-> attempt[p]]
  /\ \A p \in Attempts : IsCall(attempt[p])

\* The places of a call that has the run of its operation.
Settled == {"inspect", "check", "create", "announce", "clean", "block", "token", "answer", "done", "lost"} \cup Inputs

\* Why one operation has one run: only the call that created the reservation fills or
\* removes it, and whoever has a run has it from the filled reservation, while that is there.
\* It is always there when no calls overlap: then nobody reads it before it is known to stay.
MyRecord(p) == [id |-> attempt[p].id, task |-> Task[p]]

FillsAlone(p) ==
  attempt[p].pc \in {"fill", "sync"} =>
    /\ Op[p] \in Ops /\ attempt[p].id \in Ids
    /\ reserved[Op[p]] = IF attempt[p].pc = "fill" THEN Unfilled ELSE MyRecord(p)
    /\ \A q \in Attempts : Op[q] = Op[p] /\ attempt[q].pc \in {"fill", "sync"} => q = p
    /\ \A q \in Attempts : Op[q] = Op[p] /\ attempt[q].pc \in Settled => Overlap

HasReservedRun(p) ==
  attempt[p].pc \in Settled =>
    /\ attempt[p].id \in Ids
    /\ Op[p] \in Ops /\ (Overlap => <<Op[p], attempt[p].id>> \notin withdrawn) => reserved[Op[p]] = MyRecord(p)

OneAtATime == ~Overlap => \A p, q \in Attempts : Running(p) /\ Running(q) => p = q

ReservationHolds ==
  /\ DOMAIN reserved = Ops
  /\ \A o \in Ops : reserved[o] \in {Free, Unfilled} \cup [id : Ids, task : Tasks]
  /\ \A p \in Attempts : /\ attempt[p].pc = "mint" => Op[p] \notin Ops
                         /\ attempt[p].pc \in {"reserve", "read"} => Op[p] \in Ops
                         /\ FillsAlone(p)
                         /\ HasReservedRun(p)

StartInv == Shape /\ ReservationHolds /\ OneAtATime

\* At the start no operation has a reservation and no call a run.
LEMMA InitEstablishesStartInv == Init => StartInv
<1> SUFFICES ASSUME Init PROVE StartInv
  OBVIOUS
<1>1. Shape
  BY DEF Init, Shape, IsCall
<1>2. \A p \in Attempts : attempt[p].pc = "off"
  BY DEF Init
<1>3. ReservationHolds
  BY <1>2 DEF Init, ReservationHolds, FillsAlone, HasReservedRun, Settled, Inputs
<1>4. OneAtATime
  BY <1>2 DEF OneAtATime, Running
<1> QED BY <1>1, <1>3, <1>4 DEF StartInv

\* The step takes p to a place and a run, and no other call anywhere.
Moves(p, pc, id) ==
  /\ Shape'
  /\ attempt'[p].pc = pc /\ attempt'[p].id = id
  /\ \A q \in Attempts : q # p => attempt'[q] = attempt[q]

\* A call that moves leaves the others where they are.
LEMMA NewCall ==
  ASSUME Shape, NEW p \in Attempts, NEW c, IsCall(c), attempt' = [attempt EXCEPT ![p] = c]
  PROVE  Moves(p, c.pc, c.id)
<1>1. attempt' = [q \in Attempts |-> IF q = p THEN c ELSE attempt[q]]
  BY DEF Shape
<1>2. Shape'
  BY <1>1 DEF Shape
<1> QED BY <1>1, <1>2 DEF Moves

\* A step that only goes on keeps the run of its call.
LEMMA NewPlace ==
  ASSUME Shape, NEW p \in Attempts, NEW pc, GoTo(p, pc)
  PROVE  Moves(p, pc, attempt[p].id)
<1> DEFINE c == [attempt[p] EXCEPT !.pc = pc]
<1>1. IsCall(c) /\ c.pc = pc /\ c.id = attempt[p].id
  <2>1. IsCall(attempt[p])
    BY DEF Shape
  <2> QED BY <2>1 DEF IsCall
<1>2. attempt' = [attempt EXCEPT ![p] = c]
  BY DEF GoTo
<1> HIDE DEF c
<1>3. Moves(p, c.pc, c.id)
  BY <1>1, <1>2, NewCall
<1> QED BY <1>1, <1>3

\* A step may give its call another run.
LEMMA NewRun ==
  ASSUME Shape, NEW p \in Attempts, NEW pc, NEW id, attempt' = [attempt EXCEPT ![p] = [@ EXCEPT !.pc = pc, !.id = id]]
  PROVE  Moves(p, pc, id)
<1> DEFINE c == [attempt[p] EXCEPT !.pc = pc, !.id = id]
<1>1. IsCall(c) /\ c.pc = pc /\ c.id = id
  <2>1. IsCall(attempt[p])
    BY DEF Shape
  <2> QED BY <2>1 DEF IsCall
<1>2. attempt' = [attempt EXCEPT ![p] = c]
  OBVIOUS
<1> HIDE DEF c
<1>3. Moves(p, c.pc, c.id)
  BY <1>1, <1>2, NewCall
<1> QED BY <1>1, <1>3

\* A step may change what its call remembers of the state.
LEMMA NewMemory ==
  ASSUME Shape, NEW p \in Attempts, NEW pc, NEW mem, NEW seen,
         attempt' = [attempt EXCEPT ![p] = [@ EXCEPT !.pc = pc, !.mem = mem, !.seen = seen]]
  PROVE  Moves(p, pc, attempt[p].id)
<1> DEFINE c == [attempt[p] EXCEPT !.pc = pc, !.mem = mem, !.seen = seen]
<1>1. IsCall(c) /\ c.pc = pc /\ c.id = attempt[p].id
  <2>1. IsCall(attempt[p])
    BY DEF Shape
  <2> QED BY <2>1 DEF IsCall
<1>2. attempt' = [attempt EXCEPT ![p] = c]
  OBVIOUS
<1> HIDE DEF c
<1>3. Moves(p, c.pc, c.id)
  BY <1>1, <1>2, NewCall
<1> QED BY <1>1, <1>3

\* No call runs beside another that should not, when the one that moves was running already.
LEMMA StaysOneAtATime ==
  ASSUME OneAtATime, NEW p \in Attempts, NEW pc, NEW id, Moves(p, pc, id), Running(p)
  PROVE  OneAtATime'
<1>1. \A q \in Attempts : Running(q)' => Running(q)
  BY DEF Moves, Running, Over
<1> QED BY <1>1 DEF OneAtATime

\* A call that keeps its run, or has none to begin with, and leaves the reservations alone.
LEMMA PlaceStep ==
  ASSUME StartInv, NEW p \in Attempts, NEW pc, Moves(p, pc, attempt[p].id), UNCHANGED <<reserved, withdrawn>>,
         OneAtATime', pc = "mint" => Op[p] \notin Ops, pc \in {"reserve", "read"} => Op[p] \in Ops,
         pc \notin {"fill", "sync"}, pc \in Settled => attempt[p].pc \in Settled
  PROVE  StartInv'
<1>1. \A q \in Attempts : FillsAlone(q)'
  BY DEF StartInv, ReservationHolds, FillsAlone, MyRecord, Moves
<1>2. \A q \in Attempts : HasReservedRun(q)'
  BY DEF StartInv, ReservationHolds, HasReservedRun, MyRecord, Moves
<1> QED BY <1>1, <1>2 DEF StartInv, ReservationHolds, Moves

\* A call that takes over the run of a reservation, or of none, when nobody else moves.
LEMMA RunStep ==
  ASSUME StartInv, NEW p \in Attempts, NEW pc \in {"create", "inspect"}, NEW id \in Ids, Moves(p, pc, id),
         UNCHANGED <<reserved, withdrawn>>, Running(p),
         Op[p] \in Ops => reserved[Op[p]] = [id |-> id, task |-> Task[p]],
         \A q \in Attempts : q # p /\ Op[q] = Op[p] /\ attempt[q].pc \in {"fill", "sync"} => Overlap
  PROVE  StartInv'
<1>1. OneAtATime'
  BY StaysOneAtATime DEF StartInv
<1>2. \A q \in Attempts : FillsAlone(q)'
  BY DEF StartInv, ReservationHolds, FillsAlone, MyRecord, Moves
<1>3. \A q \in Attempts : HasReservedRun(q)'
  BY DEF StartInv, ReservationHolds, HasReservedRun, MyRecord, Moves
<1> QED BY <1>1, <1>2, <1>3 DEF StartInv, ReservationHolds, Moves

\* A reservation with a record is not one without.
LEMMA RecordsDiffer ==
  /\ Free # Unfilled
  /\ \A i \in Ids, t \in Tasks : [id |-> i, task |-> t] \notin {Free, Unfilled}
<1>1. Free.id # Unfilled.id
  BY DEF Free, Unfilled
<1>2. ASSUME NEW i \in Ids, NEW t \in Tasks PROVE [id |-> i, task |-> t] \notin {Free, Unfilled}
  <2>1. [id |-> i, task |-> t].id \notin {Free.id, Unfilled.id}
    BY IdsAssumption DEF Free, Unfilled
  <2> QED BY <2>1
<1> QED BY <1>1, <1>2

\* Only the call that created a reservation fills it, or gives it up.
LEMMA ReservationStep ==
  ASSUME StartInv, NEW p \in Attempts, NEW pc, NEW id, Moves(p, pc, id), NEW r, Op[p] \in Ops, Running(p),
         reserved' = [reserved EXCEPT ![Op[p]] = r],
         withdrawn' = IF attempt[p].pc = "sync" THEN withdrawn \cup {<<Op[p], id>>} ELSE withdrawn,
         \/ /\ attempt[p].pc = "reserve" /\ reserved[Op[p]] = Free
            /\ pc = "fill" /\ r = Unfilled /\ id \in Ids
         \/ /\ attempt[p].pc = "fill"
            /\ pc = "sync" /\ id = attempt[p].id /\ r = [id |-> id, task |-> Task[p]]
         \/ /\ attempt[p].pc \in {"fill", "sync"} /\ id = attempt[p].id
            /\ pc = "failed" /\ r = Free
  PROVE  StartInv'
<1>a. FillsAlone(p)
  BY DEF StartInv, ReservationHolds
<1>1. \A q \in Attempts : q # p /\ Op[q] = Op[p] => attempt[q].pc \notin {"fill", "sync"}
  <2> SUFFICES ASSUME NEW q \in Attempts, q # p, Op[q] = Op[p], attempt[q].pc \in {"fill", "sync"} PROVE FALSE
    OBVIOUS
  <2>1. FillsAlone(q) /\ Task[q] \in Tasks
    BY DEF StartInv, ReservationHolds, Tasks
  <2>2. reserved[Op[p]] # Free
    BY <2>1, RecordsDiffer DEF FillsAlone, MyRecord
  <2> QED BY <1>a, <2>1, <2>2 DEF FillsAlone
<1>2. ASSUME NEW q \in Attempts, q # p, Op[q] = Op[p], attempt[q].pc \in Settled
      PROVE  Overlap /\ (attempt[p].pc # "sync" => <<Op[q], attempt[q].id>> \in withdrawn)
                     /\ (attempt[p].pc = "sync" => attempt[q].id = id \/ <<Op[q], attempt[q].id>> \in withdrawn)
  <2>1. /\ attempt[q].id \in Ids /\ Task[q] \in Tasks
        /\ (Overlap => <<Op[q], attempt[q].id>> \notin withdrawn) => reserved[Op[p]] = MyRecord(q)
    BY <1>2 DEF StartInv, ReservationHolds, HasReservedRun, Tasks
  <2>2. CASE attempt[p].pc = "sync"
    <3>1. Overlap /\ reserved[Op[p]] = MyRecord(p) /\ id = attempt[p].id
      BY <1>a, <1>2, <2>2 DEF FillsAlone
    <3>2. MyRecord(q) = MyRecord(p) => attempt[q].id = attempt[p].id
      <4>1. MyRecord(q).id = attempt[q].id /\ MyRecord(p).id = attempt[p].id
        BY DEF MyRecord
      <4> QED BY <4>1
    <3> QED BY <2>1, <2>2, <3>1, <3>2
  <2>3. CASE attempt[p].pc # "sync"
    <3>1. reserved[Op[p]] \in {Free, Unfilled}
      BY <1>a, <2>3 DEF FillsAlone
    <3>2. reserved[Op[p]] # MyRecord(q)
      BY <2>1, <3>1, RecordsDiffer DEF MyRecord
    <3> QED BY <2>1, <2>3, <3>2
  <2> QED BY <2>2, <2>3
<1>3. /\ reserved'[Op[p]] = r
      /\ \A o \in Ops : o # Op[p] => reserved'[o] = reserved[o]
      /\ DOMAIN reserved' = Ops
  BY DEF StartInv, ReservationHolds
<1>4. r \in {Free, Unfilled} \cup [id : Ids, task : Tasks]
  <2>1. Task[p] \in Tasks
    BY DEF Tasks
  <2>2. CASE attempt[p].pc = "fill" /\ id = attempt[p].id /\ r = [id |-> id, task |-> Task[p]]
    <3>1. id \in Ids
      BY <1>a, <2>2 DEF FillsAlone
    <3> QED BY <2>1, <2>2, <3>1
  <2> QED BY <2>2
<1>5. \A o \in Ops : reserved'[o] \in {Free, Unfilled} \cup [id : Ids, task : Tasks]
  BY <1>3, <1>4 DEF StartInv, ReservationHolds
<1>6. \A q \in Attempts : FillsAlone(q)'
  <2>1. FillsAlone(p)'
    <3> SUFFICES ASSUME attempt'[p].pc \in {"fill", "sync"} PROVE FillsAlone(p)'
      BY DEF FillsAlone
    <3>1. /\ id \in Ids /\ attempt'[p].id = id
          /\ r = IF attempt'[p].pc = "fill" THEN Unfilled ELSE [id |-> id, task |-> Task[p]]
      BY <1>a DEF Moves, FillsAlone
    <3>2. \A q \in Attempts : Op[q] = Op[p] /\ attempt'[q].pc \in {"fill", "sync"} => q = p
      BY <1>1 DEF Moves
    <3>3. \A q \in Attempts : Op[q] = Op[p] /\ attempt'[q].pc \in Settled => Overlap
      BY <1>2 DEF Moves, Settled, Inputs
    <3> QED BY <1>3, <3>1, <3>2, <3>3 DEF FillsAlone, MyRecord
  <2>2. ASSUME NEW q \in Attempts, q # p PROVE FillsAlone(q)'
    <3> SUFFICES ASSUME attempt[q].pc \in {"fill", "sync"} PROVE FillsAlone(q)'
      BY <2>2 DEF FillsAlone, Moves
    <3>1. FillsAlone(q) /\ attempt'[q] = attempt[q] /\ Op[q] # Op[p]
      BY <1>1, <2>2 DEF StartInv, ReservationHolds, Moves
    <3> QED BY <1>3, <3>1 DEF FillsAlone, MyRecord, Moves
  <2> QED BY <2>1, <2>2
<1>7. \A q \in Attempts : HasReservedRun(q)'
  <2>1. HasReservedRun(p)'
    BY DEF HasReservedRun, Moves, Settled, Inputs
  <2>2. ASSUME NEW q \in Attempts, q # p PROVE HasReservedRun(q)'
    <3> SUFFICES ASSUME attempt[q].pc \in Settled PROVE HasReservedRun(q)'
      BY <2>2 DEF HasReservedRun, Moves
    <3>1. HasReservedRun(q) /\ attempt'[q] = attempt[q] /\ withdrawn \subseteq withdrawn'
      BY <2>2 DEF StartInv, ReservationHolds, Moves
    <3>2. CASE Op[q] = Op[p]
      <4>1. Overlap /\ <<Op[q], attempt[q].id>> \in withdrawn'
        BY <1>2, <2>2, <3>1, <3>2
      <4> QED BY <3>1, <4>1 DEF HasReservedRun
    <3>3. CASE Op[q] # Op[p]
      BY <1>3, <3>1, <3>3 DEF HasReservedRun, MyRecord
    <3> QED BY <3>2, <3>3
  <2> QED BY <2>1, <2>2
<1>8. OneAtATime'
  BY StaysOneAtATime DEF StartInv
<1> QED BY <1>3, <1>5, <1>6, <1>7, <1>8 DEF StartInv, ReservationHolds, Moves

\* A step may change a part of that.
LEMMA EditedCall ==
  ASSUME Shape, NEW p \in Attempts, NEW pc, NEW edit, NEW c,
         attempt' = [attempt EXCEPT ![p] = c],
         \/ c = [attempt[p] EXCEPT !.pc = pc, !.mem.status = edit]
         \/ c = [attempt[p] EXCEPT !.pc = pc, !.seen = edit]
  PROVE  Moves(p, pc, attempt[p].id)
<1>1. IsCall(c) /\ c.pc = pc /\ c.id = attempt[p].id
  <2>1. IsCall(attempt[p])
    BY DEF Shape
  <2> QED BY <2>1 DEF IsCall
<1>2. Moves(p, c.pc, c.id)
  BY <1>1, NewCall
<1> QED BY <1>1, <1>2

\* The steps of a call that has created its run keep it.
LEMMA KeptRunSteps ==
  ASSUME Shape, NEW p \in Attempts, CleanTree(p) \/ Block(p) \/ Token(p) \/ Answer(p)
  PROVE  \E pc \in {"block", "token", "answer", "done"} : Moves(p, pc, attempt[p].id)
<1>1. CASE Token(p) \/ Answer(p)
  BY <1>1, NewPlace DEF Token, Answer
<1>2. CASE Block(p)
  <2> DEFINE c == [attempt[p] EXCEPT !.pc = "token", !.seen = attempt[p].mem]
  <2>1. attempt' = [attempt EXCEPT ![p] = c]
    BY <1>2 DEF Block
  <2>2. c = [attempt[p] EXCEPT !.pc = "token", !.seen = attempt[p].mem]
    OBVIOUS
  <2> HIDE DEF c
  <2>3. Moves(p, "token", attempt[p].id)
    BY <2>1, <2>2, EditedCall
  <2> QED BY <2>3
<1>3. CASE CleanTree(p)
  <2> DEFINE status == IF runs[attempt[p].id].state.status = "canceled" THEN "canceled" ELSE "blocked"
             c == [attempt[p] EXCEPT !.pc = "block", !.mem.status = status]
  <2>1. \/ attempt' = [attempt EXCEPT ![p] = c]
        \/ GoTo(p, "token")
    BY <1>3 DEF CleanTree, GoTo
  <2>2. c = [attempt[p] EXCEPT !.pc = "block", !.mem.status = status]
    OBVIOUS
  <2> HIDE DEF c
  <2>3. CASE attempt' = [attempt EXCEPT ![p] = c]
    <3>1. Moves(p, "block", attempt[p].id)
      BY <2>2, <2>3, EditedCall
    <3> QED BY <3>1
  <2>4. CASE GoTo(p, "token")
    BY <2>4, NewPlace
  <2> QED BY <2>1, <2>3, <2>4
<1> QED BY <1>1, <1>2, <1>3

\* Every step keeps the invariant.
LEMMA StartInvStep == StartInv /\ [Next]_vars => StartInv'
<1> SUFFICES ASSUME StartInv, [Next]_vars PROVE StartInv'
  OBVIOUS
<1> Shape /\ OneAtATime
  BY DEF StartInv
<1>a. ASSUME NEW p \in Attempts, NEW pc, Moves(p, pc, attempt[p].id), Running(p), UNCHANGED <<reserved, withdrawn>>,
             pc \notin {"mint", "reserve", "fill", "sync"}, pc = "read" => Op[p] \in Ops,
             pc \in Settled => attempt[p].pc \in Settled
      PROVE  StartInv'
  <2>1. OneAtATime'
    BY <1>a, StaysOneAtATime
  <2> QED BY <1>a, <2>1, PlaceStep
<1>1. ASSUME NEW p \in Attempts, Call(p) PROVE StartInv'
  <2>1. CASE Begin(p)
    <3> DEFINE pc == IF Op[p] = "" THEN "mint" ELSE "reserve"
    <3>1. Moves(p, pc, attempt[p].id)
      BY <2>1, NewPlace DEF Begin
    <3>2. Op[p] \in Ops <=> Op[p] # ""
      BY DEF Ops
    <3>3. OneAtATime'
      <4>1. ~Overlap => \A q \in Attempts : Running(q)' => q = p
        BY <2>1, <3>1 DEF Begin, Moves, Running, Over
      <4> QED BY <4>1 DEF OneAtATime
    <3>4. /\ pc \in {"mint", "reserve"}
          /\ pc = "mint" => Op[p] \notin Ops
          /\ pc = "reserve" => Op[p] \in Ops
      BY <3>2
    <3>5. UNCHANGED <<reserved, withdrawn>>
      BY <2>1 DEF Begin, others
    <3> HIDE DEF pc
    <3> QED BY <3>1, <3>3, <3>4, <3>5, PlaceStep DEF Settled, Inputs
  <2>2. CASE Mint(p)
    <3>1. PICK i \in Ids : attempt' = [attempt EXCEPT ![p] = [@ EXCEPT !.pc = "create", !.id = i]]
      BY <2>2 DEF Mint
    <3>2. Moves(p, "create", i) /\ Op[p] \notin Ops /\ UNCHANGED <<reserved, withdrawn>> /\ Running(p)
      BY <2>2, <3>1, NewRun DEF Mint, others, Running, Over, StartInv, ReservationHolds
    <3>3. \A q \in Attempts : attempt[q].pc \in {"fill", "sync"} => Op[q] # Op[p]
      BY <3>2 DEF StartInv, ReservationHolds, FillsAlone
    <3> QED BY <3>2, <3>3, RunStep
  <2>3. CASE Reserve(p)
    <3>1. PICK i \in Ids : attempt' = [attempt EXCEPT ![p] = [@ EXCEPT !.pc = "fill", !.id = i]]
      BY <2>3 DEF Reserve
    <3>2. Moves(p, "fill", i) /\ Op[p] \in Ops /\ Running(p) /\ attempt[p].pc = "reserve" /\ UNCHANGED withdrawn
      BY <2>3, <3>1, NewRun DEF Reserve, others, Running, Over, StartInv, ReservationHolds
    <3>3. attempt[p].pc # "sync"
      BY <3>2
    <3> QED BY <2>3, <3>2, <3>3, ReservationStep DEF Reserve
  <2>4. CASE Fill(p)
    <3>1. Moves(p, "sync", attempt[p].id) /\ Op[p] \in Ops /\ Running(p) /\ attempt[p].pc = "fill" /\ UNCHANGED withdrawn
      BY <2>4, NewPlace DEF Fill, others, Running, Over, StartInv, ReservationHolds, FillsAlone
    <3>2. attempt[p].pc # "sync"
      BY <3>1
    <3> QED BY <2>4, <3>1, <3>2, ReservationStep DEF Fill
  <2>5. CASE Sync(p)
    <3>1. Moves(p, "create", attempt[p].id) /\ UNCHANGED <<reserved, withdrawn>> /\ Running(p)
      BY <2>5, NewPlace DEF Sync, others, Running, Over
    <3>2. /\ attempt[p].id \in Ids /\ reserved[Op[p]] = [id |-> attempt[p].id, task |-> Task[p]]
          /\ \A q \in Attempts : Op[q] = Op[p] /\ attempt[q].pc \in {"fill", "sync"} => q = p
      BY <2>5 DEF Sync, StartInv, ReservationHolds, FillsAlone, MyRecord
    <3> QED BY <3>1, <3>2, RunStep
  <2>6. CASE Taken(p)
    <3>1. Moves(p, "read", attempt[p].id)
      BY <2>6, NewPlace DEF Taken
    <3>2. Op[p] \in Ops /\ UNCHANGED <<reserved, withdrawn>> /\ Running(p)
      BY <2>6 DEF Taken, others, Running, Over, StartInv, ReservationHolds
    <3> QED BY <1>a, <3>1, <3>2 DEF Settled, Inputs
  <2>7. CASE Reuse(p)
    <3> DEFINE r == reserved[Op[p]]
    <3>1. /\ Op[p] \in Ops /\ r \in {Free, Unfilled} \cup [id : Ids, task : Tasks]
          /\ UNCHANGED <<reserved, withdrawn>> /\ Running(p)
      BY <2>7 DEF Reuse, others, Running, Over, StartInv, ReservationHolds
    <3>2. CASE r \in {Free, Unfilled} \/ r.task # Task[p]
      <4>1. Moves(p, "refused", attempt[p].id)
        BY <2>7, <3>2, NewPlace DEF Reuse
      <4> QED BY <1>a, <3>1, <4>1 DEF Settled, Inputs
    <3>3. CASE ~(r \in {Free, Unfilled} \/ r.task # Task[p])
      <4>1. attempt' = [attempt EXCEPT ![p] = [@ EXCEPT !.pc = "inspect", !.id = r.id]]
        BY <2>7, <3>3 DEF Reuse
      <4>2. Moves(p, "inspect", r.id)
        BY <4>1, NewRun
      <4>3. r.id \in Ids /\ r = [id |-> r.id, task |-> Task[p]]
        BY <3>1, <3>3
      <4>4. \A q \in Attempts : q # p /\ Op[q] = Op[p] /\ attempt[q].pc \in {"fill", "sync"} => Overlap
        BY <3>1 DEF OneAtATime, Running, Over
      <4> QED BY <3>1, <4>2, <4>3, <4>4, RunStep
    <3> QED BY <3>2, <3>3
  <2>8. CASE Inspect(p)
    <3> DEFINE st == runs[attempt[p].id].state
               pc == IF st = NoState THEN "create" ELSE "check"
    <3>1. Moves(p, pc, attempt[p].id)
      BY <2>8, NewMemory DEF Inspect
    <3> QED BY <1>a, <2>8, <3>1 DEF Inspect, others, Running, Over, Settled
  <2>9. CASE Create(p)
    <3>1. Moves(p, "announce", attempt[p].id)
      BY <2>9, NewMemory DEF Create
    <3> QED BY <1>a, <2>9, <3>1 DEF Create, others, Running, Over, Settled, Inputs
  <2>10. CASE Check(p)
    <3> DEFINE pc == IF runs[attempt[p].id].inputs = Inputs THEN "token" ELSE "create"
    <3>1. Moves(p, pc, attempt[p].id)
      BY <2>10, NewPlace DEF Check
    <3> QED BY <1>a, <2>10, <3>1 DEF Check, others, Running, Over, Settled
  <2>11. CASE Announce(p)
    <3>1. Moves(p, "workspace", attempt[p].id)
      BY <2>11, NewPlace DEF Announce
    <3> QED BY <1>a, <2>11, <3>1 DEF Announce, others, Running, Over, Settled, Inputs
  <2>12. CASE SaveInput(p)
    <3>1. Moves(p, After[attempt[p].pc], attempt[p].id)
      BY <2>12, NewPlace DEF SaveInput
    <3>2. After[attempt[p].pc] \in {"pack", "config", "clean"}
      BY <2>12 DEF SaveInput, Inputs, After
    <3> QED BY <1>a, <2>12, <3>1, <3>2 DEF SaveInput, others, Running, Over, Settled, Inputs
  <2>13. CASE CleanTree(p) \/ Block(p) \/ Token(p) \/ Answer(p)
    <3>1. PICK pc \in {"block", "token", "answer", "done"} : Moves(p, pc, attempt[p].id)
      BY <2>13, KeptRunSteps
    <3>2. UNCHANGED <<reserved, withdrawn>> /\ Running(p) /\ attempt[p].pc \in Settled
      BY <2>13 DEF CleanTree, Block, Token, Answer, others, Running, Over, Settled, Inputs
    <3> QED BY <1>a, <3>1, <3>2
  <2> QED
    BY <1>1, <2>1, <2>2, <2>3, <2>4, <2>5, <2>6, <2>7, <2>8, <2>9, <2>10, <2>11, <2>12, <2>13 DEF Call
<1>2. ASSUME NEW p \in Attempts, FillFails(p) PROVE StartInv'
  <2>1. Moves(p, "failed", attempt[p].id) /\ Op[p] \in Ops /\ Running(p)
    BY <1>2, NewPlace DEF FillFails, Running, Over, StartInv, ReservationHolds, FillsAlone
  <2> QED BY <1>2, <2>1, ReservationStep DEF FillFails
<1>3. ASSUME NEW p \in Attempts, WriteFails(p) PROVE StartInv'
  <2> DEFINE pc == IF attempt[p].pc = "block" THEN "token" ELSE "failed"
  <2>1. Moves(p, pc, attempt[p].id)
    BY <1>3, NewPlace DEF WriteFails
  <2> QED BY <1>a, <1>3, <2>1 DEF WriteFails, Running, Over, Settled, Inputs
<1>4. ASSUME NEW p \in Attempts, Crash(p) PROVE StartInv'
  <2> DEFINE pc == IF attempt[p].pc = "answer" THEN "lost" ELSE "failed"
  <2>1. Moves(p, pc, attempt[p].id)
    BY <1>4, NewPlace DEF Crash
  <2> QED BY <1>a, <1>4, <2>1 DEF Crash, Settled, Inputs
<1>5. ASSUME UNCHANGED <<reserved, attempt, withdrawn>> PROVE StartInv'
  BY <1>5 DEF StartInv, Shape, ReservationHolds, FillsAlone, HasReservedRun, MyRecord, OneAtATime, Running, Over
<1>6. CASE Command \/ Progress \/ \E c \in Cancellers : LoadState(c) \/ CancelState(c)
  BY <1>5, <1>6 DEF Command, Progress, LoadState, CancelState
<1> QED
  BY <1>1, <1>2, <1>3, <1>4, <1>5, <1>6 DEF Next, vars

\* Calls that reported a run have it from the filled reservation of their operation.
LEMMA ReservedRunIsOne ==
  ASSUME StartInv, NEW p \in Attempts, NEW q \in Attempts, Reported(p), Reported(q), Op[p] = Op[q], Op[p] # "",
         Overlap => <<Op[p], attempt[p].id>> \notin withdrawn /\ <<Op[q], attempt[q].id>> \notin withdrawn
  PROVE  SameRun(p, q)
<1>1. Op[p] \in Ops /\ "done" \in Settled
  BY DEF Ops, Settled
<1>2. reserved[Op[p]] = MyRecord(p) /\ reserved[Op[q]] = MyRecord(q)
  BY <1>1 DEF StartInv, ReservationHolds, HasReservedRun, Reported
<1>3. [id |-> attempt[p].id, task |-> Task[p]] = [id |-> attempt[q].id, task |-> Task[q]]
  BY <1>2 DEF MyRecord
<1>4. \A a, b, c, d : [id |-> a, task |-> b] = [id |-> c, task |-> d] => a = c /\ b = d
  OBVIOUS
<1>5. attempt[p].id = attempt[q].id /\ Task[p] = Task[q]
  BY <1>3, <1>4, Zenon
<1> QED BY <1>5 DEF SameRun

\* The values of one operation and of one run that the typing proof speaks of.
LEMMA Typing ==
  ASSUME TypeOK
  PROVE  /\ \A p \in Attempts : /\ attempt[p] \in [pc : Places, id : minted \cup {""}, mem : States, seen : States]
                                /\ Initial(p) \in States
         /\ \A i : i \in Ids => runs[i] \in [state : States, log : Seq({"run_created"}), inputs : SUBSET Inputs]
         /\ NoState \in States
<1>1. ASSUME NEW p \in Attempts PROVE Initial(p) \in States
  BY DEF Initial, States, Tasks
<1>2. NoState \in States
  BY DEF NoState, States
<1> QED BY <1>1, <1>2 DEF TypeOK, AttemptType, RunType

\* A call that goes to another place is still one.
LEMMA TypedCall ==
  ASSUME AttemptType, NEW p \in Attempts, NEW c \in [pc : Places, id : minted' \cup {""}, mem : States, seen : States],
         minted \subseteq minted', attempt' = [attempt EXCEPT ![p] = c]
  PROVE  AttemptType'
  BY DEF AttemptType

\* In the beginning everything has its type.
LEMMA InitTyped == Init => TypeOK
<1> SUFFICES ASSUME Init PROVE TypeOK
  OBVIOUS
<1>1. NoState \in States
  BY DEF NoState, States
<1>2. ReservationType
  BY DEF Init, ReservationType, Free
<1>3. RunType
  <2>1. <<>> \in Seq({"run_created"})
    OBVIOUS
  <2> QED BY <1>1, <2>1 DEF Init, RunType, NoRun
<1>4. AttemptType
  BY <1>1 DEF Init, AttemptType, Places
<1>5. OtherTypes
  BY <1>1 DEF Init, OtherTypes, Idle
<1> QED BY <1>2, <1>3, <1>4, <1>5 DEF Init, TypeOK

\* A step of a call that leaves the run files and the reservations alone keeps the types.
LEMMA LocalTyped ==
  ASSUME TypeOK, NEW p \in Attempts, NEW c \in [pc : Places, id : minted \cup {""}, mem : States, seen : States],
         attempt' = [attempt EXCEPT ![p] = c], UNCHANGED <<reserved, runs, minted, withdrawn, intact, driver, cancel>>,
         mishaps' \in Nat
  PROVE  TypeOK'
<1>1. AttemptType'
  BY TypedCall DEF TypeOK
<1> QED BY <1>1 DEF TypeOK, ReservationType, RunType, OtherTypes

\* So does one that replaces the files of a run.
LEMMA WriteTyped ==
  ASSUME TypeOK, NEW p \in Attempts, NEW c \in [pc : Places, id : minted \cup {""}, mem : States, seen : States],
         attempt' = [attempt EXCEPT ![p] = c], UNCHANGED <<reserved, minted>>, UNCHANGED others, intact' \in BOOLEAN,
         NEW i, NEW r, runs' = [runs EXCEPT ![i] = r],
         i \in Ids => r \in [state : States, log : Seq({"run_created"}), inputs : SUBSET Inputs]
  PROVE  TypeOK'
<1>1. AttemptType'
  BY TypedCall DEF TypeOK
<1>2. RunType'
  BY DEF TypeOK, RunType
<1> QED BY <1>1, <1>2 DEF TypeOK, ReservationType, OtherTypes, others

\* Every step keeps the types.
LEMMA TypeStep == TypeOK /\ StartInv /\ [Next]_vars => TypeOK'
<1> SUFFICES ASSUME TypeOK, StartInv, [Next]_vars PROVE TypeOK'
  OBVIOUS
<1> DEFINE CallType == [pc : Places, id : minted \cup {""}, mem : States, seen : States]
<1>a. \A p \in Attempts : attempt[p] \in CallType
  BY Typing
<1>b. ASSUME NEW p \in Attempts, NEW pc \in Places, GoTo(p, pc)
      PROVE  \E c \in CallType : attempt' = [attempt EXCEPT ![p] = c]
  <2>1. [attempt[p] EXCEPT !.pc = pc] \in CallType
    BY <1>a
  <2> QED BY <1>b, <2>1 DEF GoTo
<1>1. ASSUME NEW p \in Attempts,
             \/ Begin(p) \/ Sync(p) \/ Taken(p) \/ Inspect(p) \/ Check(p) \/ CleanTree(p) \/ Answer(p)
             \/ WriteFails(p) \/ Crash(p)
      PROVE  TypeOK'
  <2>1. UNCHANGED <<reserved, runs, minted, withdrawn, intact, driver, cancel>>
    BY <1>1 DEF Begin, Sync, Taken, Inspect, Check, CleanTree, Answer, WriteFails, Crash, others
  <2>2. mishaps' \in Nat
    <3>1. UNCHANGED mishaps \/ Mishap
      BY <1>1 DEF Begin, Sync, Taken, Inspect, Check, CleanTree, Answer, WriteFails, Crash, others
    <3> QED BY <3>1 DEF Mishap, TypeOK
  <2>3. \E c \in CallType : attempt' = [attempt EXCEPT ![p] = c]
    <3>1. CASE Begin(p)
      BY <1>b, <3>1 DEF Begin, Places
    <3>2. CASE Check(p)
      BY <1>b, <3>2 DEF Check, Places
    <3>3. CASE Answer(p)
      BY <1>b, <3>3 DEF Answer, Places
    <3>4. CASE WriteFails(p)
      BY <1>b, <3>4 DEF WriteFails, Places
    <3>5. CASE Crash(p)
      BY <1>b, <3>5 DEF Crash, Places
    <3>6. CASE Inspect(p)
      <4> DEFINE st == runs[attempt[p].id].state
                 c == [attempt[p] EXCEPT !.pc = IF st = NoState THEN "create" ELSE "check", !.mem = st, !.seen = st]
      <4>1. attempt[p].id \in Ids
        BY <3>6 DEF Inspect, StartInv, ReservationHolds, HasReservedRun, Settled
      <4>2. st \in States
        BY <4>1, Typing
      <4>3. c \in CallType
        BY <1>a, <4>2 DEF Places
      <4> QED BY <3>6, <4>3 DEF Inspect
    <3>7. CASE CleanTree(p)
      <4> DEFINE st == IF runs[attempt[p].id].state.status = "canceled" THEN "canceled" ELSE "blocked"
                 c == [attempt[p] EXCEPT !.pc = "block", !.mem.status = st]
      <4>1. attempt' = [attempt EXCEPT ![p] = c] \/ GoTo(p, "token")
        BY <3>7 DEF CleanTree, GoTo
      <4>2. [attempt[p].mem EXCEPT !.status = st] \in States
        BY <1>a, ZenonT(30) DEF States
      <4>3. c \in CallType
        BY <1>a, <4>2 DEF Places
      <4> QED BY <1>b, <4>1, <4>3 DEF Places
    <3>8. CASE Sync(p) \/ Taken(p)
      BY <1>b, <3>8 DEF Sync, Taken, Places
    <3> QED BY <1>1, <3>1, <3>2, <3>3, <3>4, <3>5, <3>6, <3>7, <3>8
  <2> QED BY <2>1, <2>2, <2>3, LocalTyped
<1>2. ASSUME NEW p \in Attempts, Mint(p) \/ Reserve(p) PROVE TypeOK'
  <2>1. PICK i \in Ids, pc \in {"create", "fill"} :
          /\ minted' = minted \cup {i}
          /\ attempt' = [attempt EXCEPT ![p] = [@ EXCEPT !.pc = pc, !.id = i]]
    BY <1>2 DEF Mint, Reserve, MintedFor
  <2> DEFINE c == [attempt[p] EXCEPT !.pc = pc, !.id = i]
  <2>2. c \in [pc : Places, id : minted' \cup {""}, mem : States, seen : States]
    BY <1>a, <2>1 DEF Places
  <2>3. AttemptType'
    BY <2>1, <2>2, TypedCall DEF TypeOK
  <2>4. ReservationType'
    <3>1. UNCHANGED reserved \/ reserved' = [reserved EXCEPT ![Op[p]] = Unfilled]
      BY <1>2 DEF Mint, Reserve
    <3>2. Unfilled \in [id : minted' \cup {"free", "unfilled"}, task : Tasks \cup {""}]
      BY DEF Unfilled
    <3>3. reserved \in [Ops -> [id : minted' \cup {"free", "unfilled"}, task : Tasks \cup {""}]]
      BY <2>1 DEF TypeOK, ReservationType
    <3> QED BY <3>1, <3>2, <3>3 DEF ReservationType
  <2> QED BY <1>2, <2>1, <2>3, <2>4 DEF TypeOK, RunType, OtherTypes, Mint, Reserve, others
<1>3. ASSUME NEW p \in Attempts, Fill(p) \/ FillFails(p) PROVE TypeOK'
  <2>1. /\ Op[p] \in Ops /\ attempt[p].id \in minted /\ Task[p] \in Tasks
        /\ \E r \in {Free, [id |-> attempt[p].id, task |-> Task[p]]} : reserved' = [reserved EXCEPT ![Op[p]] = r]
    BY <1>3, <1>a, IdsAssumption DEF Fill, FillFails, StartInv, ReservationHolds, FillsAlone, Tasks
  <2>2. ReservationType'
    <3>1. PICK r \in {Free, [id |-> attempt[p].id, task |-> Task[p]]} : reserved' = [reserved EXCEPT ![Op[p]] = r]
      BY <2>1
    <3>2. r \in [id : minted \cup {"free", "unfilled"}, task : Tasks \cup {""}]
      <4>1. Free \in [id : minted \cup {"free", "unfilled"}, task : Tasks \cup {""}]
        BY DEF Free
      <4>2. [id |-> attempt[p].id, task |-> Task[p]] \in [id : minted \cup {"free", "unfilled"}, task : Tasks \cup {""}]
        BY <2>1
      <4> QED BY <3>1, <4>1, <4>2
    <3>3. UNCHANGED minted
      BY <1>3 DEF Fill, FillFails
    <3> QED BY <3>1, <3>2, <3>3 DEF TypeOK, ReservationType
  <2>3. AttemptType'
    <3>1. \E c \in CallType : attempt' = [attempt EXCEPT ![p] = c]
      BY <1>3, <1>b DEF Fill, FillFails, Places
    <3> QED BY <1>3, <3>1, TypedCall DEF TypeOK, Fill, FillFails
  <2>4. UNCHANGED <<runs, minted, intact, driver, cancel>> /\ (UNCHANGED mishaps \/ Mishap)
    BY <1>3 DEF Fill, FillFails, others
  <2>5. mishaps' \in Nat
    BY <2>4 DEF Mishap, TypeOK
  <2>6. withdrawn' \subseteq Ops \X Ids
    <3>1. attempt[p].id \in Ids /\ withdrawn \subseteq Ops \X Ids
      BY <2>1 DEF TypeOK
    <3>2. withdrawn' \subseteq withdrawn \cup {<<Op[p], attempt[p].id>>}
      BY <1>3 DEF Fill, FillFails, others
    <3> QED BY <2>1, <3>1, <3>2
  <2> QED BY <2>2, <2>3, <2>4, <2>5, <2>6 DEF TypeOK, RunType, OtherTypes
<1>4. ASSUME NEW p \in Attempts, Reuse(p) PROVE TypeOK'
  <2> DEFINE r == reserved[Op[p]]
  <2>1. Op[p] \in Ops /\ r \in [id : minted \cup {"free", "unfilled"}, task : Tasks \cup {""}]
    BY <1>4 DEF Reuse, StartInv, ReservationHolds, TypeOK, ReservationType
  <2>2. CASE r \in {Free, Unfilled} \/ r.task # Task[p]
    <3>1. GoTo(p, "refused")
      BY <1>4, <2>2 DEF Reuse
    <3>2. \E c \in CallType : attempt' = [attempt EXCEPT ![p] = c]
      BY <1>b, <3>1 DEF Places
    <3> QED BY <1>4, <3>2, LocalTyped DEF Reuse, others, TypeOK
  <2>3. CASE ~(r \in {Free, Unfilled} \/ r.task # Task[p])
    <3> DEFINE c == [attempt[p] EXCEPT !.pc = "inspect", !.id = r.id]
    <3>1. r.id \in Ids
      BY <2>1, <2>3 DEF StartInv, ReservationHolds
    <3>2. r.id \in minted
      BY <2>1, <3>1, IdsAssumption
    <3>3. c \in CallType
      BY <1>a, <3>2 DEF Places
    <3>4. attempt' = [attempt EXCEPT ![p] = c]
      BY <1>4, <2>3 DEF Reuse
    <3> QED BY <1>4, <3>3, <3>4, LocalTyped DEF Reuse, others, TypeOK
  <2> QED BY <2>2, <2>3
<1>5. ASSUME NEW p \in Attempts, NEW st \in States, SaveState(p, st), UNCHANGED <<reserved, minted>>, UNCHANGED others,
             NEW c \in CallType, attempt' = [attempt EXCEPT ![p] = c]
      PROVE  TypeOK'
  <2> DEFINE i == attempt[p].id
             r == [runs[i] EXCEPT !.state = st]
  <2>1. runs' = [runs EXCEPT ![i] = r] /\ intact' \in BOOLEAN
    BY <1>5 DEF SaveState, TypeOK
  <2>2. i \in Ids => r \in [state : States, log : Seq({"run_created"}), inputs : SUBSET Inputs]
    BY Typing, ZenonT(30)
  <2> QED BY <1>5, <2>1, <2>2, WriteTyped
<1>6. ASSUME NEW p \in Attempts, Create(p) \/ Block(p) \/ Token(p) PROVE TypeOK'
  <2>1. CASE Create(p)
    <3>1. [attempt[p] EXCEPT !.pc = "announce", !.mem = Initial(p), !.seen = Initial(p)] \in CallType
      BY <1>a, Typing DEF Places
    <3> QED BY <1>5, <2>1, <3>1, Typing DEF Create
  <2>2. CASE Block(p)
    <3>1. [attempt[p] EXCEPT !.pc = "token", !.seen = attempt[p].mem] \in CallType
      BY <1>a DEF Places
    <3> QED BY <1>5, <1>a, <2>2, <3>1 DEF Block
  <2>3. CASE Token(p)
    <3>1. [attempt[p].mem EXCEPT !.hash = p] \in States
      BY <1>a, ZenonT(30) DEF States
    <3>2. \E c \in CallType : attempt' = [attempt EXCEPT ![p] = c]
      BY <1>b, <2>3 DEF Token, Places
    <3> QED BY <1>5, <2>3, <3>1, <3>2 DEF Token
  <2> QED BY <1>6, <2>1, <2>2, <2>3
<1>7. ASSUME NEW p \in Attempts, Announce(p) \/ SaveInput(p) PROVE TypeOK'
  <2> DEFINE i == attempt[p].id
  <2>1. PICK pc \in {"workspace", "pack", "config", "clean"} : GoTo(p, pc)
    BY <1>7 DEF Announce, SaveInput, Inputs, After
  <2>2. \E c \in CallType : attempt' = [attempt EXCEPT ![p] = c]
    BY <1>b, <2>1 DEF Places, Inputs
  <2>3. PICK r : /\ runs' = [runs EXCEPT ![i] = r]
                 /\ i \in Ids => r \in [state : States, log : Seq({"run_created"}), inputs : SUBSET Inputs]
    <3>1. CASE Announce(p)
      <4> DEFINE r == [runs[i] EXCEPT !.log = Append(@, "run_created")]
      <4>1. runs' = [runs EXCEPT ![i] = r]
        BY <3>1 DEF Announce
      <4>2. i \in Ids => r \in [state : States, log : Seq({"run_created"}), inputs : SUBSET Inputs]
        <5>1. \A log \in Seq({"run_created"}) : Append(log, "run_created") \in Seq({"run_created"})
          OBVIOUS
        <5>2. i \in Ids => runs[i] \in [state : States, log : Seq({"run_created"}), inputs : SUBSET Inputs]
          BY Typing
        <5> HIDE DEF i
        <5> QED BY <5>1, <5>2
      <4> QED BY <4>1, <4>2
    <3>2. CASE SaveInput(p)
      <4> DEFINE r == [runs[i] EXCEPT !.inputs = @ \cup {attempt[p].pc}]
      <4>1. runs' = [runs EXCEPT ![i] = r]
        BY <3>2 DEF SaveInput
      <4>2. i \in Ids => r \in [state : States, log : Seq({"run_created"}), inputs : SUBSET Inputs]
        BY <3>2, Typing DEF SaveInput
      <4> QED BY <4>1, <4>2
    <3> QED BY <1>7, <3>1, <3>2
  <2> QED BY <1>7, <2>2, <2>3, WriteTyped DEF Announce, SaveInput, TypeOK
<1>8. CASE Command
  <2>1. PICK p \in Attempts : /\ Reported(p)
                              /\ driver' = [pc |-> "save", id |-> attempt[p].id, seen |-> runs[attempt[p].id].state]
    BY <1>8 DEF Command
  <2>2. attempt[p].id \in Ids
    BY <2>1 DEF Reported, StartInv, ReservationHolds, HasReservedRun, Settled
  <2>3. driver' \in [pc : {"off", "save"}, id : Ids \cup {""}, seen : States]
    <3>1. runs[attempt[p].id].state \in States
      BY <2>2, Typing
    <3> QED BY <2>1, <2>2, <3>1
  <2> QED BY <1>8, <2>3 DEF Command, TypeOK, ReservationType, RunType, AttemptType, OtherTypes
<1>9. CASE Progress
  <2>1. [driver.seen EXCEPT !.work = @ + 1] \in States /\ NoState \in States
    <3>1. \A st \in States : [st EXCEPT !.work = @ + 1] \in States
      <4>1. \A st \in States, n \in Nat : [st EXCEPT !.work = n] \in States
        BY DEF States
      <4>2. \A st \in States : st.work \in Nat
        BY DEF States
      <4>3. \A n \in Nat : n + 1 \in Nat
        OBVIOUS
      <4> QED BY <4>1, <4>2, <4>3
    <3>2. driver.seen \in States
      BY DEF TypeOK, OtherTypes
    <3> QED BY <3>1, <3>2, Typing
  <2>2. RunType'
    BY <1>9, <2>1 DEF Progress, TypeOK, RunType
  <2>3. OtherTypes'
    BY <1>9, <2>1 DEF Progress, TypeOK, OtherTypes, Idle
  <2> QED BY <1>9, <2>2, <2>3 DEF Progress, TypeOK, ReservationType, AttemptType
<1>10. ASSUME NEW c \in Cancellers, LoadState(c) PROVE TypeOK'
  <2>1. PICK i \in Ids : cancel' = [cancel EXCEPT ![c] = [pc |-> "save", id |-> i, seen |-> runs[i].state]]
    BY <1>10 DEF LoadState
  <2>2. OtherTypes'
    BY <1>10, <2>1, Typing DEF LoadState, TypeOK, OtherTypes
  <2> QED BY <1>10, <2>2 DEF LoadState, TypeOK, ReservationType, RunType, AttemptType
<1>11. ASSUME NEW c \in Cancellers, CancelState(c) PROVE TypeOK'
  <2>1. [cancel[c].seen EXCEPT !.status = "canceled"] \in States
    BY ZenonT(30) DEF TypeOK, OtherTypes, States
  <2>2. RunType'
    BY <1>11, <2>1 DEF CancelState, TypeOK, RunType
  <2>3. OtherTypes'
    BY <1>11 DEF CancelState, TypeOK, OtherTypes
  <2> QED BY <1>11, <2>2, <2>3 DEF CancelState, TypeOK, ReservationType, AttemptType
<1>12. CASE UNCHANGED vars
  BY <1>12 DEF vars, TypeOK, ReservationType, RunType, AttemptType, OtherTypes
<1> QED
  BY <1>1, <1>2, <1>3, <1>4, <1>6, <1>7, <1>8, <1>9, <1>10, <1>11, <1>12 DEF Next, Call

\* The places of a call whose run has a state, is announced, and has a token from it.
Created == Settled \ {"inspect", "create"}
Announced == Created \ {"check", "announce"}
Answering == {"answer", "done", "lost"}

\* The inputs a call has saved, or seen, when it comes to a place.
Given(pc) ==
  {i \in Inputs : \/ i = "workspace" /\ pc \in {"pack", "config"}
                  \/ i = "pack" /\ pc = "config"
                  \/ pc \in {"clean", "block", "token"} \cup Answering}

\* What is true of every state of run i that anybody read or wrote: it has a token only if
\* the inputs are complete, and then from a call that was about to report i; only a token
\* gets work done.
Sealed(i, st) ==
  /\ st.status # "none"
  /\ st.work > 0 => st.hash # ""
  /\ st.hash # "" => /\ runs[i].inputs = Inputs
                     /\ st.hash \in Attempts
                     /\ attempt[st.hash].pc \in Answering /\ attempt[st.hash].id = i

Blank(st) == st.hash = "" /\ st.work = 0

\* A call that creates its run saw no token on it; one that issues a token took over what it saw.
Remembers(p) ==
  LET a == attempt[p] IN
  /\ a.pc \in {"off", "mint", "reserve", "read", "fill", "sync", "create", "announce", "clean", "block"} \cup Inputs =>
       Blank(a.seen)
  /\ a.pc \in {"announce", "clean", "block"} \cup Inputs => Blank(a.mem) /\ a.mem.status # "none"
  /\ a.pc = "check" => Sealed(a.id, a.seen) /\ a.mem = a.seen
  /\ a.pc = "token" => /\ Sealed(a.id, a.mem)
                       /\ a.mem.hash = a.seen.hash /\ a.mem.work = a.seen.work
                       /\ a.seen.hash # "" => a.mem = a.seen

\* What a call has done before it comes to its place is there.
Did(p) ==
  LET a == attempt[p] IN
  /\ a.pc \in Settled => a.id \in Ids
  /\ a.pc \in Created => RunExists(a.id)
  /\ a.pc \in Announced => Readable(a.id)
  /\ a.pc \in Settled => Given(a.pc) \subseteq runs[a.id].inputs

RunIsSealed(i) ==
  /\ RunExists(i) => Sealed(i, runs[i].state)
  /\ runs[i].inputs # {} => Readable(i)

WritersKnow ==
  /\ driver.pc = "save" => /\ driver.id \in Ids /\ RunExists(driver.id)
                           /\ Sealed(driver.id, driver.seen) /\ driver.seen.hash # ""
  /\ \A c \in Cancellers : cancel[c].pc = "save" =>
       cancel[c].id \in Ids /\ RunExists(cancel[c].id) /\ Sealed(cancel[c].id, cancel[c].seen)

\* Whoever has a token to report left one on its run, and nobody took it away.
KeyIsThere ==
  intact => \A p \in Attempts : attempt[p].pc \in Answering => runs[attempt[p].id].state.hash # ""

KnowledgeHolds ==
  /\ \A p \in Attempts : Remembers(p) /\ Did(p)
  /\ \A i \in Ids : RunIsSealed(i)
  /\ WritersKnow /\ KeyIsThere

\* What a step never takes away: a state, the log, an input, the answer of a call that has one.
Grows ==
  /\ \A i \in Ids : /\ RunExists(i) => RunExists(i)'
                    /\ Readable(i) => Readable(i)'
                    /\ runs[i].inputs \subseteq runs'[i].inputs /\ runs'[i].inputs \subseteq Inputs
  /\ \A p \in Attempts : attempt[p].pc \in Answering =>
       attempt'[p].pc \in Answering /\ attempt'[p].id = attempt[p].id

\* What is known of a state, after the step.
StaysSealed(i, st) ==
  /\ st.status # "none"
  /\ st.work > 0 => st.hash # ""
  /\ st.hash # "" => /\ runs'[i].inputs = Inputs
                     /\ st.hash \in Attempts
                     /\ attempt'[st.hash].pc \in Answering /\ attempt'[st.hash].id = i

\* What is known of a state stays true.
LEMMA SealedStays ==
  ASSUME Grows, NEW i \in Ids, NEW st, Sealed(i, st)
  PROVE  StaysSealed(i, st)
  BY DEF Grows, Sealed, StaysSealed

\* A state without a token and without work promises nothing.
LEMMA BlankIsSealed ==
  ASSUME NEW i, NEW st, Blank(st), st.status # "none"
  PROVE  Sealed(i, st) /\ StaysSealed(i, st)
<1>1. ~(0 > 0)
  OBVIOUS
<1>2. st.hash = "" /\ ~(st.work > 0)
  <2>1. st.work = 0 /\ st.hash = ""
    BY DEF Blank
  <2> QED BY <1>1, <2>1, Zenon
<1> QED BY <1>2 DEF Sealed, StaysSealed

\* A call that does not move knows what it knew.
LEMMA OthersKnow ==
  ASSUME Grows, KnowledgeHolds, NEW q \in Attempts, attempt'[q] = attempt[q]
  PROVE  Remembers(q)' /\ Did(q)'
<1>1. Remembers(q) /\ Did(q)
  BY DEF KnowledgeHolds
<1>2. Did(q)'
  BY <1>1 DEF Did, Grows, Settled, Created, Announced, Given
<1>3. Remembers(q)'
  <2>1. attempt[q].pc \in {"check", "token"} => attempt[q].id \in Ids
    BY <1>1 DEF Did, Settled
  <2>2. attempt[q].pc = "check" => Sealed(attempt[q].id, attempt[q].seen)'
    <3>1. attempt[q].pc = "check" => Sealed(attempt[q].id, attempt[q].seen)
      BY <1>1 DEF Remembers
    <3> QED BY <2>1, <3>1, SealedStays, ZenonT(30) DEF Sealed, StaysSealed
  <2>3. attempt[q].pc = "token" => Sealed(attempt[q].id, attempt[q].mem)'
    <3>1. attempt[q].pc = "token" => Sealed(attempt[q].id, attempt[q].mem)
      BY <1>1 DEF Remembers
    <3> QED BY <2>1, <3>1, SealedStays, ZenonT(30) DEF Sealed, StaysSealed
  <2> QED BY <1>1, <2>2, <2>3 DEF Remembers, Blank
<1> QED BY <1>2, <1>3

\* The driver and the cancels that do not move know what they knew.
LEMMA WritersStillKnow ==
  ASSUME Grows, KnowledgeHolds, UNCHANGED <<driver, cancel>>
  PROVE  WritersKnow'
<1>1. WritersKnow
  BY DEF KnowledgeHolds
<1>2. driver.pc = "save" => Sealed(driver.id, driver.seen)'
  BY <1>1, SealedStays DEF WritersKnow, Sealed, StaysSealed
<1>3. ASSUME NEW c \in Cancellers PROVE cancel[c].pc = "save" => Sealed(cancel[c].id, cancel[c].seen)'
  BY <1>1, SealedStays DEF WritersKnow, Sealed, StaysSealed
<1> QED BY <1>1, <1>2, <1>3 DEF WritersKnow, Grows

\* A step of a call that leaves the run files alone takes nothing away.
LEMMA LocalGrows ==
  ASSUME TypeOK, NEW p \in Attempts, NEW c, attempt' = [attempt EXCEPT ![p] = c], UNCHANGED runs,
         attempt[p].pc \in Answering => c.pc \in Answering /\ c.id = attempt[p].id
  PROVE  Grows /\ attempt'[p] = c /\ \A q \in Attempts : q # p => attempt'[q] = attempt[q]
<1>1. attempt'[p] = c /\ \A q \in Attempts : q # p => attempt'[q] = attempt[q]
  BY DEF TypeOK, AttemptType
<1>2. \A i \in Ids : runs[i].inputs \subseteq Inputs
  BY DEF TypeOK, RunType
<1> QED BY <1>1, <1>2 DEF Grows, RunExists, Readable

\* A step of a call that leaves the run files alone keeps what everybody knows.
LEMMA LocalKnows ==
  ASSUME TypeOK, KnowledgeHolds, NEW p \in Attempts, NEW c, attempt' = [attempt EXCEPT ![p] = c],
         UNCHANGED <<runs, driver, cancel, intact>>,
         attempt[p].pc \in Answering => c.pc \in Answering /\ c.id = attempt[p].id,
         c.pc \in Answering => attempt[p].pc \in Answering,
         Remembers(p)', Did(p)'
  PROVE  KnowledgeHolds'
<1>1. Grows /\ attempt'[p] = c /\ \A q \in Attempts : q # p => attempt'[q] = attempt[q]
  BY LocalGrows
<1>2. \A q \in Attempts : Remembers(q)' /\ Did(q)'
  BY <1>1, OthersKnow
<1>3. WritersKnow'
  BY <1>1, WritersStillKnow
<1>4. \A i \in Ids : RunIsSealed(i)'
  BY <1>1, SealedStays, ZenonT(30) DEF KnowledgeHolds, RunIsSealed, RunExists, Readable, Sealed, StaysSealed
<1>5. KeyIsThere'
  <2>1. KeyIsThere
    BY DEF KnowledgeHolds
  <2>2. ASSUME NEW q \in Attempts, attempt'[q].pc \in Answering
        PROVE  attempt[q].pc \in Answering /\ attempt'[q].id = attempt[q].id
    BY <1>1, <2>2 DEF Grows
  <2> QED BY <2>1, <2>2 DEF KeyIsThere
<1> QED BY <1>2, <1>3, <1>4, <1>5 DEF KnowledgeHolds

\* In the beginning nobody knows of a run.
LEMMA InitKnows == Init => KnowledgeHolds
<1> SUFFICES ASSUME Init PROVE KnowledgeHolds
  OBVIOUS
<1>1. \A p \in Attempts : attempt[p].pc = "off" /\ attempt[p].seen = NoState
  BY DEF Init
<1>2. \A p \in Attempts : Remembers(p) /\ Did(p)
  <2>1. Blank(NoState)
    BY DEF Blank, NoState
  <2> QED BY <1>1, <2>1 DEF Remembers, Did, Settled, Created, Announced, Inputs
<1>3. \A i \in Ids : RunIsSealed(i)
  BY DEF Init, RunIsSealed, RunExists, NoRun
<1>4. WritersKnow
  BY DEF Init, WritersKnow, Idle
<1>5. KeyIsThere
  BY <1>1 DEF KeyIsThere, Answering
<1> QED BY <1>2, <1>3, <1>4, <1>5 DEF KnowledgeHolds

\* The steps of a call before it has a run, and those that end it.
LEMMA EarlyKnows ==
  ASSUME TypeOK, KnowledgeHolds, NEW p \in Attempts, NEW c, attempt' = [attempt EXCEPT ![p] = c],
         UNCHANGED <<runs, driver, cancel, intact>>, attempt[p].pc \notin Answering,
         \/ /\ c.pc \in {"mint", "reserve", "read", "fill", "sync"}
            /\ attempt[p].pc \in {"off", "reserve", "fill"} /\ c.seen = attempt[p].seen
         \/ /\ c.pc = "create" /\ c.id \in Ids
            /\ attempt[p].pc \in {"mint", "sync"} /\ c.seen = attempt[p].seen
         \/ c.pc = "inspect" /\ c.id \in Ids
         \/ c.pc \in {"refused", "failed"}
  PROVE  KnowledgeHolds'
<1>1. attempt'[p] = c
  BY LocalGrows DEF Answering
<1>2. Remembers(p)'
  <2>1. Remembers(p)
    BY DEF KnowledgeHolds
  <2> QED BY <1>1, <2>1 DEF Remembers, Blank, Inputs
<1>3. Did(p)'
  BY <1>1 DEF Did, Settled, Created, Announced, Given, Inputs, Answering
<1> QED BY <1>2, <1>3, LocalKnows DEF Answering

\* completeRun reads a state, which is sealed as all are.
LEMMA InspectKnows ==
  ASSUME TypeOK, KnowledgeHolds, NEW p \in Attempts, Inspect(p)
  PROVE  KnowledgeHolds'
<1> DEFINE st == runs[attempt[p].id].state
           c == [attempt[p] EXCEPT !.pc = IF st = NoState THEN "create" ELSE "check", !.mem = st, !.seen = st]
<1>1. attempt' = [attempt EXCEPT ![p] = c] /\ UNCHANGED <<runs, driver, cancel, intact>> /\ attempt[p].pc = "inspect"
  BY DEF Inspect, others
<1>2. /\ c.pc = (IF st = NoState THEN "create" ELSE "check")
      /\ c.mem = st /\ c.seen = st /\ c.id = attempt[p].id
  BY Typing
<1>3. attempt[p].id \in Ids /\ (st # NoState => Sealed(attempt[p].id, st))
  <2>1. attempt[p].id \in Ids
    BY <1>1 DEF KnowledgeHolds, Did, Settled
  <2> QED BY <2>1 DEF KnowledgeHolds, RunIsSealed, RunExists
<1> HIDE DEF c
<1>4. Grows /\ attempt'[p] = c
  BY <1>1, <1>2, LocalGrows DEF Answering
<1>5. Remembers(p)'
  <2>1. st # NoState => StaysSealed(attempt[p].id, st)
    BY <1>3, <1>4, SealedStays
  <2>2. Blank(NoState)
    BY DEF Blank, NoState
  <2> HIDE DEF st
  <2>3. CASE st = NoState
    BY <1>2, <1>4, <2>2, <2>3 DEF Remembers, Blank, Inputs
  <2>4. CASE st # NoState
    BY <1>2, <1>4, <2>1, <2>4 DEF Remembers, Sealed, StaysSealed, Inputs
  <2> QED BY <2>3, <2>4
<1>6. Did(p)'
  BY <1>1, <1>2, <1>3, <1>4 DEF Did, Settled, Created, Announced, Given, Inputs, Answering, RunExists
<1> QED BY <1>1, <1>2, <1>5, <1>6, LocalKnows DEF Answering

\* completeRun finds the inputs missing only where no token was issued.
LEMMA CheckKnows ==
  ASSUME TypeOK, KnowledgeHolds, NEW p \in Attempts, Check(p)
  PROVE  KnowledgeHolds'
<1> DEFINE pc == IF runs[attempt[p].id].inputs = Inputs THEN "token" ELSE "create"
           c == [attempt[p] EXCEPT !.pc = pc]
<1>1. attempt' = [attempt EXCEPT ![p] = c] /\ UNCHANGED <<runs, driver, cancel, intact>> /\ attempt[p].pc = "check"
  BY DEF Check, GoTo, others
<1>2. c.pc = pc /\ c.mem = attempt[p].mem /\ c.seen = attempt[p].seen /\ c.id = attempt[p].id
  BY Typing
<1>3. attempt[p].id \in Ids /\ Sealed(attempt[p].id, attempt[p].seen) /\ attempt[p].mem = attempt[p].seen
      /\ RunExists(attempt[p].id) /\ RunIsSealed(attempt[p].id) /\ attempt[p].seen \in States
  <2>1. Remembers(p) /\ Did(p)
    BY DEF KnowledgeHolds
  <2> QED BY <1>1, <2>1, Typing DEF Remembers, Did, Settled, Created, KnowledgeHolds
<1> HIDE DEF c
<1>4. Grows /\ attempt'[p] = c
  BY <1>1, <1>2, LocalGrows DEF Answering
<1>5. Remembers(p)'
  <2>1. StaysSealed(attempt[p].id, attempt[p].seen)
    BY <1>3, <1>4, SealedStays
  <2>2. attempt[p].seen.work \in Nat
    BY <1>3 DEF States
  <2>3. pc = "create" => Blank(attempt[p].seen)
    <3>1. \A st : Sealed(attempt[p].id, st) /\ pc = "create" => st.hash = "" /\ ~(st.work > 0)
      BY DEF Sealed
    <3>2. \A n \in Nat : ~(n > 0) => n = 0
      OBVIOUS
    <3> QED BY <1>3, <2>2, <3>1, <3>2 DEF Blank
  <2>4. CASE pc = "create"
    BY <1>2, <1>4, <2>3, <2>4 DEF Remembers, Blank, Inputs
  <2>5. CASE pc # "create"
    BY <1>2, <1>3, <1>4, <2>1, <2>5 DEF Remembers, Sealed, StaysSealed, Inputs
  <2> QED BY <2>4, <2>5
<1>6. Did(p)'
  <2>1. pc = "token" => Readable(attempt[p].id)
    BY <1>3 DEF RunIsSealed, Inputs
  <2> QED BY <1>1, <1>2, <1>3, <1>4, <2>1 DEF Did, Settled, Created, Announced, Given, Inputs, Answering, RunExists, Readable
<1> QED BY <1>1, <1>2, <1>5, <1>6, LocalKnows DEF Answering

\* The clean tree check, with or without its block: the run is still without a token.
LEMMA CleanKnows ==
  ASSUME TypeOK, KnowledgeHolds, NEW p \in Attempts, NEW c, attempt' = [attempt EXCEPT ![p] = c],
         UNCHANGED <<runs, driver, cancel, intact>>,
         attempt[p].pc \in {"clean", "block"}, c.pc \in {"block", "token"},
         c.id = attempt[p].id, c.seen = attempt[p].seen, Blank(c.mem), c.mem.status # "none"
  PROVE  KnowledgeHolds'
<1>1. Remembers(p) /\ Did(p)
  BY DEF KnowledgeHolds
<1>2. Grows /\ attempt'[p] = c
  BY LocalGrows DEF Answering
<1>3. Remembers(p)'
  <2>1. Blank(attempt[p].seen)
    BY <1>1 DEF Remembers
  <2>2. StaysSealed(c.id, c.mem)
    BY BlankIsSealed
  <2>3. CASE c.pc = "block"
    BY <1>2, <2>1, <2>3 DEF Remembers, Blank, Inputs
  <2>4. CASE c.pc = "token"
    <3>1. c.mem.hash = c.seen.hash /\ c.mem.work = c.seen.work /\ c.seen.hash = ""
      BY <2>1 DEF Blank
    <3> QED BY <1>2, <2>2, <2>4, <3>1 DEF Remembers, Sealed, StaysSealed, Inputs
  <2> QED BY <2>3, <2>4
<1>4. Did(p)'
  BY <1>1, <1>2 DEF Did, Settled, Created, Announced, Given, Answering, RunExists, Readable
<1> QED BY <1>2, <1>3, <1>4, LocalKnows DEF Answering

\* The answer arrives, or is lost.
LEMMA AnswerKnows ==
  ASSUME TypeOK, KnowledgeHolds, NEW p \in Attempts, NEW c, attempt' = [attempt EXCEPT ![p] = c],
         UNCHANGED <<runs, driver, cancel, intact>>,
         attempt[p].pc = "answer", c.pc \in {"done", "lost"}, c.id = attempt[p].id
  PROVE  KnowledgeHolds'
<1>1. Remembers(p) /\ Did(p)
  BY DEF KnowledgeHolds
<1>2. Grows /\ attempt'[p] = c
  BY LocalGrows DEF Answering
<1>3. Remembers(p)'
  BY <1>2 DEF Remembers, Inputs
<1>4. Did(p)'
  BY <1>1, <1>2 DEF Did, Settled, Created, Announced, Given, Answering, RunExists, Readable
<1> QED BY <1>2, <1>3, <1>4, LocalKnows DEF Answering

\* The steps of a call that write no file of the run.
LEMMA LocalStepKnows ==
  ASSUME TypeOK, StartInv, KnowledgeHolds, NEW p \in Attempts,
         \/ Begin(p) \/ Mint(p) \/ Reserve(p) \/ Fill(p) \/ Sync(p) \/ Taken(p) \/ Reuse(p) \/ Inspect(p) \/ Check(p)
         \/ CleanTree(p) \/ Answer(p) \/ FillFails(p) \/ WriteFails(p) \/ Crash(p)
  PROVE  KnowledgeHolds'
<1> DEFINE To(pc) == [attempt[p] EXCEPT !.pc = pc]
<1>1. \A pc : /\ To(pc).pc = pc /\ To(pc).id = attempt[p].id
              /\ To(pc).mem = attempt[p].mem /\ To(pc).seen = attempt[p].seen
  BY Typing
<1>2. \A pc : GoTo(p, pc) => attempt' = [attempt EXCEPT ![p] = To(pc)]
  BY DEF GoTo
<1>3. UNCHANGED <<runs, driver, cancel, intact>>
  BY DEF Begin, Mint, Reserve, Fill, Sync, Taken, Reuse, Inspect, Check, CleanTree, Answer, FillFails, WriteFails, Crash,
         others
<1> HIDE DEF To
<1>4. CASE Begin(p)
  <2>1. PICK pc \in {"mint", "reserve"} : GoTo(p, pc)
    BY <1>4 DEF Begin
  <2>2. attempt[p].pc = "off"
    BY <1>4 DEF Begin
  <2> QED BY <1>1, <1>2, <1>3, <2>1, <2>2, EarlyKnows DEF Answering
<1>5. CASE Mint(p) \/ Reserve(p)
  <2>1. PICK i \in Ids, pc \in {"create", "fill"} :
          /\ attempt' = [attempt EXCEPT ![p] = [@ EXCEPT !.pc = pc, !.id = i]]
          /\ pc = "create" => attempt[p].pc = "mint"
          /\ pc = "fill" => attempt[p].pc = "reserve"
    BY <1>5 DEF Mint, Reserve
  <2> DEFINE c == [attempt[p] EXCEPT !.pc = pc, !.id = i]
  <2>2. c.pc = pc /\ c.id = i /\ c.seen = attempt[p].seen
    BY Typing
  <2>3. attempt' = [attempt EXCEPT ![p] = c]
    BY <2>1
  <2> HIDE DEF c
  <2> QED BY <1>3, <2>1, <2>2, <2>3, EarlyKnows DEF Answering
<1>6. CASE Fill(p) \/ Sync(p) \/ Taken(p)
  <2>1. \/ GoTo(p, "sync") /\ attempt[p].pc = "fill"
        \/ GoTo(p, "create") /\ attempt[p].pc = "sync" /\ attempt[p].id \in Ids
        \/ GoTo(p, "read") /\ attempt[p].pc = "reserve"
    BY <1>6 DEF Fill, Sync, Taken, StartInv, ReservationHolds, FillsAlone
  <2> QED BY <1>1, <1>2, <1>3, <2>1, EarlyKnows DEF Answering
<1>7. CASE Reuse(p)
  <2> DEFINE r == reserved[Op[p]]
             c == [attempt[p] EXCEPT !.pc = "inspect", !.id = r.id]
  <2>1. attempt[p].pc = "read"
    BY <1>7 DEF Reuse
  <2>2. CASE GoTo(p, "refused")
    BY <1>1, <1>2, <1>3, <2>1, <2>2, EarlyKnows DEF Answering
  <2>3. CASE attempt' = [attempt EXCEPT ![p] = c] /\ r.id \in Ids
    <3>1. c.pc = "inspect" /\ c.id = r.id
      BY Typing
    <3> HIDE DEF c
    <3> QED BY <1>3, <2>1, <2>3, <3>1, EarlyKnows DEF Answering
  <2>4. GoTo(p, "refused") \/ (attempt' = [attempt EXCEPT ![p] = c] /\ r.id \in Ids)
    <3>1. Op[p] \in Ops /\ r \in {Free, Unfilled} \cup [id : Ids, task : Tasks]
      BY <1>7 DEF Reuse, StartInv, ReservationHolds
    <3> QED BY <1>7, <3>1 DEF Reuse
  <2> QED BY <2>2, <2>3, <2>4
<1>8. CASE CleanTree(p)
  <2> DEFINE status == IF runs[attempt[p].id].state.status = "canceled" THEN "canceled" ELSE "blocked"
             c == [attempt[p] EXCEPT !.pc = "block", !.mem.status = status]
  <2>1. attempt[p].pc = "clean"
    BY <1>8 DEF CleanTree
  <2>2. Blank(attempt[p].mem) /\ attempt[p].mem.status # "none"
    BY <2>1 DEF KnowledgeHolds, Remembers
  <2>3. CASE GoTo(p, "token")
    BY <1>1, <1>2, <1>3, <2>1, <2>2, <2>3, CleanKnows
  <2>4. CASE attempt' = [attempt EXCEPT ![p] = c]
    <3>1. attempt[p].mem \in States
      BY Typing
    <3>2. c.pc = "block" /\ c.id = attempt[p].id /\ c.seen = attempt[p].seen /\ Blank(c.mem) /\ c.mem.status # "none"
      <4> DEFINE mem == [attempt[p].mem EXCEPT !.status = status]
      <4>1. mem.hash = attempt[p].mem.hash /\ mem.work = attempt[p].mem.work /\ mem.status = status
        BY <3>1 DEF States
      <4>2. c.pc = "block" /\ c.id = attempt[p].id /\ c.seen = attempt[p].seen /\ c.mem = mem
        BY Typing
      <4>3. status # "none"
        OBVIOUS
      <4> HIDE DEF c, mem, status
      <4> QED BY <2>2, <4>1, <4>2, <4>3 DEF Blank
    <3> HIDE DEF c
    <3> QED BY <1>3, <2>1, <2>4, <3>2, CleanKnows
  <2>5. GoTo(p, "token") \/ attempt' = [attempt EXCEPT ![p] = c]
    BY <1>8 DEF CleanTree, GoTo
  <2> QED BY <2>3, <2>4, <2>5
<1>9. CASE Answer(p) \/ (Crash(p) /\ attempt[p].pc = "answer")
  <2>1. attempt[p].pc = "answer" /\ \E pc \in {"done", "lost"} : GoTo(p, pc)
    BY <1>9 DEF Answer, Crash
  <2> QED BY <1>1, <1>2, <1>3, <2>1, AnswerKnows
<1>10. CASE WriteFails(p) /\ attempt[p].pc = "block"
  <2>1. GoTo(p, "token")
    BY <1>10 DEF WriteFails
  <2>2. Blank(attempt[p].mem) /\ attempt[p].mem.status # "none"
    BY <1>10 DEF KnowledgeHolds, Remembers
  <2> QED BY <1>1, <1>2, <1>3, <1>10, <2>1, <2>2, CleanKnows
<1>11. CASE \/ FillFails(p)
            \/ WriteFails(p) /\ attempt[p].pc # "block"
            \/ Crash(p) /\ attempt[p].pc # "answer"
  <2>1. GoTo(p, "failed") /\ attempt[p].pc \notin Answering
    BY <1>11 DEF FillFails, WriteFails, Crash, Running, Over, Inputs, Answering
  <2> QED BY <1>1, <1>2, <1>3, <2>1, EarlyKnows
<1> QED
  BY <1>4, <1>5, <1>6, <1>7, <1>8, <1>9, <1>10, <1>11, InspectKnows, CheckKnows

\* The step saves a state of run i, and changes no other file.
Saves(i, st) ==
  /\ runs'[i].state = st
  /\ \A j \in Ids : /\ j # i => runs'[j].state = runs[j].state
                    /\ runs'[j].log = runs[j].log /\ runs'[j].inputs = runs[j].inputs

\* Saving a state takes nothing away.
LEMMA StateGrows ==
  ASSUME TypeOK, NEW i \in Ids, NEW st \in States, st.status # "none",
         runs' = [runs EXCEPT ![i] = [@ EXCEPT !.state = st]],
         \A p \in Attempts : attempt[p].pc \in Answering =>
           attempt'[p].pc \in Answering /\ attempt'[p].id = attempt[p].id
  PROVE  Grows /\ Saves(i, st)
<1>1. runs \in [Ids -> [state : States, log : Seq({"run_created"}), inputs : SUBSET Inputs]]
  BY DEF TypeOK, RunType
<1>2. Saves(i, st)
  BY <1>1 DEF Saves
<1>3. st # NoState
  <2>1. NoState.status = "none"
    BY DEF NoState
  <2> QED BY <2>1
<1>4. Grows
  BY <1>1, <1>2, <1>3 DEF Saves, Grows, RunExists, Readable
<1> QED BY <1>2, <1>4

\* Who saves a state without a token saw none, or was overtaken.
LEMMA StateKnows ==
  ASSUME TypeOK, KnowledgeHolds, Grows, NEW i \in Ids, NEW st, NEW old, Saves(i, st),
         intact' => intact /\ runs[i].state = old,
         StaysSealed(i, st), st.hash # "" \/ old.hash = "",
         \A q \in Attempts : attempt'[q].pc \in Answering =>
           attempt'[q] = attempt[q] \/ (st.hash # "" /\ attempt'[q].id = i)
  PROVE  (\A j \in Ids : RunIsSealed(j)') /\ KeyIsThere'
<1>1. ASSUME NEW j \in Ids PROVE RunIsSealed(j)'
  <2>1. RunIsSealed(j) /\ (Readable(j) => Readable(j)')
    BY DEF KnowledgeHolds, Grows
  <2>2. CASE j = i
    BY <2>1, <2>2 DEF Saves, RunIsSealed, Sealed, StaysSealed
  <2>3. CASE j # i
    <3>1. RunExists(j)' => StaysSealed(j, runs[j].state)
      BY <2>1, <2>3, SealedStays DEF Saves, RunIsSealed, RunExists
    <3> QED BY <2>1, <2>3, <3>1 DEF Saves, RunIsSealed, Sealed, StaysSealed
  <2> QED BY <2>2, <2>3
<1>2. KeyIsThere'
  <2> SUFFICES ASSUME intact', NEW q \in Attempts, attempt'[q].pc \in Answering
               PROVE  runs'[attempt'[q].id].state.hash # ""
    BY DEF KeyIsThere
  <2>1. intact /\ runs[i].state = old
    OBVIOUS
  <2>2. attempt[q].pc \in Answering => runs[attempt[q].id].state.hash # "" /\ attempt[q].id \in Ids
    <3>1. KeyIsThere /\ Did(q)
      BY DEF KnowledgeHolds
    <3> QED BY <2>1, <3>1 DEF KeyIsThere, Did, Settled, Answering
  <2>3. CASE st.hash # "" /\ attempt'[q].id = i
    BY <2>3 DEF Saves
  <2>4. CASE attempt'[q] = attempt[q]
    <3>1. CASE attempt[q].id = i
      BY <2>1, <2>2, <2>4, <3>1 DEF Saves
    <3>2. CASE attempt[q].id # i
      BY <2>2, <2>4, <3>2 DEF Saves
    <3> QED BY <3>1, <3>2
  <2> QED BY <2>3, <2>4
<1> QED BY <1>1, <1>2

\* A call saves a state.
LEMMA SaveKnows ==
  ASSUME TypeOK, KnowledgeHolds, NEW p \in Attempts, NEW c, attempt' = [attempt EXCEPT ![p] = c],
         NEW st \in States, SaveState(p, st), UNCHANGED <<driver, cancel>>, attempt[p].id \in Ids,
         attempt[p].pc \notin Answering, c.id = attempt[p].id, st.status # "none",
         attempt'[p] = c /\ Grows => StaysSealed(attempt[p].id, st) /\ Remembers(p)' /\ Did(p)',
         st.hash # "" \/ (c.pc \notin Answering /\ Blank(attempt[p].seen))
  PROVE  KnowledgeHolds'
<1>i. PICK i \in Ids : i = attempt[p].id
  OBVIOUS
<1>1. attempt'[p] = c /\ \A q \in Attempts : q # p => attempt'[q] = attempt[q]
  BY DEF TypeOK, AttemptType
<1>2. Grows /\ Saves(i, st)
  <2>1. runs' = [runs EXCEPT ![i] = [@ EXCEPT !.state = st]]
    BY <1>i DEF SaveState
  <2>2. \A q \in Attempts : attempt[q].pc \in Answering =>
          attempt'[q].pc \in Answering /\ attempt'[q].id = attempt[q].id
    BY <1>1
  <2> QED BY <2>1, <2>2, StateGrows
<1>3. StaysSealed(i, st)
  BY <1>1, <1>2, <1>i
<1>4. \A q \in Attempts : Remembers(q)' /\ Did(q)'
  BY <1>1, <1>2, OthersKnow
<1>5. WritersKnow'
  BY <1>2, WritersStillKnow
<1>6. (\A j \in Ids : RunIsSealed(j)') /\ KeyIsThere'
  <2>1. PICK old : old = attempt[p].seen
    OBVIOUS
  <2>2. intact' => intact /\ runs[i].state = old
    BY <1>i, <2>1 DEF SaveState
  <2>3. st.hash # "" \/ old.hash = ""
    BY <2>1 DEF Blank
  <2>4. \A q \in Attempts : attempt'[q].pc \in Answering =>
          attempt'[q] = attempt[q] \/ (st.hash # "" /\ attempt'[q].id = i)
    BY <1>1, <1>i
  <2> QED BY <1>2, <1>3, <2>2, <2>3, <2>4, StateKnows
<1> QED BY <1>4, <1>5, <1>6 DEF KnowledgeHolds

\* createRun writes a fresh state.
LEMMA CreateKnows ==
  ASSUME TypeOK, KnowledgeHolds, NEW p \in Attempts, Create(p)
  PROVE  KnowledgeHolds'
<1> DEFINE st == Initial(p)
           c == [attempt[p] EXCEPT !.pc = "announce", !.mem = st, !.seen = st]
<1>1. /\ attempt[p].pc = "create" /\ attempt' = [attempt EXCEPT ![p] = c]
      /\ SaveState(p, st) /\ UNCHANGED <<driver, cancel>>
  BY DEF Create, others
<1>2. c.pc = "announce" /\ c.mem = st /\ c.seen = st /\ c.id = attempt[p].id
  BY Typing
<1>3. attempt[p].id \in Ids /\ Blank(attempt[p].seen)
  BY <1>1 DEF KnowledgeHolds, Remembers, Did, Settled
<1>4. st \in States /\ Blank(st) /\ st.status = "active" /\ st # NoState
  BY Typing DEF Initial, Blank, NoState
<1>5. StaysSealed(attempt[p].id, st)
  BY <1>4, BlankIsSealed
<1>6. runs'[attempt[p].id].state = st
  BY <1>1, <1>3 DEF SaveState, TypeOK, RunType
<1> HIDE DEF c, st
<1>7. ASSUME attempt'[p] = c PROVE StaysSealed(attempt[p].id, st) /\ Remembers(p)' /\ Did(p)'
  <2>1. Remembers(p)'
    BY <1>2, <1>4, <1>7 DEF Remembers, Blank, Inputs
  <2>2. Did(p)'
    BY <1>2, <1>3, <1>4, <1>6, <1>7 DEF Did, Settled, Created, Announced, Given, Inputs, Answering, RunExists
  <2> QED BY <1>5, <2>1, <2>2
<1> QED BY <1>1, <1>2, <1>3, <1>4, <1>7, SaveKnows DEF Answering

\* The block of a dirty tree comes before the first token.
LEMMA BlockKnows ==
  ASSUME TypeOK, KnowledgeHolds, NEW p \in Attempts, Block(p)
  PROVE  KnowledgeHolds'
<1> DEFINE st == attempt[p].mem
           c == [attempt[p] EXCEPT !.pc = "token", !.seen = st]
<1>1. /\ attempt[p].pc = "block" /\ attempt' = [attempt EXCEPT ![p] = c]
      /\ SaveState(p, st) /\ UNCHANGED <<driver, cancel>>
  BY DEF Block, others
<1>2. c.pc = "token" /\ c.mem = st /\ c.seen = st /\ c.id = attempt[p].id /\ st \in States
  BY Typing
<1>3. Remembers(p) /\ Did(p)
  BY DEF KnowledgeHolds
<1>4. attempt[p].id \in Ids /\ Blank(attempt[p].seen) /\ Blank(st) /\ st.status # "none"
  BY <1>1, <1>3 DEF Remembers, Did, Settled
<1> HIDE DEF c, st
<1>5. ASSUME attempt'[p] = c, Grows PROVE StaysSealed(attempt[p].id, st) /\ Remembers(p)' /\ Did(p)'
  <2>1. StaysSealed(attempt[p].id, st)
    BY <1>4, BlankIsSealed
  <2>2. Remembers(p)'
    BY <1>2, <1>5, <2>1 DEF Remembers, Sealed, StaysSealed, Inputs
  <2>3. Did(p)'
    BY <1>1, <1>2, <1>3, <1>5 DEF Did, Grows, Settled, Created, Announced, Given, Inputs, Answering
  <2> QED BY <2>1, <2>2, <2>3
<1> QED BY <1>1, <1>2, <1>4, <1>5, SaveKnows DEF Answering

\* A token is issued on a run that has its inputs, by a call that is about to answer.
LEMMA TokenKnows ==
  ASSUME TypeOK, KnowledgeHolds, NEW p \in Attempts, Token(p)
  PROVE  KnowledgeHolds'
<1> DEFINE st == [attempt[p].mem EXCEPT !.hash = p]
           c == [attempt[p] EXCEPT !.pc = "answer"]
<1>1. /\ attempt[p].pc = "token" /\ attempt' = [attempt EXCEPT ![p] = c]
      /\ SaveState(p, st) /\ UNCHANGED <<driver, cancel>>
  BY DEF Token, GoTo, others
<1>2. c.pc = "answer" /\ c.id = attempt[p].id /\ attempt[p].mem \in States
  BY Typing
<1>3. Remembers(p) /\ Did(p)
  BY DEF KnowledgeHolds
<1>4. attempt[p].id \in Ids /\ attempt[p].mem.status # "none"
  BY <1>1, <1>3 DEF Remembers, Sealed, Did, Settled
<1>5. st \in States /\ st.hash = p /\ p # "" /\ st.status = attempt[p].mem.status
  BY <1>2, CallsAssumption DEF States
<1> HIDE DEF c, st
<1>6. ASSUME attempt'[p] = c, Grows PROVE StaysSealed(attempt[p].id, st) /\ Remembers(p)' /\ Did(p)'
  <2>1. Inputs \subseteq runs[attempt[p].id].inputs
    BY <1>1, <1>3 DEF Did, Settled, Given
  <2>2. runs'[attempt[p].id].inputs = Inputs
    BY <1>4, <1>6, <2>1 DEF Grows
  <2>3. StaysSealed(attempt[p].id, st)
    BY <1>2, <1>4, <1>5, <1>6, <2>2 DEF StaysSealed, Answering
  <2>4. Remembers(p)'
    BY <1>2, <1>6 DEF Remembers, Inputs
  <2>5. Did(p)'
    BY <1>1, <1>2, <1>3, <1>6, <2>2 DEF Did, Grows, Settled, Created, Announced, Given, Inputs, Answering
  <2> QED BY <2>3, <2>4, <2>5
<1> QED BY <1>1, <1>2, <1>4, <1>5, <1>6, SaveKnows DEF Answering

\* A call adds to the log or to the inputs.
LEMMA InputKnows ==
  ASSUME TypeOK, KnowledgeHolds, NEW p \in Attempts, Announce(p) \/ SaveInput(p)
  PROVE  KnowledgeHolds'
<1>1. Remembers(p) /\ Did(p)
  BY DEF KnowledgeHolds
<1>2. /\ attempt[p].pc \in {"announce"} \cup Inputs
      /\ UNCHANGED <<driver, cancel, intact>>
  BY DEF Announce, SaveInput, others, Inputs
<1>i. PICK i \in Ids : i = attempt[p].id
  BY <1>1, <1>2 DEF Did, Settled
<1> DEFINE pc == IF attempt[p].pc = "announce" THEN "workspace" ELSE After[attempt[p].pc]
           c == [attempt[p] EXCEPT !.pc = pc]
           logged == IF attempt[p].pc = "announce" THEN Append(runs[i].log, "run_created") ELSE runs[i].log
           saved == IF attempt[p].pc = "announce" THEN runs[i].inputs ELSE runs[i].inputs \cup {attempt[p].pc}
<1>c. attempt' = [attempt EXCEPT ![p] = c]
  BY DEF Announce, SaveInput, GoTo, Inputs
<1>3. /\ c.pc = pc /\ c.id = i /\ c.mem = attempt[p].mem /\ c.seen = attempt[p].seen
      /\ \A q \in Attempts : q # p => attempt'[q] = attempt[q]
      /\ attempt'[p] = c
  BY <1>c, <1>i, Typing DEF TypeOK, AttemptType
<1>4. RunExists(i) /\ (attempt[p].pc # "announce" => Readable(i))
  BY <1>1, <1>2, <1>i DEF Did, Settled, Created, Announced, Inputs
<1>5. /\ runs'[i].log = logged /\ runs'[i].inputs = saved
      /\ \A j \in Ids : runs'[j].state = runs[j].state
      /\ \A j \in Ids : j # i => runs'[j] = runs[j]
  <2>1. runs \in [Ids -> [state : States, log : Seq({"run_created"}), inputs : SUBSET Inputs]]
    BY DEF TypeOK, RunType
  <2>2. CASE attempt[p].pc = "announce"
    <3>1. runs' = [runs EXCEPT ![i] = [@ EXCEPT !.log = logged]]
      BY <1>i, <2>2 DEF Announce, SaveInput, Inputs
    <3>2. saved = runs[i].inputs
      BY <2>2
    <3> HIDE DEF logged, saved, c, pc
    <3> QED BY <1>4, <2>1, <3>1, <3>2
  <2>3. CASE attempt[p].pc # "announce"
    <3>1. runs' = [runs EXCEPT ![i] = [@ EXCEPT !.inputs = saved]]
      BY <1>i, <2>3 DEF Announce, SaveInput
    <3>2. logged = runs[i].log
      BY <2>3
    <3> HIDE DEF logged, saved, c, pc
    <3> QED BY <1>4, <2>1, <3>1, <3>2
  <2> QED BY <2>2, <2>3
<1>6. Readable(i)'
  <2>1. CASE attempt[p].pc = "announce"
    <3>1. \A log \in Seq({"run_created"}) :
            Append(log, "run_created") # <<>> /\ Head(Append(log, "run_created")) = "run_created"
      <4>1. \A log \in Seq({"run_created"}) : Append(log, "run_created") \in Seq({"run_created"}) \ {<<>>}
        OBVIOUS
      <4>2. \A log \in Seq({"run_created"}) \ {<<>>} : Head(log) = "run_created"
        OBVIOUS
      <4> QED BY <4>1, <4>2
    <3>2. runs[i].log \in Seq({"run_created"})
      BY <1>4 DEF TypeOK, RunType
    <3> QED BY <1>5, <2>1, <3>1, <3>2 DEF Readable
  <2>2. CASE attempt[p].pc # "announce"
    BY <1>4, <1>5, <2>2 DEF Readable
  <2> QED BY <2>1, <2>2
<1>7. Grows
  <2>1. ASSUME NEW j \in Ids
        PROVE  /\ RunExists(j) => RunExists(j)'
               /\ Readable(j) => Readable(j)'
               /\ runs[j].inputs \subseteq runs'[j].inputs /\ runs'[j].inputs \subseteq Inputs
    <3>1. runs[j].inputs \subseteq Inputs
      BY DEF TypeOK, RunType
    <3>2. saved \subseteq Inputs \cup runs[i].inputs
      BY <1>2
    <3>3. CASE j = i
      BY <1>5, <1>6, <3>1, <3>2, <3>3 DEF RunExists
    <3>4. CASE j # i
      BY <1>5, <3>1, <3>4 DEF RunExists, Readable
    <3> QED BY <3>3, <3>4
  <2> QED BY <1>2, <1>3, <2>1 DEF Grows, Answering, Inputs
<1> HIDE DEF c
<1>8. pc \in Inputs \cup {"clean"}
  BY <1>2 DEF Inputs, After
<1>9. Remembers(p)'
  <2>1. Blank(attempt[p].seen) /\ Blank(attempt[p].mem) /\ attempt[p].mem.status # "none"
    BY <1>1, <1>2 DEF Remembers
  <2> HIDE DEF pc
  <2> QED BY <1>3, <1>8, <2>1 DEF Remembers, Inputs
<1>10. Did(p)'
  <2>1. Given(pc) \subseteq runs'[i].inputs
    <3>1. Given(attempt[p].pc) \subseteq runs[i].inputs
      BY <1>1, <1>2, <1>i DEF Did, Settled, Inputs
    <3>2. Given(pc) \subseteq Given(attempt[p].pc) \cup (IF attempt[p].pc = "announce" THEN {} ELSE {attempt[p].pc})
      BY <1>2 DEF Given, Inputs, After, Answering
    <3> QED BY <1>5, <3>1, <3>2
  <2>2. RunExists(i)'
    BY <1>4, <1>5 DEF RunExists
  <2> HIDE DEF pc
  <2> QED BY <1>3, <1>4, <1>6, <1>8, <2>1, <2>2 DEF Did, Settled, Created, Announced, Inputs
<1>11. \A q \in Attempts : Remembers(q)' /\ Did(q)'
  BY <1>3, <1>7, <1>9, <1>10, OthersKnow
<1>12. WritersKnow'
  BY <1>2, <1>7, WritersStillKnow
<1>13. ASSUME NEW j \in Ids PROVE RunIsSealed(j)'
  <2>1. RunIsSealed(j)
    BY DEF KnowledgeHolds
  <2>2. RunExists(j)' => StaysSealed(j, runs[j].state)
    BY <1>5, <1>7, <2>1, SealedStays DEF RunIsSealed, RunExists
  <2>3. runs'[j].inputs # {} => Readable(j)'
    BY <1>5, <1>6, <2>1 DEF RunIsSealed, Readable
  <2> QED BY <1>5, <2>2, <2>3 DEF RunIsSealed, Sealed, StaysSealed
<1>14. KeyIsThere'
  <2>1. KeyIsThere /\ \A q \in Attempts : Did(q)
    BY DEF KnowledgeHolds
  <2>2. \A q \in Attempts : attempt'[q].pc \in Answering => attempt'[q] = attempt[q] /\ attempt[q].id \in Ids
    BY <1>3, <1>8, <2>1 DEF Answering, Inputs, Did, Settled
  <2> QED BY <1>2, <1>5, <2>1, <2>2, ZenonT(30) DEF KeyIsThere
<1> QED BY <1>11, <1>12, <1>13, <1>14 DEF KnowledgeHolds

\* A step that leaves the files and the calls alone.
LEMMA QuietKnows ==
  ASSUME TypeOK, KnowledgeHolds, UNCHANGED <<runs, attempt, intact>>
  PROVE  /\ \A p \in Attempts : Remembers(p)' /\ Did(p)'
         /\ (\A i \in Ids : RunIsSealed(i)') /\ KeyIsThere'
         /\ Grows
<1>1. Grows
  <2>1. \A i \in Ids : runs[i].inputs \subseteq Inputs
    BY DEF TypeOK, RunType
  <2> QED BY <2>1 DEF Grows, RunExists, Readable
<1>2. \A p \in Attempts : Remembers(p)' /\ Did(p)'
  BY <1>1, OthersKnow
<1>3. \A i \in Ids : RunIsSealed(i)'
  BY DEF KnowledgeHolds, RunIsSealed, RunExists, Readable, Sealed
<1>4. KeyIsThere'
  BY DEF KnowledgeHolds, KeyIsThere
<1> QED BY <1>1, <1>2, <1>3, <1>4

\* A command or a cancel that has read a state of its run knows what all know of states.
LEMMA ReadKnows ==
  ASSUME TypeOK, StartInv, KnowledgeHolds, Command \/ \E c \in Cancellers : LoadState(c)
  PROVE  KnowledgeHolds'
<1>1. UNCHANGED <<runs, attempt, intact>>
  BY DEF Command, LoadState
<1>2. /\ \A p \in Attempts : Remembers(p)' /\ Did(p)'
      /\ (\A i \in Ids : RunIsSealed(i)') /\ KeyIsThere'
  BY <1>1, QuietKnows
<1>3. WritersKnow /\ \A i \in Ids : RunExists(i) => Sealed(i, runs[i].state)
  BY DEF KnowledgeHolds, RunIsSealed
<1>4. WritersKnow'
  <2>1. CASE Command
    <3>1. PICK p \in Attempts :
            /\ Reported(p) /\ runs[attempt[p].id].state.hash = p /\ runs[attempt[p].id].state.status = "active"
            /\ driver' = [pc |-> "save", id |-> attempt[p].id, seen |-> runs[attempt[p].id].state]
      BY <2>1 DEF Command
    <3>2. PICK i \in Ids : i = attempt[p].id
      BY <3>1 DEF StartInv, ReservationHolds, HasReservedRun, Reported, Settled
    <3>3. PICK st : st = runs[i].state
      OBVIOUS
    <3>4. RunExists(i) /\ Sealed(i, st) /\ st.hash # ""
      <4>1. NoState.status = "none"
        BY DEF NoState
      <4>2. RunExists(i)
        BY <3>1, <3>2, <4>1 DEF RunExists
      <4> QED BY <1>3, <3>1, <3>2, <3>3, <4>2, CallsAssumption
    <3>5. driver'.pc = "save" /\ driver'.id = i /\ driver'.seen = st
      BY <3>1, <3>2, <3>3
    <3>6. UNCHANGED cancel
      BY <2>1 DEF Command
    <3> QED BY <1>1, <1>3, <3>4, <3>5, <3>6 DEF WritersKnow, Sealed, RunExists
  <2>2. ASSUME NEW c \in Cancellers, LoadState(c) PROVE WritersKnow'
    <3>1. PICK i \in Ids : /\ RunExists(i)
                           /\ cancel' = [cancel EXCEPT ![c] = [pc |-> "save", id |-> i, seen |-> runs[i].state]]
      BY <2>2 DEF LoadState
    <3>2. /\ cancel'[c].id = i /\ cancel'[c].seen = runs[i].state
          /\ \A d \in Cancellers : d # c => cancel'[d] = cancel[d]
      BY <3>1 DEF TypeOK, OtherTypes
    <3>3. Sealed(i, runs[i].state)
      BY <1>3, <3>1
    <3>4. UNCHANGED driver
      BY <2>2 DEF LoadState
    <3>5. \A d \in Cancellers : cancel'[d].pc = "save" =>
            cancel'[d].id \in Ids /\ RunExists(cancel'[d].id) /\ Sealed(cancel'[d].id, cancel'[d].seen)
      BY <1>3, <3>1, <3>2, <3>3 DEF WritersKnow
    <3> QED BY <1>1, <1>3, <3>4, <3>5 DEF WritersKnow, Sealed, RunExists
  <2> QED BY <2>1, <2>2
<1> QED BY <1>2, <1>4 DEF KnowledgeHolds

\* A command or a cancel saves what it makes of the state it read.
LEMMA WriterSaves ==
  ASSUME TypeOK, KnowledgeHolds, NEW i \in Ids, NEW st \in States, NEW old,
         runs' = [runs EXCEPT ![i] = [@ EXCEPT !.state = st]],
         intact' => intact /\ runs[i].state = old, UNCHANGED attempt,
         Sealed(i, st), st.hash = old.hash
  PROVE  /\ \A p \in Attempts : Remembers(p)' /\ Did(p)'
         /\ (\A j \in Ids : RunIsSealed(j)') /\ KeyIsThere'
         /\ Grows
<1>1. st.status # "none"
  BY DEF Sealed
<1>2. Grows /\ Saves(i, st)
  BY <1>1, StateGrows
<1>3. \A p \in Attempts : Remembers(p)' /\ Did(p)'
  BY <1>2, OthersKnow
<1>4. StaysSealed(i, st)
  BY <1>2, SealedStays
<1>5. \A q \in Attempts : attempt'[q].pc \in Answering => attempt'[q] = attempt[q] \/ (st.hash # "" /\ attempt'[q].id = i)
  OBVIOUS
<1>6. st.hash # "" \/ old.hash = ""
  OBVIOUS
<1>7. (\A j \in Ids : RunIsSealed(j)') /\ KeyIsThere'
  BY <1>2, <1>4, <1>5, <1>6, StateKnows
<1> QED BY <1>2, <1>3, <1>7

\* The driver saves the run with more work on it.
LEMMA ProgressKnows ==
  ASSUME TypeOK, KnowledgeHolds, Progress
  PROVE  KnowledgeHolds'
<1>1. WritersKnow /\ driver.pc = "save"
  BY DEF KnowledgeHolds, Progress
<1>2. PICK i \in Ids : i = driver.id
  BY <1>1 DEF WritersKnow
<1>3. PICK old : old = driver.seen
  OBVIOUS
<1>4. old \in States /\ Sealed(i, old) /\ old.hash # ""
  BY <1>1, <1>2, <1>3 DEF TypeOK, OtherTypes, WritersKnow
<1> DEFINE st == [old EXCEPT !.work = @ + 1]
<1>5. st \in States /\ st.hash = old.hash /\ st.status = old.status
  <2>1. \A n \in Nat : n + 1 \in Nat
    OBVIOUS
  <2>2. old.work \in Nat
    BY <1>4 DEF States
  <2>3. old.work + 1 \in Nat
    BY <2>1, <2>2
  <2>4. \A n \in Nat : /\ [old EXCEPT !.work = n] \in States
                       /\ [old EXCEPT !.work = n].hash = old.hash /\ [old EXCEPT !.work = n].status = old.status
    BY <1>4 DEF States
  <2> QED BY <2>3, <2>4
<1>6. /\ runs' = [runs EXCEPT ![i] = [@ EXCEPT !.state = st]]
      /\ intact' => intact /\ runs[i].state = old
      /\ UNCHANGED <<attempt, cancel>> /\ driver'.pc = "off"
  BY <1>2, <1>3 DEF Progress, Idle
<1> HIDE DEF st
<1>7. Sealed(i, st)
  BY <1>4, <1>5 DEF Sealed
<1>8. /\ \A p \in Attempts : Remembers(p)' /\ Did(p)'
      /\ (\A j \in Ids : RunIsSealed(j)') /\ KeyIsThere'
      /\ Grows
  BY <1>5, <1>6, <1>7, WriterSaves
<1>9. WritersKnow'
  <2>1. ASSUME NEW c \in Cancellers, cancel[c].pc = "save"
        PROVE  StaysSealed(cancel[c].id, cancel[c].seen) /\ cancel[c].id \in Ids /\ RunExists(cancel[c].id)'
    BY <1>1, <1>6, <1>8, <2>1, SealedStays DEF WritersKnow, Grows
  <2> QED BY <1>6, <2>1 DEF WritersKnow, Sealed, StaysSealed
<1> QED BY <1>8, <1>9 DEF KnowledgeHolds

\* A cancel saves the run as canceled.
LEMMA CancelKnows ==
  ASSUME TypeOK, KnowledgeHolds, NEW d \in Cancellers, CancelState(d)
  PROVE  KnowledgeHolds'
<1>1. WritersKnow /\ cancel[d].pc = "save"
  BY DEF KnowledgeHolds, CancelState
<1>2. PICK i \in Ids : i = cancel[d].id
  BY <1>1 DEF WritersKnow
<1>3. PICK old : old = cancel[d].seen
  OBVIOUS
<1>4. old \in States /\ Sealed(i, old)
  BY <1>1, <1>2, <1>3 DEF TypeOK, OtherTypes, WritersKnow
<1> DEFINE st == [old EXCEPT !.status = "canceled"]
<1>5. st \in States /\ st.hash = old.hash /\ st.work = old.work /\ st.status = "canceled"
  BY <1>4 DEF States
<1>6. /\ runs' = [runs EXCEPT ![i] = [@ EXCEPT !.state = st]]
      /\ intact' => intact /\ runs[i].state = old
      /\ UNCHANGED <<attempt, driver>>
      /\ cancel'[d].pc = "done" /\ \A c \in Cancellers : c # d => cancel'[c] = cancel[c]
  BY <1>2, <1>3 DEF CancelState, TypeOK, OtherTypes
<1> HIDE DEF st
<1>7. Sealed(i, st)
  BY <1>4, <1>5 DEF Sealed
<1>8. /\ \A p \in Attempts : Remembers(p)' /\ Did(p)'
      /\ (\A j \in Ids : RunIsSealed(j)') /\ KeyIsThere'
      /\ Grows
  BY <1>5, <1>6, <1>7, WriterSaves
<1>9. WritersKnow'
  <2>1. ASSUME NEW c \in Cancellers, cancel[c].pc = "save"
        PROVE  /\ cancel[c].id \in Ids /\ runs'[cancel[c].id].state # NoState
               /\ StaysSealed(cancel[c].id, cancel[c].seen)
    <3>1. cancel[c].id \in Ids /\ RunExists(cancel[c].id) /\ Sealed(cancel[c].id, cancel[c].seen)
      BY <1>1, <2>1 DEF WritersKnow
    <3>2. StaysSealed(cancel[c].id, cancel[c].seen)
      BY <1>8, <3>1, SealedStays
    <3> QED BY <1>8, <3>1, <3>2 DEF Grows, RunExists
  <2>2. driver.pc = "save" =>
          /\ StaysSealed(driver.id, driver.seen) /\ driver.id \in Ids /\ RunExists(driver.id)' /\ driver.seen.hash # ""
    <3>1. driver.pc = "save" => /\ driver.id \in Ids /\ RunExists(driver.id)
                                /\ Sealed(driver.id, driver.seen) /\ driver.seen.hash # ""
      BY <1>1 DEF WritersKnow
    <3>2. driver.pc = "save" => StaysSealed(driver.id, driver.seen)
      BY <1>8, <3>1, SealedStays
    <3>3. driver.pc = "save" => RunExists(driver.id)'
      BY <1>6, <1>8, <3>1 DEF Grows, RunExists
    <3> QED BY <3>1, <3>2, <3>3
  <2>3. ASSUME NEW c \in Cancellers, cancel'[c].pc = "save" PROVE c # d
    BY <1>6, <2>3
  <2> QED BY <1>6, <2>1, <2>2, <2>3, ZenonT(30) DEF WritersKnow, Sealed, StaysSealed, RunExists
<1> QED BY <1>8, <1>9 DEF KnowledgeHolds

\* Every step keeps what everybody knows.
LEMMA KnowledgeStep == TypeOK /\ StartInv /\ KnowledgeHolds /\ [Next]_vars => KnowledgeHolds'
<1> SUFFICES ASSUME TypeOK, StartInv, KnowledgeHolds, [Next]_vars PROVE KnowledgeHolds'
  OBVIOUS
<1>1. ASSUME NEW p \in Attempts, Call(p) \/ FillFails(p) \/ WriteFails(p) \/ Crash(p) PROVE KnowledgeHolds'
  BY <1>1, LocalStepKnows, CreateKnows, BlockKnows, TokenKnows, InputKnows DEF Call
<1>2. CASE Command \/ \E c \in Cancellers : LoadState(c)
  BY <1>2, ReadKnows
<1>3. CASE Progress \/ \E c \in Cancellers : CancelState(c)
  BY <1>3, ProgressKnows, CancelKnows
<1>4. CASE UNCHANGED vars
  <2>1. UNCHANGED <<runs, attempt, intact, driver, cancel>>
    BY <1>4 DEF vars
  <2> QED BY <2>1, QuietKnows, WritersStillKnow DEF KnowledgeHolds
<1> QED BY <1>1, <1>2, <1>3, <1>4 DEF Next

\* The invariant with all its parts.
RunStartInv == TypeOK /\ StartInv /\ KnowledgeHolds

\* The invariant holds in every state of every behaviour.
LEMMA InvariantHolds == Spec => []RunStartInv
<1>1. Init => RunStartInv
  BY InitTyped, InitEstablishesStartInv, InitKnows DEF RunStartInv
<1>2. RunStartInv /\ [Next]_vars => RunStartInv'
  BY TypeStep, StartInvStep, KnowledgeStep DEF RunStartInv
<1> QED BY <1>1, <1>2, PTL DEF Spec

\* ReserveGlobalOperation: whatever calls are killed or overlap, and whichever of their writes
\* fail, those of one operation that report a run report one run, of one task, except a call
\* whose reservation was removed, for want of an fsync, after another one could read it.
THEOREM OneRunPerOperation == Spec => []OneRunUnlessWithdrawn
<1>1. RunStartInv => OneRunUnlessWithdrawn
  BY ReservedRunIsOne DEF RunStartInv, OneRunUnlessWithdrawn
<1> QED BY <1>1, InvariantHolds, PTL

\* ReserveGlobalOperation: calls that are only repeated when the one before has ended, killed
\* or failed at any place, report one run per operation, of one task: nobody reads a
\* reservation while its creator may still remove it.
THEOREM RetriesShareOneRun == ASSUME ~Overlap PROVE Spec => []OneRunPerOpId
<1>1. RunStartInv => OneRunPerOpId
  BY ReservedRunIsOne DEF RunStartInv, OneRunPerOpId
<1> QED BY <1>1, InvariantHolds, PTL

\* Every variable keeps its type: the reservations name minted ids, the logs hold
\* run_created only, the places are those of StartRun, createRun and completeRun.
THEOREM StartIsTyped == Spec => []TypeOK
<1>1. RunStartInv => TypeOK
  BY DEF RunStartInv
<1> QED BY <1>1, InvariantHolds, PTL

\* createRun, completeRun: whatever is killed, fails or overlaps, a run that was reported
\* has its state, a log that can be read and its inputs, and keeps them.
THEOREM ReportedRunsAreWhole == Spec => []ReportedRunIsWhole
<1>1. RunStartInv => ReportedRunIsWhole
  <2> SUFFICES ASSUME RunStartInv, NEW p \in Attempts, Reported(p)
               PROVE  RunExists(attempt[p].id) /\ Readable(attempt[p].id) /\ runs[attempt[p].id].inputs = Inputs
    BY DEF ReportedRunIsWhole
  <2>1. Did(p) /\ attempt[p].pc = "done"
    BY DEF RunStartInv, KnowledgeHolds, Reported
  <2>2. attempt[p].id \in Ids /\ RunExists(attempt[p].id) /\ Readable(attempt[p].id)
    BY <2>1 DEF Did, Settled, Created, Announced
  <2>3. Inputs \subseteq runs[attempt[p].id].inputs
    BY <2>1 DEF Did, Settled, Given, Answering
  <2>4. runs[attempt[p].id].inputs \subseteq Inputs
    BY <2>2 DEF RunStartInv, TypeOK, RunType
  <2> QED BY <2>2, <2>3, <2>4
<1> QED BY <1>1, InvariantHolds, PTL

\* issueDriverToken: as long as no save is overtaken, the run that was reported is driven by
\* the token of a call that answered, or was killed when it was about to.
THEOREM AnswersHoldTheKey == Spec => []AnswerHoldsTheKey
<1>1. RunStartInv => AnswerHoldsTheKey
  <2> SUFFICES ASSUME RunStartInv, intact, \A q \in Attempts : ~Running(q), NEW p \in Attempts, Reported(p)
               PROVE  LET hash == runs[attempt[p].id].state.hash IN
                      hash # "" /\ attempt[hash].pc \in {"done", "lost"} /\ attempt[hash].id = attempt[p].id
    BY DEF AnswerHoldsTheKey
  <2> DEFINE hash == runs[attempt[p].id].state.hash
  <2>1. hash # "" /\ attempt[p].id \in Ids /\ RunExists(attempt[p].id)
    BY DEF RunStartInv, KnowledgeHolds, KeyIsThere, Did, Reported, Answering, Settled, Created
  <2>2. hash \in Attempts /\ attempt[hash].pc \in Answering /\ attempt[hash].id = attempt[p].id
    BY <2>1 DEF RunStartInv, KnowledgeHolds, RunIsSealed, Sealed
  <2>3. attempt[hash].pc # "answer"
    BY <2>2 DEF Running, Over
  <2> QED BY <2>1, <2>2, <2>3 DEF Answering
<1> QED BY <1>1, InvariantHolds, PTL

\* Facts of arithmetic, where the provers need them said.
LEMMA Order ==
  \A n \in Nat : n >= n /\ n + 1 >= n
  OBVIOUS

\* What a step may not take back of run i.
KeepsWork(i) ==
  intact' => /\ runs'[i].state.work >= runs[i].state.work
             /\ runs[i].state.status = "canceled" /\ runs[i].state.hash # "" => runs'[i].state.status = "canceled"

\* A save that was not overtaken takes back nothing of what its writer knew.
LEMMA SaveKeepsWork ==
  ASSUME TypeOK, NEW i \in Ids, NEW st, NEW old,
         runs' = [runs EXCEPT ![i] = [@ EXCEPT !.state = st]],
         intact' => runs[i].state = old, st.work >= old.work,
         old.status = "canceled" /\ old.hash # "" => st.status = "canceled",
         NEW j \in Ids
  PROVE  KeepsWork(j)
<1>1. runs \in [Ids -> [state : States, log : Seq({"run_created"}), inputs : SUBSET Inputs]]
  BY DEF TypeOK, RunType
<1>2. CASE j = i
  BY <1>1, <1>2 DEF KeepsWork
<1>3. CASE j # i
  <2>1. runs'[j] = runs[j] /\ runs[j].state \in States
    BY <1>1, <1>3
  <2>2. runs[j].state.work \in Nat
    BY <2>1 DEF States
  <2> QED BY <2>1, <2>2, Order DEF KeepsWork
<1> QED BY <1>2, <1>3

\* No step takes back work or, once the run has a token, its cancel.
LEMMA StepKeepsWork ==
  ASSUME RunStartInv, [Next]_vars, NEW j \in Ids
  PROVE  KeepsWork(j)
<1> TypeOK /\ KnowledgeHolds
  BY DEF RunStartInv
<1>a. runs[j].state.work \in Nat
  <2>1. runs[j].state \in States
    BY Typing
  <2> QED BY <2>1 DEF States
<1>b. ASSUME runs'[j].state = runs[j].state PROVE KeepsWork(j)
  BY <1>a, <1>b, Order DEF KeepsWork
<1>1. ASSUME NEW p \in Attempts, Create(p) \/ Block(p) \/ Token(p) PROVE KeepsWork(j)
  <2>1. PICK i \in Ids : i = attempt[p].id
    BY <1>1 DEF KnowledgeHolds, Did, Settled, Create, Block, Token
  <2>2. PICK old \in States : old = attempt[p].seen
    BY Typing
  <2>3. Remembers(p)
    BY DEF KnowledgeHolds
  <2>4. old.work \in Nat
    BY DEF States
  <2>5. CASE Create(p) \/ Block(p)
    <3>1. PICK st : SaveState(p, st) /\ Blank(st)
      <4>1. Blank(Initial(p))
        BY DEF Initial, Blank
      <4>2. CASE Create(p)
        BY <4>1, <4>2 DEF Create
      <4>3. CASE Block(p)
        BY <2>3, <4>3 DEF Block, Remembers
      <4> QED BY <2>5, <4>2, <4>3
    <3>2. Blank(old)
      BY <2>2, <2>3, <2>5 DEF Create, Block, Remembers
    <3>3. st.work >= old.work /\ old.hash = ""
      <4>1. st.work = old.work /\ old.hash = ""
        BY <3>1, <3>2 DEF Blank
      <4> QED BY <2>4, <4>1, Order
    <3>4. /\ runs' = [runs EXCEPT ![i] = [@ EXCEPT !.state = st]]
          /\ intact' => runs[i].state = old
      BY <2>1, <2>2, <3>1 DEF SaveState
    <3> QED BY <3>3, <3>4, SaveKeepsWork
  <2>6. CASE Token(p)
    <3> DEFINE st == [attempt[p].mem EXCEPT !.hash = p]
    <3>1. attempt[p].mem \in States
      BY Typing
    <3>2. st.work = attempt[p].mem.work /\ st.status = attempt[p].mem.status
      BY <3>1 DEF States
    <3>3. attempt[p].mem.work = old.work /\ (old.hash # "" => attempt[p].mem = old)
      BY <2>2, <2>3, <2>6 DEF Token, Remembers
    <3>4. /\ runs' = [runs EXCEPT ![i] = [@ EXCEPT !.state = st]]
          /\ intact' => runs[i].state = old
      BY <2>1, <2>2, <2>6 DEF Token, SaveState
    <3> HIDE DEF st
    <3>5. st.work >= old.work
      BY <2>4, <3>2, <3>3, Order
    <3>6. old.status = "canceled" /\ old.hash # "" => st.status = "canceled"
      BY <3>2, <3>3
    <3> QED BY <3>4, <3>5, <3>6, SaveKeepsWork
  <2> QED BY <1>1, <2>5, <2>6
<1>2. ASSUME NEW p \in Attempts, Announce(p) \/ SaveInput(p) PROVE KeepsWork(j)
  <2>1. runs'[j].state = runs[j].state
    <3>1. runs \in [Ids -> [state : States, log : Seq({"run_created"}), inputs : SUBSET Inputs]]
      BY DEF TypeOK, RunType
    <3>2. CASE Announce(p)
      BY <3>1, <3>2 DEF Announce
    <3>3. CASE SaveInput(p)
      BY <3>1, <3>3 DEF SaveInput
    <3> QED BY <1>2, <3>2, <3>3
  <2> QED BY <1>b, <2>1
<1>3. ASSUME NEW p \in Attempts, \/ Begin(p) \/ Mint(p) \/ Reserve(p) \/ Fill(p) \/ Sync(p) \/ Taken(p)
                                 \/ Reuse(p) \/ Inspect(p) \/ Check(p) \/ CleanTree(p) \/ Answer(p) \/ FillFails(p) \/ WriteFails(p) \/ Crash(p)
      PROVE  KeepsWork(j)
  <2>1. UNCHANGED runs
    BY <1>3 DEF Begin, Mint, Reserve, Fill, Sync, Taken, Reuse, Inspect, Check, CleanTree, Answer, FillFails, WriteFails,
                Crash
  <2> QED BY <1>b, <2>1
<1>4. CASE Command \/ UNCHANGED vars \/ \E c \in Cancellers : LoadState(c)
  BY <1>b, <1>4 DEF Command, LoadState, vars
<1>5. CASE Progress
  <2>1. PICK i \in Ids : i = driver.id
    BY <1>5 DEF Progress, KnowledgeHolds, WritersKnow
  <2>2. PICK old \in States : old = driver.seen
    BY DEF TypeOK, OtherTypes
  <2> DEFINE st == [old EXCEPT !.work = @ + 1]
  <2>3. st.work = old.work + 1 /\ st.status = old.status /\ old.work \in Nat
    BY DEF States
  <2>4. /\ runs' = [runs EXCEPT ![i] = [@ EXCEPT !.state = st]]
        /\ intact' => runs[i].state = old
    BY <1>5, <2>1, <2>2 DEF Progress
  <2> HIDE DEF st
  <2>5. st.work >= old.work
    BY <2>3, Order
  <2> QED BY <2>3, <2>4, <2>5, SaveKeepsWork
<1>6. ASSUME NEW c \in Cancellers, CancelState(c) PROVE KeepsWork(j)
  <2>1. PICK i \in Ids : i = cancel[c].id
    BY <1>6 DEF CancelState, KnowledgeHolds, WritersKnow
  <2>2. PICK old \in States : old = cancel[c].seen
    BY DEF TypeOK, OtherTypes
  <2> DEFINE st == [old EXCEPT !.status = "canceled"]
  <2>3. st.work = old.work /\ st.status = "canceled" /\ old.work \in Nat
    BY DEF States
  <2>4. /\ runs' = [runs EXCEPT ![i] = [@ EXCEPT !.state = st]]
        /\ intact' => runs[i].state = old
    BY <1>6, <2>1, <2>2 DEF CancelState
  <2> HIDE DEF st
  <2>5. st.work >= old.work
    BY <2>3, Order
  <2> QED BY <2>3, <2>4, <2>5, SaveKeepsWork
<1> QED BY <1>1, <1>2, <1>3, <1>4, <1>5, <1>6 DEF Next, Call

\* completeRun: a repeated start takes back neither work nor, once there is a token, a cancel.
THEOREM RepeatsKeepTheRun == Spec => RepeatKeepsTheRun
<1> DEFINE Kept == \A i \in Ids : intact' =>
             /\ runs'[i].state.work >= runs[i].state.work
             /\ runs[i].state.status = "canceled" /\ runs[i].state.hash # "" => runs'[i].state.status = "canceled"
<1>1. RunStartInv /\ [Next]_vars => [Kept]_runs
  <2> SUFFICES ASSUME RunStartInv, [Next]_vars PROVE Kept
    OBVIOUS
  <2> QED BY StepKeepsWork DEF KeepsWork
<1> HIDE DEF Kept
<1>2. Spec => [][Kept]_runs
  BY <1>1, InvariantHolds, PTL DEF Spec
<1> QED BY <1>2 DEF RepeatKeepsTheRun, Kept
=============================================================================

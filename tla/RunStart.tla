------------------------------ MODULE RunStart ------------------------------
(***************************************************************************)
(* vichu run start: how a host-first run comes to be (Engine.StartRun and  *)
(* createRun, over the run store).  The caller names the operation with an *)
(* op-id and calls again when it got no answer, so several attempts at one *)
(* start may follow, or overlap, each other; each may be killed, and each  *)
(* of its writes may fail.  A start takes no lock: the run it prepares is  *)
(* written by others as soon as they know it, the orchestrator that got a  *)
(* token and vichu cancel.                                                 *)
(***************************************************************************)
EXTENDS Naturals, Sequences, FiniteSets

CONSTANTS
  Attempts,     \* the calls of run start
  Op,           \* Op[p]: the op-id of a call, "" for none
  Task,         \* Task[p]: its task and workflow, which opFingerprint identifies
  Ids,          \* the run ids NewRunID can mint
  Cancellers,   \* the calls of vichu cancel
  DirtyTrees,   \* whether the tree may have uncommitted changes that requireCleanTree blocks
  Overlap,      \* a call is repeated while the first still runs
  Collisions,   \* NewRunID may mint an id twice (a random source that failed)
  MaxWork,      \* bound on the orchestrator's commands
  MaxMishaps    \* bound on the calls killed and the writes that fail

ASSUME IdsAssumption == Ids \cap {"", "free", "unfilled"} = {}
ASSUME CallsAssumption == "" \notin Attempts

VARIABLES
  reserved,     \* .vichu/operations/run-start/<op-id>.json
  runs,         \* .vichu/runs/<id>/: state.json, events.ndjson and the other inputs
  attempt,      \* the calls of run start
  driver,       \* the orchestrator's command, which holds the run's lock
  cancel,       \* the calls of vichu cancel
  minted,       \* history: the ids that were minted
  withdrawn,    \* history: the op-ids and run ids of reservations removed after they could be read
  intact,       \* history: no state was saved over another one than its writer knew
  mishaps       \* how much of the bound on mishaps is used

vars == <<reserved, runs, attempt, driver, cancel, minted, withdrawn, intact, mishaps>>
others == <<driver, cancel, withdrawn, mishaps>>

Ops == {Op[p] : p \in Attempts} \ {""}
Tasks == {Task[p] : p \in Attempts}
Inputs == {"workspace", "pack", "config"}

\* The three states of a reservation without a record: not there, or created and not filled.
Free == [id |-> "free", task |-> ""]
Unfilled == [id |-> "unfilled", task |-> ""]

NoState == [status |-> "none", task |-> "", hash |-> "", work |-> 0]
NoRun == [state |-> NoState, log |-> <<>>, inputs |-> {}]
Initial(p) == [status |-> "active", task |-> Task[p], hash |-> "", work |-> 0]

Idle == [pc |-> "off", id |-> "", seen |-> NoState]

Init ==
  /\ reserved = [o \in Ops |-> Free]
  /\ runs = [i \in Ids |-> NoRun]
  /\ attempt = [p \in Attempts |-> [pc |-> "off", id |-> "", mem |-> NoState, seen |-> NoState]]
  /\ driver = Idle
  /\ cancel = [c \in Cancellers |-> Idle]
  /\ minted = {} /\ withdrawn = {} /\ intact = TRUE /\ mishaps = 0

-----------------------------------------------------------------------------
(* The calls *)

Over(p) == attempt[p].pc \in {"done", "lost", "refused", "failed"}
Running(p) == attempt[p].pc # "off" /\ ~Over(p)
Reported(p) == attempt[p].pc = "done"

GoTo(p, pc) == attempt' = [attempt EXCEPT ![p] = [@ EXCEPT !.pc = pc]]
RunExists(i) == runs[i].state # NoState
Mishap == mishaps < MaxMishaps /\ mishaps' = mishaps + 1

\* The state of p's run is saved: what is replaced should be what p knew.
SaveState(p, st) ==
  LET i == attempt[p].id IN
  /\ runs' = [runs EXCEPT ![i].state = st]
  /\ intact' = (intact /\ runs[i].state = attempt[p].seen)

Begin(p) ==
  /\ attempt[p].pc = "off"
  /\ ~Overlap => \A q \in Attempts : ~Running(q)
  /\ GoTo(p, IF Op[p] = "" THEN "mint" ELSE "reserve")
  /\ UNCHANGED <<reserved, runs, minted, intact>> /\ UNCHANGED others

MintedFor(p, i) == (Collisions \/ i \notin minted) /\ minted' = minted \cup {i}

\* freshRunID
Mint(p) ==
  /\ attempt[p].pc = "mint"
  /\ \E i \in Ids : /\ ~RunExists(i) /\ MintedFor(p, i)
                    /\ attempt' = [attempt EXCEPT ![p] = [@ EXCEPT !.pc = "create", !.id = i]]
  /\ UNCHANGED <<reserved, runs, intact>> /\ UNCHANGED others

\* Mutant: the reservation is looked for and then made, without O_EXCL.
ReserveTwice(p) ==
  /\ attempt[p].pc = "reserve"
  /\ reserved[Op[p]] \in {Free, Unfilled}
  /\ reserved' = [reserved EXCEPT ![Op[p]] = Unfilled]
  /\ \E i \in Ids : /\ MintedFor(p, i)
                    /\ attempt' = [attempt EXCEPT ![p] = [@ EXCEPT !.pc = "fill", !.id = i]]
  /\ UNCHANGED <<runs, intact>> /\ UNCHANGED others

\* ReserveGlobalOperation creates the file of the op-id, if nobody has yet.
Reserve(p) ==
  /\ attempt[p].pc = "reserve"
  /\ reserved[Op[p]] = Free
  /\ reserved' = [reserved EXCEPT ![Op[p]] = Unfilled]
  /\ \E i \in Ids : /\ MintedFor(p, i)
                    /\ attempt' = [attempt EXCEPT ![p] = [@ EXCEPT !.pc = "fill", !.id = i]]
  /\ UNCHANGED <<runs, intact>> /\ UNCHANGED others

\* The record is written, and can be read from now on ...
Fill(p) ==
  /\ attempt[p].pc = "fill"
  /\ reserved' = [reserved EXCEPT ![Op[p]] = [id |-> attempt[p].id, task |-> Task[p]]]
  /\ GoTo(p, "sync")
  /\ UNCHANGED <<runs, minted, intact>> /\ UNCHANGED others

\* ... before it is known to stay: fsync and close.
Sync(p) ==
  /\ attempt[p].pc = "sync"
  /\ GoTo(p, "create")
  /\ UNCHANGED <<reserved, runs, minted, intact>> /\ UNCHANGED others

\* The write, the fsync or the close fails, and the file is removed.  (If it cannot be
\* removed it stays as it is, as after a crash here.)
FillFails(p) ==
  /\ attempt[p].pc \in {"fill", "sync"}
  /\ Mishap
  /\ reserved' = [reserved EXCEPT ![Op[p]] = Free]
  /\ withdrawn' = IF attempt[p].pc = "sync" THEN withdrawn \cup {<<Op[p], attempt[p].id>>} ELSE withdrawn
  /\ GoTo(p, "failed")
  /\ UNCHANGED <<runs, driver, cancel, minted, intact>>

\* The file is there already ...
Taken(p) ==
  /\ attempt[p].pc = "reserve"
  /\ reserved[Op[p]] # Free
  /\ GoTo(p, "read")
  /\ UNCHANGED <<reserved, runs, minted, intact>> /\ UNCHANGED others

\* ... and is read: removed meanwhile, not to be decoded, of another operation, or of this one.
Reuse(p) ==
  /\ attempt[p].pc = "read"
  /\ LET r == reserved[Op[p]] IN
     IF r \in {Free, Unfilled} \/ r.task # Task[p]
       THEN GoTo(p, "refused")
       ELSE attempt' = [attempt EXCEPT ![p] = [@ EXCEPT !.pc = "inspect", !.id = r.id]]
  /\ UNCHANGED <<reserved, runs, minted, intact>> /\ UNCHANGED others

\* completeRun, which reads the state first ...
Inspect(p) ==
  /\ attempt[p].pc = "inspect"
  /\ LET st == runs[attempt[p].id].state IN
     attempt' = [attempt EXCEPT ![p] =
                   [@ EXCEPT !.pc = IF st = NoState THEN "create" ELSE "check", !.mem = st, !.seen = st]]
  /\ UNCHANGED <<reserved, runs, minted, intact>> /\ UNCHANGED others

\* Mutant: every retry creates the run again.
CheckNever(p) ==
  /\ attempt[p].pc = "check"
  /\ GoTo(p, "create")
  /\ UNCHANGED <<reserved, runs, minted, intact>> /\ UNCHANGED others

\* Mutant: the state alone makes a run complete.
CheckState(p) ==
  /\ attempt[p].pc = "check"
  /\ GoTo(p, "token")
  /\ UNCHANGED <<reserved, runs, minted, intact>> /\ UNCHANGED others

\* ... and then looks for the inputs.
Check(p) ==
  /\ attempt[p].pc = "check"
  /\ GoTo(p, IF runs[attempt[p].id].inputs = Inputs THEN "token" ELSE "create")
  /\ UNCHANGED <<reserved, runs, minted, intact>> /\ UNCHANGED others

-----------------------------------------------------------------------------
(* createRun *)

Create(p) ==
  /\ attempt[p].pc = "create"
  /\ SaveState(p, Initial(p))
  /\ attempt' = [attempt EXCEPT ![p] = [@ EXCEPT !.pc = "announce", !.mem = Initial(p), !.seen = Initial(p)]]
  /\ UNCHANGED <<reserved, minted>> /\ UNCHANGED others

\* emitDurable(run_created)
Announce(p) ==
  /\ attempt[p].pc = "announce"
  /\ runs' = [runs EXCEPT ![attempt[p].id].log = Append(@, "run_created")]
  /\ GoTo(p, "workspace")
  /\ UNCHANGED <<reserved, minted, intact>> /\ UNCHANGED others

After == [workspace |-> "pack", pack |-> "config", config |-> "clean"]

SaveInput(p) ==
  /\ attempt[p].pc \in Inputs
  /\ runs' = [runs EXCEPT ![attempt[p].id].inputs = @ \cup {attempt[p].pc}]
  /\ GoTo(p, After[attempt[p].pc])
  /\ UNCHANGED <<reserved, minted, intact>> /\ UNCHANGED others

\* applyCleanTreePolicy, whose block adopts a cancel it finds.
CleanTree(p) ==
  /\ attempt[p].pc = "clean"
  /\ \E dirty \in DirtyTrees :
       LET status == IF runs[attempt[p].id].state.status = "canceled" THEN "canceled" ELSE "blocked" IN
       attempt' = [attempt EXCEPT ![p] =
         IF dirty THEN [@ EXCEPT !.pc = "block", !.mem.status = status]
                  ELSE [@ EXCEPT !.pc = "token"]]
  /\ UNCHANGED <<reserved, runs, minted, intact>> /\ UNCHANGED others

Block(p) ==
  /\ attempt[p].pc = "block"
  /\ SaveState(p, attempt[p].mem)
  /\ attempt' = [attempt EXCEPT ![p] = [@ EXCEPT !.pc = "token", !.seen = attempt[p].mem]]
  /\ UNCHANGED <<reserved, minted>> /\ UNCHANGED others

\* Mutant: the hash is put in the state after it was saved.
TokenLate(p) ==
  /\ attempt[p].pc = "token"
  /\ SaveState(p, attempt[p].mem)
  /\ GoTo(p, "answer")
  /\ UNCHANGED <<reserved, minted>> /\ UNCHANGED others

\* issueDriverToken saves the hash of a new token ...
Token(p) ==
  /\ attempt[p].pc = "token"
  /\ SaveState(p, [attempt[p].mem EXCEPT !.hash = p])
  /\ GoTo(p, "answer")
  /\ UNCHANGED <<reserved, minted>> /\ UNCHANGED others

\* ... and the command prints the token, the only time it exists.
Answer(p) ==
  /\ attempt[p].pc = "answer"
  /\ GoTo(p, "done")
  /\ UNCHANGED <<reserved, runs, minted, intact>> /\ UNCHANGED others

\* A write fails, and so does the call; the block of a dirty tree only warns.
WriteFails(p) ==
  /\ attempt[p].pc \in {"create", "announce", "block", "token"} \cup Inputs
  /\ Mishap
  /\ GoTo(p, IF attempt[p].pc = "block" THEN "token" ELSE "failed")
  /\ UNCHANGED <<reserved, runs, driver, cancel, minted, withdrawn, intact>>

\* A call that is killed with its token saved loses the answer.
Crash(p) ==
  /\ Running(p)
  /\ Mishap
  /\ GoTo(p, IF attempt[p].pc = "answer" THEN "lost" ELSE "failed")
  /\ UNCHANGED <<reserved, runs, driver, cancel, minted, withdrawn, intact>>

-----------------------------------------------------------------------------
(* The orchestrator and vichu cancel *)

Readable(i) == runs[i].log # <<>> /\ Head(runs[i].log) = "run_created"

\* A command of the orchestrator, with a token of one of its starts; requireDriver and
\* ValidateEventLog may refuse it.
Command ==
  /\ driver.pc = "off"
  /\ \E p \in Attempts :
       /\ Reported(p)
       /\ LET st == runs[attempt[p].id].state IN
          /\ st.hash = p /\ st.status = "active" /\ Readable(attempt[p].id)
          /\ st.work < MaxWork
          /\ driver' = [pc |-> "save", id |-> attempt[p].id, seen |-> st]
  /\ UNCHANGED <<reserved, runs, attempt, cancel, minted, withdrawn, intact, mishaps>>

Progress ==
  /\ driver.pc = "save"
  /\ runs' = [runs EXCEPT ![driver.id].state = [driver.seen EXCEPT !.work = @ + 1]]
  /\ intact' = (intact /\ runs[driver.id].state = driver.seen)
  /\ driver' = Idle
  /\ UNCHANGED <<reserved, attempt, cancel, minted, withdrawn, mishaps>>

LoadState(c) ==
  /\ cancel[c].pc = "off"
  /\ \E i \in Ids : /\ RunExists(i) /\ Readable(i)
                    /\ cancel' = [cancel EXCEPT ![c] = [pc |-> "save", id |-> i, seen |-> runs[i].state]]
  /\ UNCHANGED <<reserved, runs, attempt, driver, minted, withdrawn, intact, mishaps>>

CancelState(c) ==
  /\ cancel[c].pc = "save"
  /\ runs' = [runs EXCEPT ![cancel[c].id].state = [cancel[c].seen EXCEPT !.status = "canceled"]]
  /\ intact' = (intact /\ runs[cancel[c].id].state = cancel[c].seen)
  /\ cancel' = [cancel EXCEPT ![c].pc = "done"]
  /\ UNCHANGED <<reserved, attempt, driver, minted, withdrawn, mishaps>>

-----------------------------------------------------------------------------
(* The specification *)

Call(p) ==
  \/ Begin(p) \/ Mint(p) \/ Reserve(p) \/ Fill(p) \/ Sync(p) \/ Taken(p) \/ Reuse(p) \/ Inspect(p) \/ Check(p)
  \/ Create(p) \/ Announce(p) \/ SaveInput(p) \/ CleanTree(p) \/ Block(p)
  \/ Token(p) \/ Answer(p)

Next ==
  \/ \E p \in Attempts : Call(p) \/ FillFails(p) \/ WriteFails(p) \/ Crash(p)
  \/ Command \/ Progress
  \/ \E c \in Cancellers : LoadState(c) \/ CancelState(c)

Spec == Init /\ [][Next]_vars

-----------------------------------------------------------------------------
(* Properties *)

States ==
  [status : {"none", "active", "blocked", "canceled"}, task : Tasks \cup {""}, hash : Attempts \cup {""}, work : Nat]

Places ==
  {"off", "mint", "reserve", "fill", "sync", "read", "inspect", "check", "create", "announce", "clean", "block", "token",
   "answer", "done", "lost", "refused", "failed"} \cup Inputs

ReservationType == reserved \in [Ops -> [id : minted \cup {"free", "unfilled"}, task : Tasks \cup {""}]]
RunType == runs \in [Ids -> [state : States, log : Seq({"run_created"}), inputs : SUBSET Inputs]]
AttemptType == attempt \in [Attempts -> [pc : Places, id : minted \cup {""}, mem : States, seen : States]]
OtherTypes ==
  /\ driver \in [pc : {"off", "save"}, id : Ids \cup {""}, seen : States]
  /\ cancel \in [Cancellers -> [pc : {"off", "save", "done"}, id : Ids \cup {""}, seen : States]]

TypeOK ==
  /\ ReservationType /\ RunType /\ AttemptType /\ OtherTypes
  /\ minted \subseteq Ids /\ withdrawn \subseteq Ops \X Ids /\ intact \in BOOLEAN /\ mishaps \in Nat

SameRun(p, q) == attempt[p].id = attempt[q].id /\ Task[p] = Task[q]

\* StartRun: as the comment of ReserveGlobalOperation has it, the calls of one operation that
\* report a run report the same one, and are calls for one task.  The code keeps that as long
\* as a call is only repeated when the one before has ended.
OneRunPerOpId ==
  \A p, q \in Attempts :
    Reported(p) /\ Reported(q) /\ Op[p] = Op[q] /\ Op[p] # "" => SameRun(p, q)

\* StartRun: whatever was killed and whoever overlapped, two runs are reported under one op-id
\* only if the reservation of one of them was removed after another call could read it.
OneRunUnlessWithdrawn ==
  \A p, q \in Attempts :
    /\ Reported(p) /\ Reported(q) /\ Op[p] = Op[q] /\ Op[p] # ""
    /\ <<Op[p], attempt[p].id>> \notin withdrawn /\ <<Op[q], attempt[q].id>> \notin withdrawn
    => SameRun(p, q)

\* createRun and completeRun: a run that was reported has everything a resume, a drift
\* check and the next command read.
ReportedRunIsWhole ==
  \A p \in Attempts : Reported(p) =>
    RunExists(attempt[p].id) /\ Readable(attempt[p].id) /\ runs[attempt[p].id].inputs = Inputs

\* issueDriverToken: when all calls have ended, the token of an answer drives the run that
\* was reported, unless the call that issued the last one was killed before it answered; as
\* long as no save was overtaken.
AnswerHoldsTheKey ==
  intact /\ (\A p \in Attempts : ~Running(p)) =>
    \A p \in Attempts : Reported(p) =>
      LET hash == runs[attempt[p].id].state.hash IN
      hash # "" /\ attempt[hash].pc \in {"done", "lost"} /\ attempt[hash].id = attempt[p].id

\* completeRun: a repeated start takes back neither the work done on the run nor, once
\* it has a token, its cancel, unless it was overtaken between its read and its write.
\* (A run canceled while it is incomplete is created again, and is active then.)
RepeatKeepsTheRun ==
  [][\A i \in Ids : intact' =>
       /\ runs'[i].state.work >= runs[i].state.work
       /\ runs[i].state.status = "canceled" /\ runs[i].state.hash # "" =>
            runs'[i].state.status = "canceled"]_runs

=============================================================================

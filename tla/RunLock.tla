------------------------------- MODULE RunLock -------------------------------
(***************************************************************************)
(* The run lock of internal/runtime/lock.go: one lock.json per run, taken  *)
(* by every host-first command, by the headless loop and by the installer, *)
(* renewed by a heartbeat and reclaimed when its owner looks gone.         *)
(*                                                                         *)
(* One element of Procs is one vichu process: it takes the lock at most    *)
(* once, so the process itself stands for the token it mints.  A process   *)
(* that was told ErrLocked may be run again; its token never reached the   *)
(* disk, so the same element stands for the new attempt.  Every file       *)
(* operation is one step: hard links, removals and renames are atomic, and *)
(* what happens between two of them is up to the other processes.          *)
(***************************************************************************)
EXTENDS Naturals, FiniteSets

CONSTANTS
  Procs,     \* the processes that want the run
  Hosts,     \* the machines they run on
  HostOf,    \* the machine of each process
  MayStall,  \* the processes that may miss their heartbeat for a whole TTL
  NoLock     \* lock.json is absent

ASSUME HostAssumption == HostOf \in [Procs -> Hosts]
ASSUME StallAssumption == MayStall \subseteq Procs
ASSUME NoLockAssumption == NoLock \notin Procs /\ NoLock \notin [owner : Procs, fresh : BOOLEAN]

VARIABLES
  lock,        \* lock.json: NoLock, or its token and whether its heartbeat is within the TTL
  pc,          \* where each process is in acquireLock, Heartbeat and Release
  seen,        \* what the process's last InspectLock, Heartbeat or Release read
  misdirected  \* history: an unlink or a write hit another lock than the one checked before it

vars == <<lock, pc, seen, misdirected>>

Locks == [owner : Procs, fresh : BOOLEAN]

\* idle: not started;  inspect, remove, relink: inside acquireLock after the
\* fast path failed;  held: owns the run;  renew, unlink: inside Heartbeat and
\* Release, between the read and the write;  lost: told ErrLockLost.
States == {"idle", "inspect", "remove", "relink", "locked", "held", "renew",
           "unlink", "lost", "done", "dead"}

Goto(p, s) == pc' = [pc EXCEPT ![p] = s]

\* Mutant: whole locks are compared, heartbeat included, and not their tokens.
WholeLock == lock

Token == IF lock = NoLock THEN NoLock ELSE lock.owner

Dead(p) == pc[p] = "dead"

\* A process that acts as the owner of the run.
Believes(p) == pc[p] \in {"held", "renew", "unlink"}

Init ==
  /\ lock = NoLock
  /\ pc = [p \in Procs |-> "idle"]
  /\ seen = [p \in Procs |-> NoLock]
  /\ misdirected = FALSE

-----------------------------------------------------------------------------
\* Mutant: a process that cannot be probed counts as gone.
OwnerAliveHere(p, q) == HostOf[q] = HostOf[p] /\ ~Dead(q)

\* The owner's heartbeat expired, or its process is gone.  A process on another
\* machine cannot be probed and counts as alive.
OwnerAlive(p, q) == HostOf[q] # HostOf[p] \/ ~Dead(q)

\* Mutant: the heartbeat's age is not looked at.
OrphanedByPid(p) == ~OwnerAlive(p, lock.owner)

Orphaned(p) == ~lock.fresh \/ ~OwnerAlive(p, lock.owner)

\* What a process writes to lock.json when it takes or renews the lock.
FreshLock(p) == [owner |-> p, fresh |-> TRUE]

\* The hard link of a complete temporary file: it never replaces a lock.
LinkInto(p) ==
  /\ lock = NoLock
  /\ lock' = FreshLock(p)
  /\ Goto(p, "held")
  /\ UNCHANGED <<seen, misdirected>>

\* An unlink of lock.json, whatever the file holds by now.
UnlinkLock(p) ==
  /\ lock' = NoLock
  /\ misdirected' = (misdirected \/ (lock # NoLock /\ Token # seen[p]))
  /\ UNCHANGED seen

FastPath(p) == pc[p] \in {"idle", "locked"} /\ LinkInto(p)

FastPathTaken(p) ==
  /\ pc[p] \in {"idle", "locked"}
  /\ lock # NoLock
  /\ Goto(p, "inspect")
  /\ UNCHANGED <<lock, seen, misdirected>>

Inspect(p) ==
  /\ pc[p] = "inspect"
  /\ IF lock # NoLock /\ ~Orphaned(p)
       THEN Goto(p, "locked") /\ UNCHANGED seen
       ELSE Goto(p, "remove") /\ seen' = [seen EXCEPT ![p] = Token]
  /\ UNCHANGED <<lock, misdirected>>

RemoveOrphan(p) ==
  /\ pc[p] = "remove"
  /\ UnlinkLock(p)
  /\ Goto(p, "relink")

Relink(p) == pc[p] = "relink" /\ LinkInto(p)

RelinkTaken(p) ==
  /\ pc[p] = "relink"
  /\ lock # NoLock
  /\ Goto(p, "locked")
  /\ UNCHANGED <<lock, seen, misdirected>>

\* Mutant: a heartbeat that finds another token gives up silently.
HeartbeatKeepsOn(p) ==
  /\ pc[p] = "held"
  /\ Goto(p, IF Token = p THEN "renew" ELSE "held")
  /\ seen' = [seen EXCEPT ![p] = Token]
  /\ UNCHANGED <<lock, misdirected>>

HeartbeatRead(p) ==
  /\ pc[p] = "held"
  /\ Goto(p, IF Token = p THEN "renew" ELSE "lost")
  /\ seen' = [seen EXCEPT ![p] = Token]
  /\ UNCHANGED <<lock, misdirected>>

\* writeJSON renames a new file over lock.json: it creates or replaces it.
HeartbeatWrite(p) ==
  /\ pc[p] = "renew"
  /\ lock' = FreshLock(p)
  /\ misdirected' = (misdirected \/ Token # seen[p])
  /\ Goto(p, "held")
  /\ UNCHANGED seen

ReleaseRead(p) ==
  /\ pc[p] \in {"held", "lost"}
  /\ Goto(p, IF Token = p THEN "unlink" ELSE "done")
  /\ seen' = [seen EXCEPT ![p] = Token]
  /\ UNCHANGED <<lock, misdirected>>

ReleaseUnlink(p) ==
  /\ pc[p] = "unlink"
  /\ UnlinkLock(p)
  /\ Goto(p, "done")

\* The process is killed: its lock stays behind.
Die(p) ==
  /\ pc[p] \notin {"done", "dead"}
  /\ Goto(p, "dead")
  /\ UNCHANGED <<lock, seen, misdirected>>

\* HeartbeatTTL passes without a renewal.
Expire ==
  /\ lock # NoLock
  /\ lock.fresh
  /\ Dead(lock.owner) \/ lock.owner \in MayStall
  /\ lock' = [lock EXCEPT !.fresh = FALSE]
  /\ UNCHANGED <<pc, seen, misdirected>>

Acquiring(p) ==
  \/ FastPath(p) \/ FastPathTaken(p)
  \/ Inspect(p) \/ RemoveOrphan(p)
  \/ Relink(p) \/ RelinkTaken(p)

Beating(p) == HeartbeatRead(p) \/ HeartbeatWrite(p)

Releasing(p) == ReleaseRead(p) \/ ReleaseUnlink(p)

Next ==
  \/ \E p \in Procs : Acquiring(p) \/ Beating(p) \/ Releasing(p) \/ Die(p)
  \/ Expire

Spec == Init /\ [][Next]_vars

\* Commands make progress and are run again while the run is locked; the heartbeat
\* goroutine is scheduled; an owner's command comes to its Release; time passes.
\* Nothing says that a process that was displaced ever reaches its Release.
FairSpec ==
  /\ Spec
  /\ WF_vars(Expire)
  /\ \A p \in Procs : /\ WF_vars(Acquiring(p)) /\ WF_vars(Beating(p))
                       /\ SF_vars(Token = p /\ ReleaseRead(p)) /\ WF_vars(ReleaseUnlink(p))

-----------------------------------------------------------------------------
(* Invariants *)

TypeOK ==
  /\ lock \in Locks \cup {NoLock}
  /\ pc \in [Procs -> States]
  /\ seen \in [Procs -> Procs \cup {NoLock}]
  /\ misdirected \in BOOLEAN

\* A stale-looking lock belongs to a process that is dead or that missed its heartbeat.
StaleOwnersAreGone == lock # NoLock /\ ~lock.fresh => Dead(lock.owner) \/ lock.owner \in MayStall

\* A process about to remove an orphan saw one: an absent lock, or one whose owner
\* was already dead or had missed its heartbeat.
ReclaimsOnlyOrphans ==
  \A p \in Procs : pc[p] = "remove" /\ seen[p] # NoLock => Dead(seen[p]) \/ seen[p] \in MayStall

\* Inside Heartbeat and Release the token read is the process's own.
ReadsOwnToken == \A p \in Procs : pc[p] \in {"renew", "unlink"} => seen[p] = p

\* Until some check-then-act pair is overtaken, a process that keeps its
\* heartbeat and acts as the owner has its own token on disk.
OwnersHoldTheFile ==
  ~misdirected => \A p \in Procs \ MayStall : Believes(p) => lock # NoLock /\ lock.owner = p

\* lock.go: the run has one owner.  As long as no unlink or renewal lands on
\* another lock than the one the process checked, two processes that keep their
\* heartbeat never both act as the owner, however many processes crash or reclaim.
ExclusiveUnlessMisdirected ==
  ~misdirected => \A p, q \in Procs \ MayStall : Believes(p) /\ Believes(q) => p = q

\* lock.go's comments on acquireLock, unconditionally: "two racing processes can
\* never both believe they own the run".
Exclusive == \A p, q \in Procs \ MayStall : Believes(p) /\ Believes(q) => p = q

-----------------------------------------------------------------------------
(* Temporal properties *)

\* A crashed owner never wedges the run: whoever keeps trying gets it or dies.
EveryCallerIsServed ==
  \A p \in Procs : (pc[p] = "inspect") ~> (pc[p] \in {"held", "done", "dead"})

\* A process whose lock was taken over does not act as the owner for ever: its
\* heartbeat tells it, unless it dies or ends first.
DisplacedOwnerNotices ==
  \A p \in Procs : (Believes(p) /\ Token # p) ~> (~Believes(p) \/ Token = p)
=============================================================================

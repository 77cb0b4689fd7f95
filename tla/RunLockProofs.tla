---------------------------- MODULE RunLockProofs ----------------------------
(***************************************************************************)
(* The run lock for any set of processes: type correctness and exclusivity *)
(* up to the first check-then-act pair that another process overtakes.     *)
(***************************************************************************)
EXTENDS RunLock, TLAPS

\* Why exclusivity holds: a reclaimer only removes what it saw orphaned, only the
\* dead and the stalled are ever seen orphaned, and a removal that hits what it
\* saw therefore never takes the file of an owner that keeps its heartbeat.
LockInv ==
  /\ TypeOK
  /\ StaleOwnersAreGone
  /\ ReclaimsOnlyOrphans
  /\ ReadsOwnToken
  /\ OwnersHoldTheFile

\* A lock that was just written is a lock, of the process that wrote it.
LEMMA FreshLockFacts ==
  ASSUME NEW p \in Procs
  PROVE  /\ FreshLock(p) \in Locks
         /\ FreshLock(p) # NoLock
         /\ FreshLock(p).owner = p
         /\ FreshLock(p).fresh
<1>1. FreshLock(p) \in Locks /\ FreshLock(p).owner = p /\ FreshLock(p).fresh
  BY DEF FreshLock, Locks
<1> QED BY <1>1, NoLockAssumption DEF Locks

\* Nobody owns a lock that is not there.
LEMMA InitEstablishesLockInv == Init => LockInv
BY NoLockAssumption
   DEF Init, LockInv, TypeOK, Locks, States, StaleOwnersAreGone, ReclaimsOnlyOrphans,
       ReadsOwnToken, OwnersHoldTheFile, Believes

\* Every step of the lock protocol keeps its types.
LEMMA TypeStep == TypeOK /\ [Next]_vars => TypeOK'
<1> SUFFICES ASSUME TypeOK, [Next]_vars PROVE TypeOK'
  OBVIOUS
<1> USE NoLockAssumption DEF TypeOK, Locks, States, Goto, Token
<1>1. ASSUME NEW p \in Procs, Acquiring(p) PROVE TypeOK'
  <2>1. CASE FastPath(p) \/ Relink(p)
    BY <2>1, FreshLockFacts DEF FastPath, Relink, LinkInto
  <2>2. CASE RemoveOrphan(p)
    <3>1. misdirected' \in BOOLEAN
      BY <2>2, Zenon DEF RemoveOrphan, UnlinkLock
    <3> QED BY <2>2, <3>1 DEF RemoveOrphan, UnlinkLock
  <2>3. CASE FastPathTaken(p) \/ RelinkTaken(p)
    BY <2>3 DEF FastPathTaken, RelinkTaken
  <2>4. CASE Inspect(p)
    BY <2>4 DEF Inspect
  <2> QED BY <1>1, <2>1, <2>2, <2>3, <2>4 DEF Acquiring
<1>2. ASSUME NEW p \in Procs, Beating(p) PROVE TypeOK'
  <2>1. CASE HeartbeatRead(p)
    BY <2>1 DEF HeartbeatRead
  <2>2. CASE HeartbeatWrite(p)
    <3>1. misdirected' \in BOOLEAN
      BY <2>2, Zenon DEF HeartbeatWrite
    <3> QED BY <2>2, <3>1, FreshLockFacts DEF HeartbeatWrite
  <2> QED BY <1>2, <2>1, <2>2 DEF Beating
<1>3. ASSUME NEW p \in Procs, Releasing(p) PROVE TypeOK'
  BY <1>3 DEF Releasing, ReleaseRead, ReleaseUnlink, UnlinkLock
<1>4. ASSUME NEW p \in Procs, Die(p) PROVE TypeOK'
  BY <1>4 DEF Die
<1>5. CASE Expire
  BY <1>5 DEF Expire
<1>6. CASE UNCHANGED vars
  BY <1>6 DEF vars
<1> QED BY <1>1, <1>2, <1>3, <1>4, <1>5, <1>6 DEF Next

\* No step of a process, nor its death, breaks the invariant.
LEMMA LockInvStep == LockInv /\ [Next]_vars => LockInv'
<1> SUFFICES ASSUME LockInv, [Next]_vars PROVE LockInv'
  OBVIOUS
<1>0. TypeOK'
  BY TypeStep DEF LockInv
<1> USE NoLockAssumption, <1>0
    DEF LockInv, TypeOK, Locks, States, StaleOwnersAreGone, ReclaimsOnlyOrphans,
        ReadsOwnToken, OwnersHoldTheFile, Believes, Dead, Goto, Token
<1>1. ASSUME NEW p \in Procs, pc[p] \in {"idle", "locked", "relink"}, LinkInto(p)
      PROVE LockInv'
  <2>1. \A q \in Procs \ MayStall : ~misdirected => ~Believes(q)
    BY <1>1 DEF LinkInto
  <2>2. OwnersHoldTheFile'
    BY <1>1, <2>1, FreshLockFacts DEF LinkInto
  <2>3. StaleOwnersAreGone'
    BY <1>1, FreshLockFacts DEF LinkInto
  <2>4. ReclaimsOnlyOrphans' /\ ReadsOwnToken'
    BY <1>1 DEF LinkInto
  <2> QED BY <2>2, <2>3, <2>4
<1>2. ASSUME NEW p \in Procs, FastPathTaken(p) PROVE LockInv'
  BY <1>2 DEF FastPathTaken
<1>3. ASSUME NEW p \in Procs, Inspect(p) PROVE LockInv'
  BY <1>3 DEF Inspect, Orphaned, OwnerAlive
<1>4. ASSUME NEW p \in Procs, RemoveOrphan(p) PROVE LockInv'
  <2>1. ASSUME NEW q \in Procs \ MayStall, Believes(q)', ~misdirected' PROVE FALSE
    <3>1. q # p /\ Believes(q) /\ ~misdirected
      BY <1>4, <2>1 DEF RemoveOrphan, UnlinkLock
    <3>2. lock # NoLock /\ lock.owner = q /\ seen[p] = q
      BY <1>4, <2>1, <3>1 DEF RemoveOrphan, UnlinkLock
    <3> QED BY <1>4, <2>1, <3>1, <3>2 DEF RemoveOrphan
  <2>2. OwnersHoldTheFile'
    BY <2>1
  <2>3. StaleOwnersAreGone' /\ ReclaimsOnlyOrphans' /\ ReadsOwnToken'
    BY <1>4 DEF RemoveOrphan, UnlinkLock
  <2> QED BY <2>2, <2>3
<1>5. ASSUME NEW p \in Procs, RelinkTaken(p) PROVE LockInv'
  BY <1>5 DEF RelinkTaken
<1>6. ASSUME NEW p \in Procs, HeartbeatRead(p) PROVE LockInv'
  BY <1>6 DEF HeartbeatRead
<1>7. ASSUME NEW p \in Procs, HeartbeatWrite(p) PROVE LockInv'
  <2>1. ASSUME NEW q \in Procs \ MayStall, Believes(q)', ~misdirected' PROVE q = p
    <3>1. Believes(q) /\ ~misdirected /\ Token = p
      BY <1>7, <2>1 DEF HeartbeatWrite
    <3> QED BY <2>1, <3>1
  <2>2. OwnersHoldTheFile'
    BY <1>7, <2>1, FreshLockFacts DEF HeartbeatWrite
  <2>3. StaleOwnersAreGone' /\ ReclaimsOnlyOrphans' /\ ReadsOwnToken'
    BY <1>7, FreshLockFacts DEF HeartbeatWrite
  <2> QED BY <2>2, <2>3
<1>8. ASSUME NEW p \in Procs, ReleaseRead(p) PROVE LockInv'
  BY <1>8 DEF ReleaseRead
<1>9. ASSUME NEW p \in Procs, ReleaseUnlink(p) PROVE LockInv'
  <2>1. ASSUME NEW q \in Procs \ MayStall, Believes(q)', ~misdirected' PROVE FALSE
    <3>1. q # p /\ Believes(q) /\ ~misdirected
      BY <1>9, <2>1 DEF ReleaseUnlink, UnlinkLock
    <3>2. lock # NoLock /\ lock.owner = q /\ seen[p] = q
      BY <1>9, <2>1, <3>1 DEF ReleaseUnlink, UnlinkLock
    <3> QED BY <1>9, <3>1, <3>2 DEF ReleaseUnlink
  <2> QED BY <1>9, <2>1 DEF ReleaseUnlink, UnlinkLock
<1>10. ASSUME NEW p \in Procs, Die(p) PROVE LockInv'
  BY <1>10 DEF Die
<1>11. CASE Expire
  BY <1>11 DEF Expire
<1>12. CASE UNCHANGED vars
  BY <1>12 DEF vars
<1> QED BY <1>1, <1>2, <1>3, <1>4, <1>5, <1>6, <1>7, <1>8, <1>9, <1>10, <1>11, <1>12
        DEF Next, Acquiring, Beating, Releasing, FastPath, Relink

\* The lock's state is well typed for every set of processes and machines.
THEOREM RunLockTypeCorrect == Spec => []TypeOK
<1>1. Init => TypeOK
  BY InitEstablishesLockInv DEF LockInv
<1> QED BY <1>1, TypeStep, PTL DEF Spec

\* However many processes acquire, renew, release, crash or reclaim the lock of a
\* run, two that keep their heartbeat never both act as its owner, unless an
\* unlink or a renewal hit another lock than the one the process had checked.
THEOREM RunLockExclusive == Spec => []ExclusiveUnlessMisdirected
<1>1. LockInv => ExclusiveUnlessMisdirected
  BY DEF LockInv, OwnersHoldTheFile, ExclusiveUnlessMisdirected
<1> QED BY <1>1, InitEstablishesLockInv, LockInvStep, PTL DEF Spec
=============================================================================

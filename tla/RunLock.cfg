CONSTANTS
  p1 = p1  p2 = p2  p3 = p3  h1 = h1  h2 = h2
  NoLock = NoLock
  Procs <- MCThree
  Hosts <- MCHosts
  HostOf <- MCHostOf
  MayStall = {p2}
SPECIFICATION FairSpec
INVARIANTS TypeOK ExclusiveUnlessMisdirected
PROPERTIES EveryCallerIsServed DisplacedOwnerNotices
CHECK_DEADLOCK FALSE

SPECIFICATION FairSpec
CONSTANTS
  Conns = {c1, c2}
  Fds = {f1, f2}
  Free = Free
  Other = Other
INVARIANTS ListenerTypeOK LiveFdsAreOurs NothingOutlivesStop
PROPERTIES StopReturns

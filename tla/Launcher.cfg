\* Two servers, two signals, a path in use before: takeovers, kills at every step.  A
\* server that nobody signals waits for ever: that is no deadlock.
SPECIFICATION FairSpec
CONSTANTS
  Proc = {p1, p2}
  None = None
  Earlier = Earlier
  MaxSignals = 2
INVARIANTS
  TypeOK
  AloneGetsThePath
  NewestIsReachable
  LauncherOutlivesServer
PROPERTIES
  SignalStopsServer
CHECK_DEADLOCK FALSE

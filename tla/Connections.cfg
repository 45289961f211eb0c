\* Two connections over either transport and channels of one slot: overload,
\* blocking, hang-ups, turns; fair tasks and clients that read.
SPECIFICATION FairSpec
CONSTANTS
  busy = busy
  other = other
  Conn = {busy, other}
  Method = {"initialize", "call", "turn", "notice"}
  Uses <- MCUses
  MaxRequests <- MCRequests
  Transport = {"stdio", "socket"}
  Capacity = 1
  Chatter = 1
INVARIANTS
  TypeOK
  EveryRequestOnce
  SessionGate
  NothingLeaks
PROPERTIES
  ImplementsRequests
  EveryRequestAnswered
  ClosedIsForgotten

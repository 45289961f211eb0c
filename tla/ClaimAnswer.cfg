\* What a client reads of a turn, and in which order.
SPECIFICATION Spec
CONSTANTS
  busy = busy
  other = other
  Conn = {busy, other}
  Method = {"initialize", "call", "turn", "notice"}
  Uses <- MCUses
  MaxRequests <- MCRequests
  Transport = {"stdio", "socket"}
  Capacity = 1
  Chatter = 1
INVARIANTS
  AnswerLeadsStream

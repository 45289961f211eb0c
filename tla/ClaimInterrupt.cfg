\* An interrupt between the two critical sections of the end of a turn.
SPECIFICATION Spec
CONSTANTS
  Thread = {h1}
  Turn = {t1}
  Session = {s1}
  Mode = {ask, accept}
  Content = {hello}
  None = None
  LooseStdio = FALSE
  MaxRequests = 3
  MaxLines = 1
INVARIANTS
  InterruptAnswerHolds

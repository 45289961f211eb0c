\* Two threads, two turns: handlers, runners and cancellation, fork included.
SPECIFICATION Spec
CONSTANTS
  Thread = {h1, h2}
  Turn = {t1, t2}
  Session = {s1}
  Mode = {ask}
  Content = {hello}
  None = None
  LooseStdio = FALSE
  MaxRequests = 4
  MaxLines = 1
SYMMETRY Interchangeable
INVARIANTS
  TypeOK
  RunnerOwnsActive
  WellFormedStream
  VerdictTellsOutcome
  ConversationContinues
PROPERTIES
  FinishedTurnFrozen
  ImplementsService

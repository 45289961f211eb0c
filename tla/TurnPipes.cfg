\* One thread, two turns, two sessions; pipes that close early or late.
SPECIFICATION Spec
CONSTANTS
  Thread = {h1}
  Turn = {t1, t2}
  Session = {s1, s2}
  Mode = {ask}
  Content = {hello}
  None = None
  LooseStdio = TRUE
  MaxRequests = 3
  MaxLines = 2
SYMMETRY Interchangeable
INVARIANTS
  OrphanOnlyAfterFailure
  ConversationContinues

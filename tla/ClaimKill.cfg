\* An interrupt of a turn whose claude stopped reading or closed its stdout.
SPECIFICATION FairSpec
CONSTANTS
  Thread = {h1}
  Turn = {t1}
  Session = {s1}
  Mode = {ask, accept}
  Content = {hello}
  None = None
  LooseStdio = TRUE
  MaxRequests = 3
  MaxLines = 1
PROPERTIES
  InterruptKillsClaude

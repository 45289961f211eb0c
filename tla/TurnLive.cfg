\* Fair tasks: what must happen after an interrupt and after the end of claude.
SPECIFICATION FairSpec
CONSTANTS
  Thread = {h1}
  Turn = {t1, t2}
  Session = {s1}
  Mode = {ask}
  Content = {hello}
  None = None
  LooseStdio = FALSE
  MaxRequests = 3
  MaxLines = 1
PROPERTIES
  InterruptEndsTurn
  InterruptKillsClaude
  ExitGivesVerdict

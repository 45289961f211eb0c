\* A prompt and an output longer than a pipe; claude may fill both pipes before it reads.
SPECIFICATION FairSpec
CONSTANTS
  Prompt = 3
  Capacity = 2
  MaxLines = 3
  MaxErrors = 3
INVARIANTS
  TypeOK
  PromptWhole
  OutputAllRead
  OneCircularWait
PROPERTIES
  InterruptEndsTurn
  TurnEnds

\* Texts, thinking and tool calls at two indexes, streamed or final.
SPECIFICATION Spec
CONSTANTS
  First = x
  Second = y
  Text <- ShortText
  Index = {0, 1}
  Msg = {m1}
  Bash = {bash}
  TodoWrite = {todo}
  OtherTool = {}
  MaxLines = 5
INVARIANTS
  TypeOK
  CompletedTextIsWhole
  ClientAgreesWithServer
  ToolItemsAddUp
  PlanUpdatedOnce
  ProgressAddsUp

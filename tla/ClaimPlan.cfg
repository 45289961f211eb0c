\* A TodoWrite call that is streamed: its input comes after its start.
SPECIFICATION Spec
CONSTANTS
  First = x
  Second = y
  Text = {}
  Index = {0}
  Msg = {m1}
  Bash = {}
  TodoWrite = {todo}
  OtherTool = {}
  MaxLines = 3
INVARIANTS
  TodosUpdatePlan

---------------------------- MODULE ClaudePipes ----------------------------
(***************************************************************************)
(* One turn's claude and the three pipes between it and the server.  The   *)
(* runner writes the whole prompt before anything reads claude's output:   *)
(* the read loop, the task that drains stderr and the one that waits for   *)
(* the cancel token all start after the last byte of the prompt.  A pipe   *)
(* holds a bounded number of chunks, and a chunk of output is a line.      *)
(* claude may write at any time, before it has read its prompt as well.    *)
(*                                                                         *)
(* Here claude closes its pipes by ending.  What happens when it closes    *)
(* them earlier, and the lock of the child, are TurnLifecycle's subject.   *)
(***************************************************************************)
EXTENDS Integers

CONSTANTS
  Prompt,     \* chunks of the prompt
  Capacity,   \* chunks a pipe holds
  MaxLines,   \* bound: lines claude writes to stdout
  MaxErrors   \* bound: lines claude writes to stderr

ASSUME SizeAssumption ==
  Prompt \in Nat /\ Capacity \in Nat \ {0} /\ MaxLines \in Nat /\ MaxErrors \in Nat

VARIABLES
  up,         \* is the server running?
  runner,     \* what the runner does: write the prompt, read lines, or nothing more
  given,      \* chunks of the prompt written
  heard,      \* lines read from stdout
  drain,      \* the task that reads stderr
  drained,    \* lines it read
  canceller,  \* the cancellation task
  asked,      \* the turn's cancel token
  claude,     \* the process
  doing,      \* the operation claude is in, blocked or not
  taken,      \* chunks of the prompt claude has read
  sawEnd,     \* has claude seen the end of its stdin?
  told,       \* lines claude wrote to stdout
  errors      \* lines claude wrote to stderr

taskVars   == <<drain, drained, canceller>>
claudeVars == <<claude, doing, taken, sawEnd, told, errors>>
serverVars == <<up, runner, given, heard, taskVars, asked>>
vars == <<serverVars, claudeVars>>

Init ==
  /\ up = TRUE /\ runner = "write" /\ given = 0 /\ heard = 0
  /\ drain = "none" /\ drained = 0 /\ canceller = "none" /\ asked = FALSE
  /\ claude = "running" /\ doing = "think" /\ taken = 0 /\ sawEnd = FALSE
  /\ told = 0 /\ errors = 0

\* The server's ends of the pipes: who holds them decides whether they are open.
\* Its end of stderr belongs to the runner until the drain is spawned with it.
StdinOpen  == up /\ runner = "write"
StdoutOpen == up /\ runner \in {"write", "read"}
StderrLeftOpen == up /\ (runner \in {"write", "read"} \/ drain = "reading")
StderrOpen == up /\ (runner = "write" \/ drain = "reading")

-----------------------------------------------------------------------------
(* The runner.                                                             *)

WriteChunk ==
  /\ up /\ runner = "write" /\ given < Prompt
  /\ claude = "running" /\ given - taken < Capacity
  /\ given' = given + 1
  /\ UNCHANGED <<up, runner, heard, taskVars, asked, claudeVars>>

\* claude is gone: the broken pipe fails the turn.
WriteFails ==
  /\ up /\ runner = "write" /\ given < Prompt /\ claude = "dead"
  /\ runner' = "failed"
  /\ UNCHANGED <<up, given, heard, taskVars, asked, claudeVars>>

WrittenSome == given > 0
Written == given = Prompt

ArmedUnlessAsked == IF asked THEN "gone" ELSE "armed"
Armed == "armed"

\* write_all returned: stdin is dropped, and only now the two tasks exist.
PromptWritten ==
  /\ up /\ runner = "write" /\ Written
  /\ runner' = "read"
  /\ drain' = "reading"
  /\ canceller' = Armed
  /\ UNCHANGED <<up, given, heard, drained, asked, claudeVars>>

LinesOrEnd == heard <= told
Lines == heard < told

ReadLine ==
  /\ up /\ runner = "read" /\ Lines
  /\ heard' = heard + 1
  /\ UNCHANGED <<up, runner, given, taskVars, asked, claudeVars>>

\* A line that is no UTF-8 ends the turn; the runner's end of stdout is dropped.
BadLine ==
  /\ up /\ runner = "read" /\ Lines
  /\ runner' = "failed"
  /\ UNCHANGED <<up, given, heard, taskVars, asked, claudeVars>>

ExitSeen == claude = "dead"
EndOfOutput == claude = "dead" /\ heard = told

\* The end of stdout, then the exit status; the cancellation task is aborted.
Reap ==
  /\ up /\ runner = "read" /\ EndOfOutput
  /\ runner' = "ended"
  /\ canceller' = "gone"
  /\ UNCHANGED <<up, given, heard, drain, drained, asked, claudeVars>>

-----------------------------------------------------------------------------
(* The task that drains stderr, and the cancellation task.                 *)

DrainLine ==
  /\ up /\ drain = "reading" /\ drained < errors
  /\ drained' = drained + 1
  /\ UNCHANGED <<up, runner, given, heard, drain, canceller, asked, claudeVars>>

\* The drain ends with stderr, or with the first line that is no UTF-8.
DrainEnds ==
  /\ up /\ drain = "reading"
  /\ drained < errors \/ claude = "dead"
  /\ drain' = "gone"
  /\ UNCHANGED <<up, runner, given, heard, drained, canceller, asked, claudeVars>>

\* turn/interrupt, while the turn is active.
Interrupt ==
  /\ up /\ runner \in {"write", "read"}
  /\ asked' = TRUE
  /\ UNCHANGED <<up, runner, given, heard, taskVars, claudeVars>>

Kill ==
  /\ up /\ canceller = "armed" /\ asked
  /\ canceller' = "gone"
  /\ claude' = "dead"
  /\ UNCHANGED <<up, runner, given, heard, drain, drained, asked, doing, taken,
                 sawEnd, told, errors>>

-----------------------------------------------------------------------------
(* claude: it chooses an operation and is in it until the pipe lets it.    *)

Choose(operation) ==
  /\ claude = "running" /\ doing = "think"
  /\ CASE operation = "read"   -> ~sawEnd
       [] operation = "stdout" -> told < MaxLines
       [] operation = "stderr" -> errors < MaxErrors
  /\ doing' = operation
  /\ UNCHANGED <<serverVars, claude, taken, sawEnd, told, errors>>

Return == claude = "running" /\ doing' = "think" /\ UNCHANGED serverVars

ReadStdin ==
  /\ Return /\ doing = "read"
  /\ \/ taken < given /\ taken' = taken + 1 /\ UNCHANGED sawEnd
     \/ taken = given /\ ~StdinOpen /\ sawEnd' = TRUE /\ UNCHANGED taken
  /\ UNCHANGED <<claude, told, errors>>

WriteStdout ==
  /\ Return /\ doing = "stdout" /\ StdoutOpen
  /\ told - heard < Capacity
  /\ told' = told + 1
  /\ UNCHANGED <<claude, taken, sawEnd, errors>>

WriteStderr ==
  /\ Return /\ doing = "stderr" /\ StderrOpen
  /\ errors - drained < Capacity
  /\ errors' = errors + 1
  /\ UNCHANGED <<claude, taken, sawEnd, told>>

\* A write to a pipe nobody can read any more: claude may survive it or not.
BrokenPipe ==
  /\ Return
  /\ \/ doing = "stdout" /\ ~StdoutOpen
     \/ doing = "stderr" /\ ~StderrOpen
  /\ claude' \in {"running", "dead"}
  /\ UNCHANGED <<taken, sawEnd, told, errors>>

Exit ==
  /\ Return /\ doing = "think"
  /\ claude' = "dead"
  /\ UNCHANGED <<taken, sawEnd, told, errors>>

Claude ==
  \/ \E operation \in {"read", "stdout", "stderr"} : Choose(operation)
  \/ ReadStdin \/ WriteStdout \/ WriteStderr \/ BrokenPipe \/ Exit

\* The server ends: its ends of the pipes are closed, claude is not killed.
Shutdown ==
  /\ up
  /\ up' = FALSE
  /\ UNCHANGED <<runner, given, heard, taskVars, asked, claudeVars>>

Over ==
  /\ ~up \/ runner \in {"ended", "failed"}
  /\ UNCHANGED vars

Runner == WriteChunk \/ WriteFails \/ PromptWritten \/ ReadLine \/ BadLine \/ Reap
Drain == DrainLine \/ DrainEnds

Next == Runner \/ Drain \/ Interrupt \/ Kill \/ Claude \/ Shutdown \/ Over

Spec == Init /\ [][Next]_vars

\* claude owes it to nobody to end, but it does read its prompt.
Reading == ~sawEnd /\ Claude

FairSpec ==
  /\ Spec
  /\ WF_vars(Runner) /\ WF_vars(Drain) /\ WF_vars(Kill)
  /\ WF_vars(Reading)

-----------------------------------------------------------------------------

\* Every variable keeps its type, and no pipe holds more than its capacity.
TypeOK ==
  /\ up \in BOOLEAN
  /\ runner \in {"write", "read", "ended", "failed"}
  /\ given \in 0..Prompt /\ taken \in 0..given /\ given - taken <= Capacity
  /\ told \in Nat /\ heard \in 0..told /\ told - heard <= Capacity
  /\ errors \in Nat /\ drained \in 0..errors /\ errors - drained <= Capacity
  /\ drain \in {"none", "reading", "gone"}
  /\ canceller \in {"none", "armed", "gone"}
  /\ asked \in BOOLEAN /\ sawEnd \in BOOLEAN
  /\ claude \in {"running", "dead"}
  /\ doing \in {"think", "read", "stdout", "stderr"}

\* claude never takes a part of the prompt for all of it: it sees the end of its
\* stdin after the whole prompt, unless the server was stopped in between.
PromptWhole == sawEnd /\ up => taken = Prompt

\* A turn that ends well has read every line claude wrote, the ones it left in
\* the pipe when it exited or was killed included.
OutputAllRead == runner = "ended" => heard = told

BlockedOnStdout == doing = "stdout" /\ StdoutOpen /\ told - heard = Capacity
BlockedOnStderr == doing = "stderr" /\ StderrOpen /\ errors - drained = Capacity

BlockedOnStdin  == doing = "read" /\ taken = given /\ StdinOpen

\* Who can do nothing before somebody else moves.
ClaudeWaits ==
  claude = "running" /\ (BlockedOnStdin \/ BlockedOnStdout \/ BlockedOnStderr)
RunnerWaits ==
  /\ claude = "running"
  /\ \/ runner = "write" /\ given < Prompt /\ given - taken = Capacity
     \/ runner = "read" /\ heard = told
DrainWaits == drain = "reading" => drained = errors

\* All of them wait for each other, and no line comes to any of them.
CircularWait == up /\ RunnerWaits /\ DrainWaits /\ ClaudeWaits

\* The code has one circular wait: the runner waits for room for the rest of a
\* prompt, and claude, which has not read it, for room in a pipe of its output
\* that it has filled.  A prompt no longer than a pipe never comes to it, and
\* once the prompt is written somebody can always go on.
OneCircularWait ==
  CircularWait =>
    /\ runner = "write" /\ ~sawEnd
    /\ Prompt > taken + Capacity
    /\ Capacity \in {told, errors}

PromptWait == CircularWait /\ runner = "write"

\* An interrupted turn ends, however long claude would go on, unless it is in that
\* one wait: before the prompt is written the token is remembered, and then it kills.
InterruptEndsTurn ==
  asked ~> (runner \in {"ended", "failed"} \/ ~up \/ PromptWait)

\* A turn whose claude means to exit comes to its end, or to that wait: nothing
\* else claude writes, on either pipe, holds it up for ever.
TurnEnds ==
  WF_vars(Claude) /\ SF_vars(Exit)
    => <>(runner \in {"ended", "failed"} \/ ~up \/ PromptWait)

=============================================================================

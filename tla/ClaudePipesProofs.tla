------------------------- MODULE ClaudePipesProofs -------------------------
(***************************************************************************)
(* The safety properties of ClaudePipes for prompts, pipes and outputs of  *)
(* every size.  PromptWhole needs to know where the prompt stands whenever *)
(* the server's end of stdin is closed, OutputAllRead that a turn ends     *)
(* well only after its claude, and OneCircularWait that nothing is read of *)
(* claude's output while the runner still writes.                          *)
(***************************************************************************)
EXTENDS ClaudePipes, TLAPS

\* Once the runner has left the write, the prompt is in the pipe; or the write
\* broke because claude was dead.
WriteSettled ==
  /\ runner \in {"read", "ended"} => given = Prompt
  /\ runner = "failed" /\ given < Prompt => claude = "dead"

\* While the runner writes, claude has not seen the end of the prompt and nobody
\* has read anything of what it wrote.
WritingComesFirst ==
  up /\ runner = "write" => ~sawEnd /\ heard = 0 /\ drained = 0 /\ drain = "none"

EndedAfterClaude == runner = "ended" => claude = "dead"

IInv ==
  TypeOK /\ PromptWhole /\ OutputAllRead /\ WriteSettled /\ WritingComesFirst
    /\ EndedAfterClaude

USE SizeAssumption DEF SizeAssumption

LEMMA InitInv == Init => IInv
  <1> SUFFICES ASSUME Init PROVE IInv
    OBVIOUS
  <1>1. up \in BOOLEAN /\ asked \in BOOLEAN /\ sawEnd \in BOOLEAN /\ ~sawEnd
    BY DEF Init
  <1> QED
    BY <1>1 DEF Init, IInv, TypeOK, PromptWhole, OutputAllRead, WriteSettled,
                WritingComesFirst, EndedAfterClaude

\* The steps of the server's tasks.
LEMMA ServerStep == IInv /\ (Runner \/ Drain \/ Interrupt \/ Kill \/ Shutdown) => IInv'
  <1> SUFFICES ASSUME IInv, Runner \/ Drain \/ Interrupt \/ Kill \/ Shutdown
               PROVE  IInv'
    OBVIOUS
  <1> USE DEF IInv, TypeOK, PromptWhole, OutputAllRead, WriteSettled,
              WritingComesFirst, EndedAfterClaude, taskVars, claudeVars
  <1>1. CASE WriteChunk
    BY <1>1 DEF WriteChunk
  <1>2. CASE WriteFails
    BY <1>2 DEF WriteFails
  <1>3. CASE PromptWritten
    BY <1>3 DEF PromptWritten, Written, Armed
  <1>4. CASE ReadLine
    BY <1>4 DEF ReadLine, Lines
  <1>5. CASE BadLine
    BY <1>5 DEF BadLine
  <1>6. CASE Reap
    BY <1>6 DEF Reap, EndOfOutput
  <1>7. CASE DrainLine
    BY <1>7 DEF DrainLine
  <1>8. CASE DrainEnds
    BY <1>8 DEF DrainEnds
  <1>9. CASE Interrupt
    <2>1. asked' \in BOOLEAN
      BY <1>9 DEF Interrupt
    <2> QED
      BY <1>9, <2>1 DEF Interrupt
  <1>10. CASE Kill
    BY <1>10 DEF Kill
  <1>11. CASE Shutdown
    <2>1. ~up' /\ up' \in BOOLEAN
      BY <1>11 DEF Shutdown
    <2> QED
      BY <1>11, <2>1 DEF Shutdown
  <1> QED
    BY <1>1, <1>2, <1>3, <1>4, <1>5, <1>6, <1>7, <1>8, <1>9, <1>10, <1>11
       DEF Runner, Drain

\* The steps of claude.
LEMMA ClaudeStep == IInv /\ Claude => IInv'
  <1> SUFFICES ASSUME IInv, Claude PROVE IInv'
    OBVIOUS
  <1> USE DEF IInv, TypeOK, PromptWhole, OutputAllRead, WriteSettled,
              WritingComesFirst, EndedAfterClaude, serverVars, taskVars
  <1>1. ASSUME NEW operation \in {"read", "stdout", "stderr"}, Choose(operation)
        PROVE  IInv'
    BY <1>1 DEF Choose
  <1>2. CASE ReadStdin
    <2>1. CASE taken < given /\ taken' = taken + 1 /\ UNCHANGED sawEnd
      BY <1>2, <2>1 DEF ReadStdin, Return
    <2>2. CASE taken = given /\ ~StdinOpen /\ sawEnd' = TRUE /\ UNCHANGED taken
      <3>1. sawEnd' /\ sawEnd' \in BOOLEAN
        BY <2>2
      <3>2. up => given = Prompt
        BY <1>2, <2>2 DEF ReadStdin, Return, StdinOpen
      <3> QED
        BY <1>2, <2>2, <3>1, <3>2 DEF ReadStdin, Return, StdinOpen
    <2> QED
      BY <1>2, <2>1, <2>2 DEF ReadStdin
  <1>3. CASE WriteStdout
    BY <1>3 DEF WriteStdout, Return
  <1>4. CASE WriteStderr
    BY <1>4 DEF WriteStderr, Return
  <1>5. CASE BrokenPipe
    BY <1>5 DEF BrokenPipe, Return
  <1>6. CASE Exit
    BY <1>6 DEF Exit, Return
  <1> QED
    BY <1>1, <1>2, <1>3, <1>4, <1>5, <1>6 DEF Claude

LEMMA NextInv == IInv /\ [Next]_vars => IInv'
  <1> SUFFICES ASSUME IInv, [Next]_vars PROVE IInv'
    OBVIOUS
  <1>1. CASE UNCHANGED vars
    BY <1>1 DEF IInv, TypeOK, PromptWhole, OutputAllRead, WriteSettled,
                WritingComesFirst, EndedAfterClaude,
                vars, serverVars, taskVars, claudeVars
  <1>2. CASE Over
    BY <1>1, <1>2 DEF Over
  <1> QED
    BY <1>1, <1>2, ServerStep, ClaudeStep DEF Next

\* The inductive invariant holds in every reachable state.
THEOREM InductiveInvariant == Spec => []IInv
  <1> QED
    BY InitInv, NextInv, PTL DEF Spec

\* Every variable keeps its type, and no pipe ever holds more than its capacity.
THEOREM TypeCorrect == Spec => []TypeOK
  <1>1. IInv => TypeOK
    BY DEF IInv
  <1> QED
    BY <1>1, InductiveInvariant, PTL

\* claude_runner.rs:177-180: no claude takes a part of its prompt for all of it
\* while the server is up.
THEOREM PromptIsWhole == Spec => []PromptWhole
  <1>1. IInv => PromptWhole
    BY DEF IInv
  <1> QED
    BY <1>1, InductiveInvariant, PTL

\* claude_runner.rs:199-222: a turn that ends well has read all of claude's output.
THEOREM OutputIsRead == Spec => []OutputAllRead
  <1>1. IInv => OutputAllRead
    BY DEF IInv
  <1> QED
    BY <1>1, InductiveInvariant, PTL

\* Who waits, by where the runner is: a runner that writes has left the output
\* unread, and once it reads, what claude writes to is read.
LEMMA CircularWaits == IInv => OneCircularWait
  <1> SUFFICES ASSUME IInv, CircularWait
               PROVE  /\ runner = "write" /\ ~sawEnd
                      /\ Prompt > taken + Capacity
                      /\ Capacity \in {told, errors}
    BY DEF OneCircularWait
  <1>1. CASE runner = "write"
    <2>1. given < Prompt /\ given - taken = Capacity
      BY <1>1 DEF CircularWait, RunnerWaits
    <2>2. ~sawEnd /\ heard = 0 /\ drained = 0
      BY <1>1 DEF IInv, WritingComesFirst, CircularWait
    <2>3. ~BlockedOnStdin
      BY <2>1 DEF IInv, TypeOK, BlockedOnStdin
    <2>4. Capacity \in {told, errors}
      BY <2>2, <2>3
         DEF IInv, TypeOK, CircularWait, ClaudeWaits, BlockedOnStdout, BlockedOnStderr
    <2> QED
      BY <1>1, <2>1, <2>2, <2>4 DEF IInv, TypeOK
  <1>2. CASE runner = "read"
    <2>1. heard = told /\ (drain = "reading" => drained = errors)
      BY <1>2 DEF CircularWait, RunnerWaits, DrainWaits
    <2>2. ~BlockedOnStdin
      BY <1>2 DEF BlockedOnStdin, StdinOpen
    <2>3. ~BlockedOnStdout
      BY <2>1 DEF IInv, TypeOK, BlockedOnStdout
    <2>4. ~BlockedOnStderr
      BY <1>2, <2>1 DEF IInv, TypeOK, BlockedOnStderr, StderrOpen
    <2> QED
      BY <2>2, <2>3, <2>4 DEF CircularWait, ClaudeWaits
  <1> QED
    BY <1>1, <1>2 DEF CircularWait, RunnerWaits

\* claude_runner.rs:177-199: whatever claude writes, and whenever it does, the one
\* circular wait is that of a runner whose prompt is longer than its pipe and of a
\* claude that fills a pipe of its output instead of reading it.
THEOREM OnlyThePromptDeadlocks == Spec => []OneCircularWait
  <1> QED
    BY InductiveInvariant, CircularWaits, PTL

\* claude_runner.rs:177-179: a prompt that fits into the pipe never comes to it.
THEOREM ShortPromptsNeverWait ==
  ASSUME Prompt <= Capacity
  PROVE  Spec => []~CircularWait
  <1>1. IInv => ~CircularWait
    BY CircularWaits DEF IInv, TypeOK, OneCircularWait
  <1> QED
    BY <1>1, InductiveInvariant, PTL

=============================================================================

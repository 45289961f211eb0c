----------------------------- MODULE TurnClaims -----------------------------
(***************************************************************************)
(* What the answer to turn/interrupt says of a turn and the code does not  *)
(* do: a run finds a behaviour of TurnLifecycle against it.                *)
(***************************************************************************)
EXTENDS TurnLifecycle

\* turn/interrupt answers status "interrupted" (turn_processor.rs:157-160), so a
\* turn that was interrupted before it ended should not be announced as
\* completed: the runner reads the flag in one critical section and settles the
\* turn in the next, and an interrupt between the two is answered and lost.
InterruptAnswerHolds ==
  \A t \in Turn : \A i \in Places(log[t], {"completed"}) :
    Places(log[t], {"interrupt_ok"}) # {} => log[t][i].status = "interrupted"

=============================================================================

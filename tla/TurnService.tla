---------------------------- MODULE TurnService ----------------------------
(***************************************************************************)
(* What turn/start, turn/interrupt and the turn notifications promise a    *)
(* client, with nothing said about tasks, locks or processes: a thread     *)
(* works on one turn at a time, a turn ends once, with "interrupted" only  *)
(* if somebody asked for it, and its verdict is announced once, after the  *)
(* end and as it was reached.                                              *)
(***************************************************************************)
CONSTANTS Thread, Turn, None

VARIABLES
  owner,      \* the thread of each turn, None before turn/start
  phase,      \* unborn, working, ended, announced
  asked,      \* has turn/interrupt reached the turn while it worked?
  verdict,    \* how the turn ended
  announced   \* the verdict the clients were told

vars == <<owner, phase, asked, verdict, announced>>

Verdict == {"completed", "interrupted", "error"}

Init ==
  /\ owner     = [t \in Turn |-> None]
  /\ phase     = [t \in Turn |-> "unborn"]
  /\ asked     = [t \in Turn |-> FALSE]
  /\ verdict   = [t \in Turn |-> None]
  /\ announced = [t \in Turn |-> None]

Begin(t, th) ==
  /\ phase[t] = "unborn"
  /\ \A u \in Turn : phase[u] = "working" => owner[u] # th
  /\ owner' = [owner EXCEPT ![t] = th]
  /\ phase' = [phase EXCEPT ![t] = "working"]
  /\ UNCHANGED <<asked, verdict, announced>>

Ask(t) ==
  /\ phase[t] = "working"
  /\ asked' = [asked EXCEPT ![t] = TRUE]
  /\ UNCHANGED <<owner, phase, verdict, announced>>

End(t, v) ==
  /\ phase[t] = "working"
  /\ v = "interrupted" => asked[t]
  /\ phase' = [phase EXCEPT ![t] = "ended"]
  /\ verdict' = [verdict EXCEPT ![t] = v]
  /\ UNCHANGED <<owner, asked, announced>>

Announce(t) ==
  /\ phase[t] = "ended"
  /\ phase' = [phase EXCEPT ![t] = "announced"]
  /\ announced' = [announced EXCEPT ![t] = verdict[t]]
  /\ UNCHANGED <<owner, asked, verdict>>

Next ==
  \E t \in Turn : \/ \E th \in Thread : Begin(t, th)
                  \/ Ask(t)
                  \/ \E v \in Verdict : End(t, v)
                  \/ Announce(t)

Spec == Init /\ [][Next]_vars

=============================================================================

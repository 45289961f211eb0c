------------------------------ MODULE Launcher ------------------------------
(***************************************************************************)
(* The npm launcher of each server of ControlSocket: it spawns the server  *)
(* with its own standard streams, installs its signal handlers, forwards   *)
(* signals and ends as the server ended.  Ctrl-C in a terminal, a service  *)
(* manager and kill(1) signal the launcher, the server, or both.           *)
(***************************************************************************)
EXTENDS ControlSocket

VARIABLES
  launcher,   \* "none", "bare" (no handler yet), "watching", or how it ended
  killed,     \* child.killed: has a signal been sent to the child?
  pending     \* history: signals that arrived at a watching launcher

launcherVars == <<launcher, killed, pending>>
vars == <<serverVars, socketVars, signals, launcherVars>>

Init ==
  /\ ServersInit
  /\ launcher = [p \in Proc |-> "none"]
  /\ killed   = [p \in Proc |-> FALSE]
  /\ pending  = [p \in Proc |-> {}]

Running(p) == launcher[p] \in {"bare", "watching"}

Launch(p) ==
  /\ launcher[p] = "none"
  /\ launcher' = [launcher EXCEPT ![p] = "bare"]
  /\ \E how \in {"stdio", "unix"} : Start(p, how)
  /\ UNCHANGED <<killed, pending>>

\* The binary cannot be run: the child emits "error".
LaunchFails(p) ==
  /\ launcher[p] = "none"
  /\ launcher' = [launcher EXCEPT ![p] = "exit 1"]
  /\ UNCHANGED <<serverVars, socketVars, signals, killed, pending>>

Watch(p) ==
  /\ launcher[p] = "bare"
  /\ launcher' = [launcher EXCEPT ![p] = "watching"]
  /\ UNCHANGED <<serverVars, socketVars, signals, killed, pending>>

CaughtButHangUp == {"INT", "TERM"}
Caught == {"INT", "TERM", "HUP"}

AfterForward == "exit 0"
StillWatching == "watching"

\* A signal to the launcher: the default action, or the handler, which passes
\* on the first one only.
SignalLauncher(p, signal) ==
  /\ Running(p) /\ signals < MaxSignals
  /\ signals' = signals + 1
  /\ IF launcher[p] = "watching" /\ signal \in Caught
     THEN /\ launcher' = [launcher EXCEPT ![p] = StillWatching]
          /\ killed' = [killed EXCEPT ![p] = @ \/ Alive(p)]
          /\ process' = IF killed[p] THEN process
                        ELSE [process EXCEPT ![p] = Struck(p, signal)]
     ELSE /\ launcher' = [launcher EXCEPT ![p] = signal]
          /\ UNCHANGED <<killed, process>>
  /\ pending' = IF launcher[p] = "watching"
                THEN [pending EXCEPT ![p] = @ \cup {signal}] ELSE pending
  /\ UNCHANGED <<transport, acceptor, handles, inputDone, raced, socketVars>>

CodeOnly(status) == "exit 0"
CodeOrNull(status) == IF status = "exit 0" THEN status ELSE "exit null"

\* The launcher exits with the server's code, or sends itself the server's
\* signal; one that its own handler catches ends it with code 0 instead.
PassedOn(status) == IF status \in Caught THEN "exit 0" ELSE status

ChildExited(p) ==
  /\ launcher[p] = "watching" /\ process[p] \in Ended
  /\ launcher' = [launcher EXCEPT ![p] = PassedOn(process[p])]
  /\ UNCHANGED <<serverVars, socketVars, signals, killed, pending>>

World(p) ==
  /\ \/ Input(p)
     \/ \E signal \in Signal : SignalServer(p, signal)
  /\ UNCHANGED launcherVars

ServerStep(p) == Server(p) /\ UNCHANGED launcherVars
LauncherStep(p) == Watch(p) \/ ChildExited(p)

Next ==
  \E p \in Proc :
    \/ Launch(p) \/ LaunchFails(p) \/ World(p)
    \/ ServerStep(p) \/ LauncherStep(p)
    \/ \E signal \in Signal : SignalLauncher(p, signal)

Spec == Init /\ [][Next]_vars

\* Processes run; nobody need start one, signal it or close its stdin.
FairSpec ==
  Spec /\ \A p \in Proc : WF_vars(ServerStep(p)) /\ WF_vars(LauncherStep(p))

-----------------------------------------------------------------------------

\* Every variable keeps its type.
TypeOK ==
  /\ ServersTypeOK
  /\ launcher \in [Proc -> {"none", "bare", "watching", "exit 0", "exit 1"} \cup Signal]
  /\ killed \in [Proc -> BOOLEAN]
  /\ pending \in [Proc -> SUBSET Signal]

\* How the launcher ended tells how its server did.  Of the signals only SIGKILL is
\* told: one that the launcher catches is caught as well when it sends it to itself
\* (claude-app-server.js:150), so that a server killed by it looks like one that
\* ended in order.
Tells(p) ==
  \/ launcher[p] = process[p]
  \/ launcher[p] = "exit 0" /\ process[p] \in {"INT", "TERM", "HUP"}

\* Whoever waits for the launcher waits for the server and learns what Tells says of
\* its end, unless a signal took the launcher that it cannot catch, or could not
\* catch yet.
LauncherOutlivesServer ==
  \A p \in Proc : process[p] # "none" /\ ~Running(p) =>
    \/ process[p] \in Ended /\ Tells(p)
    \/ launcher[p] = "KILL"
    \/ pending[p] = {} /\ launcher[p] \in Signal

\* A signal the launcher can catch ends a server on the control socket, and then
\* the launcher, whether the server has installed its own handlers or not.
SignalStopsServer ==
  \A p \in Proc :
    (transport[p] = "unix" /\ pending[p] \cap {"INT", "TERM", "HUP"} # {})
      ~> (process[p] \in Ended /\ ~Running(p))

=============================================================================

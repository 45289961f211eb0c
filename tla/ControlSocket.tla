--------------------------- MODULE ControlSocket ---------------------------
(***************************************************************************)
(* Server processes that are started and stopped on one machine, and the   *)
(* path of the control socket that those with the unix transport share.    *)
(* A server takes the path over from whoever has it: it looks for a file,  *)
(* removes it and binds, each in a step of its own.  Nothing is removed    *)
(* when a server stops, and a server whose acceptor fails stays up.        *)
(*                                                                         *)
(* Launcher starts the processes and completes the next-state relation.    *)
(***************************************************************************)
EXTENDS Integers, Sequences

CONSTANTS
  Proc,         \* server processes
  None,         \* no process
  Earlier,      \* a server that ended before the first step
  MaxSignals    \* bound: signals sent to launchers and servers

ASSUME NoneAssumption == None \notin Proc /\ Earlier \notin Proc /\ Earlier # None
ASSUME SignalAssumption == MaxSignals \in Nat

VARIABLES
  process,    \* "none", "running", "stopping", or how the process ended
  transport,  \* what each was told to listen on: stdio or the control socket
  acceptor,   \* where the task is that listens on the socket
  handles,    \* the signals for which a handler is installed
  inputDone,  \* has the pending read of stdin returned for the last time?
  path,       \* the process whose socket the path leads to, dead or alive
  bound,      \* history: the processes that bound the path, since it was last left empty
  raced,      \* history: did another server start up at the same time?
  signals     \* how many signals were sent

socketVars == <<path, bound>>
serverVars == <<process, transport, acceptor, handles, inputDone, raced>>

Signal == {"INT", "TERM", "HUP", "KILL"}
Ended  == Signal \cup {"exit 0"}

Alive(p) == process[p] \in {"running", "stopping"}
StartingUp == {p \in Proc : Alive(p) /\ acceptor[p] \in {"look", "remove", "bind"}}

ServersInit ==
  /\ process   = [p \in Proc |-> "none"]
  /\ transport = [p \in Proc |-> "none"]
  /\ acceptor  = [p \in Proc |-> "none"]
  /\ handles   = [p \in Proc |-> {}]
  /\ inputDone = [p \in Proc |-> FALSE]
  /\ path      \in {None, Earlier}
  /\ bound     = << >>
  /\ raced     = [p \in Proc |-> FALSE]
  /\ signals   = 0

\* The process exists and its acceptor task is on its way.
Start(p, how) ==
  /\ process[p] = "none"
  /\ process' = [process EXCEPT ![p] = "running"]
  /\ transport' = [transport EXCEPT ![p] = how]
  /\ acceptor' = [acceptor EXCEPT ![p] = IF how = "unix" THEN "look" ELSE "none"]
  /\ raced' = [q \in Proc |->
       \/ raced[q]
       \/ how = "unix" /\ StartingUp # {} /\ q \in StartingUp \cup {p}]
  /\ UNCHANGED <<handles, inputDone, socketVars, signals>>

\* A handler for SIGTERM, then one for SIGINT.
InstallHandler(p) ==
  /\ process[p] = "running"
  /\ \/ handles[p] = {} /\ handles' = [handles EXCEPT ![p] = {"TERM"}]
     \/ handles[p] = {"TERM"} /\ handles' = [handles EXCEPT ![p] = {"TERM", "INT"}]
  /\ UNCHANGED <<process, transport, acceptor, inputDone, raced, socketVars, signals>>

-----------------------------------------------------------------------------
(* The acceptor of the control socket.                                     *)

Accepting(p, from, to) ==
  /\ Alive(p) /\ acceptor[p] = from
  /\ acceptor' = [acceptor EXCEPT ![p] = to]
  /\ UNCHANGED <<process, transport, handles, inputDone, raced, signals>>

NothingInTheWay == TRUE
NoFile == path = None

Look(p) ==
  /\ Accepting(p, "look", IF NoFile THEN "bind" ELSE "remove")
  /\ UNCHANGED socketVars

\* Whatever is there now goes, a listening server's socket included; the
\* acceptor fails if somebody else has removed it.
Remove(p) ==
  /\ Accepting(p, "remove", IF path = None THEN "failed" ELSE "bind")
  /\ path' = None
  /\ UNCHANGED bound

Bind(p) ==
  \/ /\ path = None
     /\ Accepting(p, "bind", "listening")
     /\ path' = p
     /\ bound' = Append(bound, p)
  \/ /\ path # None
     /\ Accepting(p, "bind", "failed")
     /\ UNCHANGED socketVars

\* Making the directory, removing and binding may each be denied for a reason that
\* has nothing to do with other servers: permissions, a directory at the path, no
\* descriptor left.  A bind that is denied leaves what the remove has left.
Denied(p) ==
  /\ acceptor[p] \in {"look", "remove", "bind"}
  /\ Accepting(p, acceptor[p], "denied")
  /\ bound' = IF acceptor[p] = "bind" /\ path = None THEN << >> ELSE bound
  /\ UNCHANGED path

-----------------------------------------------------------------------------
(* Signals, the end of input, and the end of the process.                  *)

\* What a signal does to a server: stop it in order, or end it at once.  One
\* that is stopping already has lost interest in it.
Struck(p, signal) ==
  IF ~Alive(p) THEN process[p]
  ELSE IF signal \in handles[p] THEN "stopping" ELSE signal

SignalServer(p, signal) ==
  /\ Alive(p) /\ signals < MaxSignals
  /\ process' = [process EXCEPT ![p] = Struck(p, signal)]
  /\ signals' = signals + 1
  /\ UNCHANGED <<transport, acceptor, handles, inputDone, raced, socketVars>>

\* The end of stdin stops a stdio server; once it is stopping, a line will do.
Input(p) ==
  /\ transport[p] = "stdio" /\ Alive(p) /\ ~inputDone[p]
  /\ inputDone' = [inputDone EXCEPT ![p] = TRUE]
  /\ process' = [process EXCEPT ![p] = "stopping"]
  /\ UNCHANGED <<transport, acceptor, handles, raced, socketVars, signals>>

PathRemoved(p) == None
PathLeft(p) == path

\* The process can go when no read of stdin is under way.  Its socket file stays.
Exit(p) ==
  /\ process[p] = "stopping"
  /\ transport[p] = "stdio" => inputDone[p]
  /\ process' = [process EXCEPT ![p] = "exit 0"]
  /\ path' = PathLeft(p)
  /\ UNCHANGED <<transport, acceptor, handles, inputDone, raced, bound, signals>>

Acceptor(p) == Look(p) \/ Remove(p) \/ Bind(p) \/ Denied(p)
Server(p) == InstallHandler(p) \/ Acceptor(p) \/ Exit(p)

AcceptorState ==
  {"none", "look", "remove", "bind", "listening", "failed", "denied"}

ServersTypeOK ==
  /\ process \in [Proc -> {"none", "running", "stopping"} \cup Ended]
  /\ transport \in [Proc -> {"none", "stdio", "unix"}]
  /\ acceptor \in [Proc -> AcceptorState]
  /\ handles \in [Proc -> SUBSET {"TERM", "INT"}]
  /\ inputDone \in [Proc -> BOOLEAN]
  /\ path \in Proc \cup {None, Earlier}
  /\ bound \in Seq(Proc)
  /\ raced \in [Proc -> BOOLEAN]
  /\ signals \in 0..MaxSignals

\* A server that starts while no other does gets the control socket, whatever
\* earlier servers, running, stopped or killed, have left at the path, unless the
\* operating system denies it.
AloneGetsThePath ==
  \A p \in Proc : acceptor[p] = "failed" => raced[p]

\* The server that bound the path last is the one the path leads to, however
\* many older ones stop afterwards, unless a later one has removed its socket
\* and not bound its own, or was denied it.
NewestIsReachable ==
  bound # << >> /\ path # bound[Len(bound)] =>
    \E p \in Proc : acceptor[p] = "bind"

=============================================================================

--------------------------- MODULE LauncherProofs ---------------------------
(***************************************************************************)
(* The safety properties of the control socket and of the launchers, for   *)
(* any number of servers and signals.  A server finds the path changed     *)
(* under its hands only when another one is starting up with it, and then  *)
(* both are marked as raced; and the path leads to the last binder or      *)
(* nowhere.                                                                *)
(***************************************************************************)
EXTENDS Launcher, TLAPS

USE NoneAssumption, SignalAssumption DEF NoneAssumption, SignalAssumption, AcceptorState

\* What is not started has no acceptor, and a launcher comes before its server.
Unborn ==
  \A p \in Proc :
    /\ process[p] = "none" => acceptor[p] = "none"
    /\ launcher[p] = "none" => process[p] = "none"
    /\ launcher[p] \in {"none", "bare"} => pending[p] = {}

\* Servers that start up together have raced.
TogetherRaced ==
  \A p, q \in StartingUp : p # q => raced[p]

\* What a server has found at the path is still so, unless it raced.
LookStillTrue ==
  \A p \in StartingUp :
    /\ acceptor[p] = "remove" /\ path = None => raced[p]
    /\ acceptor[p] = "bind" /\ path # None => raced[p]

PathIsLastBound ==
  bound # << >> => path \in {None, bound[Len(bound)]}

IInv ==
  /\ TypeOK /\ Unborn /\ TogetherRaced /\ LookStillTrue /\ AloneGetsThePath
  /\ PathIsLastBound /\ NewestIsReachable /\ LauncherOutlivesServer

LEMMA InitInv == Init => IInv
  <1> SUFFICES ASSUME Init PROVE IInv
    OBVIOUS
  <1> USE DEF Init, ServersInit
  <1>1. TypeOK
    BY DEF TypeOK, ServersTypeOK
  <1>2. Unborn /\ LauncherOutlivesServer
    BY DEF Unborn, LauncherOutlivesServer
  <1>3. TogetherRaced /\ LookStillTrue /\ AloneGetsThePath
    BY DEF TogetherRaced, LookStillTrue, AloneGetsThePath, StartingUp
  <1>4. PathIsLastBound /\ NewestIsReachable
    BY DEF PathIsLastBound, NewestIsReachable
  <1> QED
    BY <1>1, <1>2, <1>3, <1>4 DEF IInv

-----------------------------------------------------------------------------
(* The steps, by the parts of the invariant they can disturb.              *)

\* What a signal makes of a process.
LEMMA StruckType ==
  ASSUME TypeOK, NEW p \in Proc, NEW signal \in Signal
  PROVE  /\ Struck(p, signal) \in {"none", "running", "stopping"} \cup Ended
         /\ Alive(p) => Struck(p, signal) \in {"stopping", signal}
         /\ ~Alive(p) => Struck(p, signal) = process[p]
  <1>1. process[p] \in {"none", "running", "stopping"} \cup Ended
    BY DEF TypeOK, ServersTypeOK
  <1>2. CASE ~Alive(p)
    <2>1. Struck(p, signal) = process[p]
      BY <1>2 DEF Struck
    <2> QED
      BY <1>1, <1>2, <2>1
  <1>3. CASE Alive(p)
    <2>1. Struck(p, signal) \in {"stopping", signal}
      BY <1>3 DEF Struck
    <2> QED
      BY <1>3, <2>1 DEF Ended
  <1> QED
    BY <1>2, <1>3

ProcessType  == process \in [Proc -> {"none", "running", "stopping"} \cup Ended]
AcceptorType == acceptor \in [Proc -> AcceptorState]
SocketType   == path \in Proc \cup {None, Earlier} /\ bound \in Seq(Proc)
LauncherType == launcher \in [Proc -> {"none", "bare", "watching", "exit 0", "exit 1"} \cup Signal]
PendingType  == pending \in [Proc -> SUBSET Signal]
SignalsType  == signals \in 0..MaxSignals
FlagType ==
  /\ transport \in [Proc -> {"none", "stdio", "unix"}]
  /\ handles \in [Proc -> SUBSET {"TERM", "INT"}]
  /\ inputDone \in [Proc -> BOOLEAN] /\ raced \in [Proc -> BOOLEAN]
  /\ killed \in [Proc -> BOOLEAN]

LEMMA TypeParts ==
  TypeOK <=> /\ ProcessType /\ AcceptorType /\ SocketType /\ LauncherType
             /\ PendingType /\ SignalsType /\ FlagType
  BY Zenon DEF TypeOK, ServersTypeOK, ProcessType, AcceptorType, SocketType,
               LauncherType, PendingType, SignalsType, FlagType

\* The types of all variables, one action at a time.
LEMMA ServerTypeStep ==
  ASSUME TypeOK, NEW p \in Proc, ServerStep(p)
  PROVE  TypeOK'
  <1> USE DEF serverVars, socketVars, launcherVars
  <1>0. /\ ProcessType /\ AcceptorType /\ SocketType /\ LauncherType
        /\ PendingType /\ SignalsType /\ FlagType
    BY TypeParts
  <1>1. UNCHANGED <<transport, inputDone, raced, signals, launcher, killed, pending>>
    BY Zenon DEF ServerStep, Server, InstallHandler, Acceptor, Look, Remove, Bind, Denied, Exit, Accepting
  <1>2. LauncherType' /\ PendingType' /\ SignalsType'
    BY <1>0, <1>1 DEF LauncherType, PendingType, SignalsType
  <1>3. ProcessType'
    BY <1>0 DEF ServerStep, Server, InstallHandler, Acceptor, Look, Remove, Bind, Denied, Exit, Accepting,
                ProcessType, Ended
  <1>4. AcceptorType'
    BY <1>0 DEF ServerStep, Server, InstallHandler, Acceptor, Look, Remove, Bind, Denied, Exit, Accepting,
                AcceptorType
  <1>5. SocketType'
    <2>1. CASE Bind(p)
      <3>1. (path' = p /\ bound' = Append(bound, p)) \/ (path' = path /\ bound' = bound)
        BY <2>1 DEF Bind
      <3> QED
        BY <1>0, <3>1 DEF SocketType
    <2>2. CASE Denied(p)
      <3>1. path' = path /\ (bound' = bound \/ bound' = << >>)
        BY <2>2 DEF Denied
      <3>2. << >> \in Seq(Proc)
        OBVIOUS
      <3> QED
        BY <1>0, <3>1, <3>2, Zenon DEF SocketType
    <2>3. CASE ~Bind(p) /\ ~Denied(p)
      <3>1. path' \in {path, None} /\ bound' = bound
        BY <2>3 DEF ServerStep, Server, InstallHandler, Acceptor, Look, Remove, Exit, PathLeft
      <3> QED
        BY <1>0, <3>1 DEF SocketType
    <2> QED
      BY <2>1, <2>2, <2>3
  <1>6. FlagType'
    <2>1. handles' = handles \/ handles' = [handles EXCEPT ![p] = {"TERM"}]
            \/ handles' = [handles EXCEPT ![p] = {"TERM", "INT"}]
      BY Zenon DEF ServerStep, Server, InstallHandler, Acceptor, Look, Remove, Bind, Denied, Exit, Accepting
    <2>2. {"TERM"} \in SUBSET {"TERM", "INT"} /\ {"TERM", "INT"} \in SUBSET {"TERM", "INT"}
      OBVIOUS
    <2>3. handles' \in [Proc -> SUBSET {"TERM", "INT"}]
      BY <1>0, <2>1, <2>2 DEF FlagType
    <2> QED
      BY <1>0, <1>1, <2>3 DEF FlagType
  <1> QED
    BY <1>2, <1>3, <1>4, <1>5, <1>6, TypeParts, PTL

LEMMA OtherTypeStep ==
  ASSUME TypeOK, NEW p \in Proc,
         \/ Launch(p) \/ LaunchFails(p) \/ World(p) \/ LauncherStep(p)
         \/ \E signal \in Signal : SignalLauncher(p, signal)
  PROVE  TypeOK'
  <1> USE DEF serverVars, socketVars, launcherVars
  <1>0. /\ ProcessType /\ AcceptorType /\ SocketType /\ LauncherType
        /\ PendingType /\ SignalsType /\ FlagType
    BY TypeParts
  <1>1. CASE Launch(p)
    <2>1. PICK how \in {"stdio", "unix"} : Start(p, how)
      BY <1>1 DEF Launch
    <2>2. raced' \in [Proc -> BOOLEAN]
      BY <2>1, Zenon DEF Start
    <2>3. ProcessType' /\ AcceptorType'
      BY <1>0, <2>1 DEF Start, ProcessType, AcceptorType
    <2>4. transport' \in [Proc -> {"none", "stdio", "unix"}]
      BY <1>0, <2>1 DEF Start, FlagType
    <2>5. UNCHANGED <<handles, inputDone, path, bound, signals, killed, pending>>
      BY <1>1, <2>1, Zenon DEF Launch, Start
    <2>6. SocketType' /\ PendingType' /\ SignalsType'
      BY <1>0, <2>5 DEF SocketType, PendingType, SignalsType
    <2>7. FlagType'
      BY <1>0, <2>2, <2>4, <2>5 DEF FlagType
    <2>8. LauncherType'
      BY <1>0, <1>1 DEF Launch, LauncherType
    <2> QED
      BY <2>3, <2>6, <2>7, <2>8, TypeParts, PTL
  <1>2. CASE LaunchFails(p) \/ LauncherStep(p)
    <2>1. UNCHANGED <<serverVars, socketVars, signals, killed, pending>>
      BY <1>2, Zenon DEF LaunchFails, LauncherStep, Watch, ChildExited
    <2>2. \E v \in {"exit 0", "exit 1", "watching"} \cup Signal :
            launcher' = [launcher EXCEPT ![p] = v]
      <3>1. process[p] \in Ended => PassedOn(process[p]) \in {"exit 0"} \cup Signal
        BY DEF PassedOn, Ended
      <3> QED
        BY <1>2, <3>1 DEF LaunchFails, LauncherStep, Watch, ChildExited
    <2>3. LauncherType'
      BY <1>0, <2>2 DEF LauncherType
    <2>4. ProcessType' /\ AcceptorType' /\ SocketType' /\ PendingType' /\ SignalsType'
      BY <1>0, <2>1 DEF ProcessType, AcceptorType, SocketType, PendingType, SignalsType
    <2>5. FlagType'
      BY <1>0, <2>1 DEF FlagType
    <2> QED
      BY <2>3, <2>4, <2>5, TypeParts, PTL
  <1>3. CASE World(p)
    <2>1. UNCHANGED <<transport, acceptor, handles, raced, path, bound, launcher, killed,
                      pending>>
      BY <1>3, Zenon DEF World, Input, SignalServer
    <2>2. ProcessType' /\ SignalsType'
      <3>1. CASE Input(p)
        BY <1>0, <3>1 DEF Input, ProcessType, SignalsType
      <3>2. ASSUME NEW signal \in Signal, SignalServer(p, signal)
            PROVE  ProcessType' /\ SignalsType'
        BY <1>0, <3>2, StruckType DEF SignalServer, ProcessType, SignalsType, SignalAssumption
      <3> QED
        BY <1>3, <3>1, <3>2 DEF World
    <2>3. inputDone' \in [Proc -> BOOLEAN]
      BY <1>0, <1>3 DEF World, Input, SignalServer, FlagType
    <2>4. AcceptorType' /\ SocketType' /\ LauncherType' /\ PendingType'
      BY <1>0, <2>1 DEF AcceptorType, SocketType, LauncherType, PendingType
    <2>5. FlagType'
      BY <1>0, <2>1, <2>3 DEF FlagType
    <2> QED
      BY <2>2, <2>4, <2>5, TypeParts, PTL
  <1>4. ASSUME NEW signal \in Signal, SignalLauncher(p, signal)
        PROVE  TypeOK'
    <2>1. /\ UNCHANGED <<transport, acceptor, handles, inputDone, raced, path, bound>>
          /\ signals < MaxSignals /\ signals' = signals + 1
          /\ \/ process' = process
             \/ process' = [process EXCEPT ![p] = Struck(p, signal)]
          /\ \/ killed' = killed
             \/ killed' = [killed EXCEPT ![p] = @ \/ Alive(p)]
          /\ \/ launcher' = [launcher EXCEPT ![p] = "watching"]
             \/ launcher' = [launcher EXCEPT ![p] = signal]
          /\ \/ pending' = pending
             \/ pending' = [pending EXCEPT ![p] = @ \cup {signal}]
      BY <1>4, Zenon DEF SignalLauncher, StillWatching
    <2>2. ProcessType'
      BY <1>0, <2>1, StruckType DEF ProcessType
    <2>3. killed' \in [Proc -> BOOLEAN]
      <3>1. (killed[p] \/ Alive(p)) \in BOOLEAN
        OBVIOUS
      <3> QED
        BY <1>0, <2>1, <3>1, Zenon DEF FlagType
    <2>4. LauncherType' /\ SignalsType'
      <3>1. signals' = signals + 1 /\ signals < MaxSignals
        BY <2>1
      <3>2. SignalsType'
        BY <1>0, <3>1 DEF SignalsType
      <3> QED
        BY <1>0, <2>1, <3>2 DEF LauncherType
    <2>5. PendingType'
      BY <1>0, <2>1 DEF PendingType
    <2>6. AcceptorType' /\ SocketType'
      BY <1>0, <2>1 DEF AcceptorType, SocketType
    <2>7. FlagType'
      BY <1>0, <2>1, <2>3 DEF FlagType
    <2> QED
      BY <2>2, <2>4, <2>5, <2>6, <2>7, TypeParts, PTL
  <1> QED
    BY <1>1, <1>2, <1>3, <1>4

LEMMA TypeStep == TypeOK /\ [Next]_vars => TypeOK'
  <1> SUFFICES ASSUME TypeOK, [Next]_vars PROVE TypeOK'
    OBVIOUS
  <1>1. CASE UNCHANGED vars
    BY <1>1 DEF vars, serverVars, socketVars, launcherVars, TypeOK, ServersTypeOK
  <1> QED
    BY <1>1, ServerTypeStep, OtherTypeStep DEF Next

-----------------------------------------------------------------------------
(* The control socket.                                                     *)

SocketInv ==
  /\ TogetherRaced /\ LookStillTrue /\ AloneGetsThePath
  /\ PathIsLastBound /\ NewestIsReachable

\* A step that leaves acceptors and the path alone, and starts nothing.
LEMMA SocketAlone ==
  ASSUME SocketInv, UNCHANGED <<acceptor, raced, path, bound>>,
         \A p \in Proc : Alive(p)' => Alive(p)
  PROVE  SocketInv'
  <1>1. StartingUp' \subseteq StartingUp
    BY DEF StartingUp
  <1>2. TogetherRaced' /\ LookStillTrue'
    BY <1>1 DEF SocketInv, TogetherRaced, LookStillTrue
  <1>3. AloneGetsThePath' /\ PathIsLastBound' /\ NewestIsReachable'
    BY DEF SocketInv, AloneGetsThePath, PathIsLastBound, NewestIsReachable
  <1> QED
    BY <1>2, <1>3 DEF SocketInv

\* Such are the steps of launchers, signals, handlers and ends.
LEMMA QuietStep ==
  ASSUME TypeOK, SocketInv, NEW p \in Proc,
         \/ LaunchFails(p) \/ World(p) \/ LauncherStep(p)
         \/ \E signal \in Signal : SignalLauncher(p, signal)
         \/ ServerStep(p) /\ (InstallHandler(p) \/ Exit(p))
  PROVE  SocketInv'
  <1>1. UNCHANGED <<acceptor, raced, path, bound>>
    BY Zenon DEF LaunchFails, World, Input, SignalServer, LauncherStep, Watch, ChildExited,
       SignalLauncher, InstallHandler, Exit, PathLeft, serverVars, socketVars
  <1>2. \/ process' = process
        \/ \E v \in {"none", "running", "stopping"} \cup Ended :
             /\ process' = [process EXCEPT ![p] = v]
             /\ Alive(p) \/ v = process[p]
    <2>1. CASE World(p)
      <3>1. CASE Input(p)
        BY <3>1 DEF Input
      <3>2. ASSUME NEW signal \in Signal, SignalServer(p, signal)
            PROVE  \E v \in {"none", "running", "stopping"} \cup Ended :
                     process' = [process EXCEPT ![p] = v] /\ Alive(p)
        BY <3>2, StruckType DEF SignalServer
      <3> QED
        BY <2>1, <3>1, <3>2 DEF World
    <2>2. ASSUME NEW signal \in Signal, SignalLauncher(p, signal)
          PROVE  \/ process' = process
                 \/ \E v \in {"none", "running", "stopping"} \cup Ended :
                      /\ process' = [process EXCEPT ![p] = v]
                      /\ Alive(p) \/ v = process[p]
      <3>1. process' = process \/ process' = [process EXCEPT ![p] = Struck(p, signal)]
        BY <2>2, Zenon DEF SignalLauncher
      <3> QED
        BY <3>1, StruckType
    <2>3. CASE LaunchFails(p) \/ LauncherStep(p) \/ InstallHandler(p)
      BY <2>3, Zenon DEF LaunchFails, LauncherStep, Watch, ChildExited, InstallHandler,
         serverVars
    <2>4. CASE Exit(p)
      BY <2>4 DEF Exit, Alive, Ended
    <2> QED
      BY <2>1, <2>2, <2>3, <2>4
  <1>3. process \in [Proc -> {"none", "running", "stopping"} \cup Ended]
    BY DEF TypeOK, ServersTypeOK
  <1>4. \A q \in Proc : Alive(q)' => Alive(q)
    BY <1>2, <1>3 DEF Alive
  <1> QED
    BY <1>1, <1>4, SocketAlone

LEMMA LaunchStep ==
  ASSUME TypeOK, SocketInv, Unborn, NEW p \in Proc, Launch(p)
  PROVE  SocketInv'
  <1>1. PICK how \in {"stdio", "unix"} : Start(p, how)
    BY DEF Launch
  <1>2. /\ process[p] = "none" /\ acceptor[p] = "none" /\ p \notin StartingUp
        /\ UNCHANGED <<path, bound>>
    BY <1>1 DEF Start, Unborn, StartingUp, Alive, socketVars
  <1>3. /\ process' = [process EXCEPT ![p] = "running"]
        /\ acceptor' = [acceptor EXCEPT ![p] = IF how = "unix" THEN "look" ELSE "none"]
        /\ raced' = [q \in Proc |->
             \/ raced[q]
             \/ how = "unix" /\ StartingUp # {} /\ q \in StartingUp \cup {p}]
    BY <1>1 DEF Start
  <1>4. /\ process \in [Proc -> {"none", "running", "stopping"} \cup Ended]
        /\ acceptor \in [Proc -> AcceptorState]
    BY DEF TypeOK, ServersTypeOK
  <1>5. /\ StartingUp' = IF how = "unix" THEN StartingUp \cup {p} ELSE StartingUp
        /\ \A q \in Proc \ {p} : acceptor'[q] = acceptor[q]
        /\ acceptor'[p] \in {"none", "look"}
    BY <1>2, <1>3, <1>4 DEF StartingUp, Alive
  <1>6. \A q \in Proc : raced'[q] <=>
          raced[q] \/ (how = "unix" /\ StartingUp # {} /\ q \in StartingUp \cup {p})
    BY <1>3, Zenon
  <1>7. TogetherRaced'
    <2>1. ASSUME NEW q \in StartingUp', NEW r \in StartingUp', q # r
          PROVE  raced'[q]
      <3>1. CASE q \in StartingUp /\ r \in StartingUp
        BY <1>6, <2>1, <3>1 DEF SocketInv, TogetherRaced, StartingUp
      <3>2. CASE q \notin StartingUp \/ r \notin StartingUp
        <4>1. how = "unix" /\ StartingUp # {} /\ q \in StartingUp \cup {p}
          BY <1>5, <2>1, <3>2
        <4>2. q \in Proc
          BY <4>1 DEF StartingUp
        <4> QED
          BY <1>6, <4>1, <4>2
      <3> QED
        BY <3>1, <3>2
    <2> QED
      BY <2>1 DEF TogetherRaced
  <1>8. LookStillTrue'
    BY <1>2, <1>5, <1>6 DEF SocketInv, LookStillTrue, StartingUp
  <1>9. AloneGetsThePath'
    BY <1>5, <1>6 DEF SocketInv, AloneGetsThePath
  <1>10. PathIsLastBound' /\ NewestIsReachable'
    BY <1>2, <1>5 DEF SocketInv, PathIsLastBound, NewestIsReachable
  <1> QED
    BY <1>7, <1>8, <1>9, <1>10 DEF SocketInv

\* A server that does not race is the only one starting up, so that what it
\* found at the path is still there when it acts on it.
LEMMA AcceptorStep ==
  ASSUME TypeOK, SocketInv, NEW p \in Proc, Acceptor(p)
  PROVE  SocketInv'
  <1>0. /\ process \in [Proc -> {"none", "running", "stopping"} \cup Ended]
        /\ acceptor \in [Proc -> AcceptorState]
        /\ path \in Proc \cup {None, Earlier} /\ bound \in Seq(Proc)
    BY DEF TypeOK, ServersTypeOK
  <1>1. /\ p \in StartingUp
        /\ UNCHANGED <<process, raced>>
    BY DEF Acceptor, Look, Remove, Bind, Denied, Accepting, StartingUp
  <1>2. \A q \in Proc \ {p} : acceptor'[q] = acceptor[q]
    BY <1>0 DEF Acceptor, Look, Remove, Bind, Denied, Accepting
  <1>3. StartingUp' \subseteq StartingUp
    BY <1>1, <1>2 DEF StartingUp, Alive
  <1>4. TogetherRaced'
    BY <1>1, <1>3 DEF SocketInv, TogetherRaced
  <1>5. \A q \in StartingUp \ {p} : raced[q] /\ raced[p]
    BY <1>1 DEF SocketInv, TogetherRaced
  <1>6. /\ p \in StartingUp' /\ acceptor'[p] = "remove" /\ path' = None => raced[p]
        /\ p \in StartingUp' /\ acceptor'[p] = "bind" /\ path' # None => raced[p]
    BY <1>0 DEF Acceptor, Look, Remove, Bind, Denied, Accepting, NoFile, socketVars
  <1>7. LookStillTrue'
    BY <1>1, <1>2, <1>3, <1>5, <1>6 DEF LookStillTrue, StartingUp
  <1>8. acceptor'[p] = "failed" => raced[p]
    BY <1>0, <1>1 DEF SocketInv, LookStillTrue, Acceptor, Look, Remove, Bind, Denied, Accepting
  <1>9. AloneGetsThePath'
    BY <1>1, <1>2, <1>8 DEF SocketInv, AloneGetsThePath
  <1>10. PathIsLastBound' /\ NewestIsReachable'
    <2>1. CASE Bind(p) /\ path = None
      <3>1. path' = p /\ bound' = Append(bound, p)
        BY <2>1 DEF Bind
      <3>2. Len(bound') = Len(bound) + 1 /\ bound'[Len(bound')] = p /\ bound' # << >>
        BY <1>0, <3>1
      <3> QED
        BY <3>1, <3>2 DEF PathIsLastBound, NewestIsReachable
    <2>2. CASE Bind(p) /\ path # None
      BY <2>2 DEF Bind, SocketInv, PathIsLastBound, NewestIsReachable, socketVars
    <2>3. CASE Look(p)
      <3>1. UNCHANGED socketVars /\ (acceptor[p] = "look")
        BY <2>3 DEF Look, Accepting
      <3> QED
        BY <1>2, <3>1 DEF SocketInv, PathIsLastBound, NewestIsReachable, socketVars
    <2>4. CASE Remove(p)
      <3>1. path' = None /\ bound' = bound /\ acceptor[p] = "remove"
        BY <2>4 DEF Remove, Accepting
      <3>2. path # None => acceptor'[p] = "bind"
        BY <1>0, <2>4 DEF Remove, Accepting
      <3> QED
        BY <1>2, <3>1, <3>2 DEF SocketInv, PathIsLastBound, NewestIsReachable
    <2>5. CASE Denied(p)
      <3>1. /\ path' = path
            /\ bound' = bound \/ bound' = << >>
            /\ acceptor[p] = "bind" /\ path = None => bound' = << >>
        BY <2>5 DEF Denied
      <3>2. PathIsLastBound'
        BY <3>1 DEF SocketInv, PathIsLastBound
      <3>3. CASE bound' = << >>
        BY <3>2, <3>3, Zenon DEF NewestIsReachable
      <3>4. CASE bound' = bound /\ acceptor[p] = "bind" /\ path # None
        BY <3>1, <3>2, <3>4 DEF PathIsLastBound, NewestIsReachable
      <3>5. CASE bound' = bound /\ acceptor[p] # "bind"
        BY <1>2, <3>1, <3>2, <3>5 DEF SocketInv, NewestIsReachable
      <3> QED
        BY <3>1, <3>2, <3>3, <3>4, <3>5
    <2> QED
      BY <2>1, <2>2, <2>3, <2>4, <2>5 DEF Acceptor
  <1> QED
    BY <1>4, <1>7, <1>9, <1>10 DEF SocketInv

-----------------------------------------------------------------------------
(* Launchers.                                                              *)

\* The pid of a launcher and of a server: what one step can do to them.
LEMMA LauncherSide ==
  ASSUME TypeOK, Unborn, LauncherOutlivesServer, [Next]_vars
  PROVE  Unborn' /\ LauncherOutlivesServer'
  <1>0. /\ process \in [Proc -> {"none", "running", "stopping"} \cup Ended]
        /\ acceptor \in [Proc -> AcceptorState]
        /\ launcher \in [Proc -> {"none", "bare", "watching", "exit 0", "exit 1"} \cup Signal]
        /\ pending \in [Proc -> SUBSET Signal]
    BY DEF TypeOK, ServersTypeOK
  <1> USE DEF Unborn, LauncherOutlivesServer, Tells, Running
  <1>1. CASE UNCHANGED vars
    BY <1>1 DEF vars, serverVars, launcherVars
  <1>2. ASSUME NEW p \in Proc, Launch(p) PROVE Unborn' /\ LauncherOutlivesServer'
    <2>1. PICK how \in {"stdio", "unix"} : Start(p, how)
      BY <1>2 DEF Launch
    <2>2. /\ process' = [process EXCEPT ![p] = "running"]
          /\ launcher' = [launcher EXCEPT ![p] = "bare"]
          /\ launcher[p] = "none" /\ pending' = pending
          /\ \A q \in Proc \ {p} : acceptor'[q] = acceptor[q]
      BY <1>0, <1>2, <2>1 DEF Launch, Start
    <2> QED
      BY <1>0, <2>2
  <1>3. ASSUME NEW p \in Proc, LaunchFails(p) PROVE Unborn' /\ LauncherOutlivesServer'
    BY <1>0, <1>3 DEF LaunchFails, serverVars
  <1>4. ASSUME NEW p \in Proc, World(p) PROVE Unborn' /\ LauncherOutlivesServer'
    <2>1. CASE Input(p)
      BY <1>0, <1>4, <2>1 DEF World, Input, launcherVars, Alive, Ended, Signal
    <2>2. ASSUME NEW signal \in Signal, SignalServer(p, signal)
          PROVE  Unborn' /\ LauncherOutlivesServer'
      <3>1. /\ Alive(p) /\ process' = [process EXCEPT ![p] = Struck(p, signal)]
            /\ UNCHANGED <<acceptor, launcher, pending>>
        BY <1>4, <2>2 DEF World, SignalServer, launcherVars
      <3>2. Struck(p, signal) \in {"stopping", signal} /\ process[p] \notin Ended \cup {"none"}
        BY <3>1, StruckType DEF Alive, Ended, Signal
      <3> QED
        BY <1>0, <3>1, <3>2 DEF Ended, Signal
    <2> QED
      BY <1>4, <2>1, <2>2 DEF World
  <1>5. ASSUME NEW p \in Proc, ServerStep(p) PROVE Unborn' /\ LauncherOutlivesServer'
    <2>1. UNCHANGED launcherVars
      BY <1>5 DEF ServerStep
    <2>2. /\ process[p] \in {"running", "stopping"}
          /\ process' = process \/ process' = [process EXCEPT ![p] = "exit 0"]
          /\ \A q \in Proc \ {p} : acceptor'[q] = acceptor[q]
      BY <1>0, <1>5 DEF ServerStep, Server, InstallHandler, Acceptor, Look, Remove, Bind, Denied, Exit,
                        Accepting, Alive
    <2> QED
      BY <1>0, <2>1, <2>2 DEF launcherVars, Ended, Signal
  <1>6. ASSUME NEW p \in Proc, LauncherStep(p) PROVE Unborn' /\ LauncherOutlivesServer'
    <2>1. CASE Watch(p)
      BY <1>0, <2>1 DEF Watch, serverVars
    <2>2. CASE ChildExited(p)
      <3>1. /\ \/ PassedOn(process[p]) = process[p]
               \/ PassedOn(process[p]) = "exit 0" /\ process[p] \in {"INT", "TERM", "HUP"}
            /\ PassedOn(process[p]) \notin {"none", "bare", "watching"}
        BY <2>2 DEF ChildExited, PassedOn, Ended, Signal, Caught
      <3> QED
        BY <1>0, <2>2, <3>1 DEF ChildExited, serverVars
    <2> QED
      BY <1>6, <2>1, <2>2 DEF LauncherStep
  <1>7. ASSUME NEW p \in Proc, NEW signal \in Signal, SignalLauncher(p, signal)
        PROVE  Unborn' /\ LauncherOutlivesServer'
    <2>1. /\ launcher[p] \in {"bare", "watching"}
          /\ acceptor' = acceptor
          /\ \/ /\ launcher[p] = "watching" /\ launcher' = [launcher EXCEPT ![p] = "watching"]
                /\ \/ process' = process
                   \/ process' = [process EXCEPT ![p] = Struck(p, signal)]
             \/ /\ launcher' = [launcher EXCEPT ![p] = signal] /\ process' = process
                /\ launcher[p] = "bare" \/ signal = "KILL"
          /\ pending' = IF launcher[p] = "watching"
                        THEN [pending EXCEPT ![p] = @ \cup {signal}] ELSE pending
      BY <1>7 DEF SignalLauncher, StillWatching, Caught, Signal
    <2>2. \A q \in Proc \ {p} : /\ launcher'[q] = launcher[q] /\ process'[q] = process[q]
                                 /\ pending'[q] = pending[q]
      BY <1>0, <2>1
    <2>3. process'[p] = "none" => process[p] = "none"
      <3>1. Struck(p, signal) = "none" => process[p] = "none"
        BY StruckType DEF Signal
      <3>2. process' = process \/ process' = [process EXCEPT ![p] = Struck(p, signal)]
        BY <2>1
      <3> QED
        BY <1>0, <3>1, <3>2
    <2>4. /\ launcher'[p] # "none"
          /\ launcher'[p] = "bare" => pending'[p] = {}
          /\ ~Running(p)' => \/ launcher'[p] = "KILL"
                             \/ pending'[p] = {} /\ launcher'[p] \in Signal
      BY <1>0, <2>1 DEF Signal
    <2> QED
      BY <1>0, <2>1, <2>2, <2>3, <2>4
  <1> QED
    BY <1>1, <1>2, <1>3, <1>4, <1>5, <1>6, <1>7 DEF Next

-----------------------------------------------------------------------------
(* The theorems.                                                           *)

LEMMA NextInv == IInv /\ [Next]_vars => IInv'
  <1> SUFFICES ASSUME IInv, [Next]_vars PROVE IInv'
    OBVIOUS
  <1>1. TypeOK /\ SocketInv /\ Unborn /\ LauncherOutlivesServer
    BY DEF IInv, SocketInv
  <1>2. TypeOK'
    BY <1>1, TypeStep
  <1>3. Unborn' /\ LauncherOutlivesServer'
    BY <1>1, LauncherSide
  <1>4. SocketInv'
    <2>1. CASE UNCHANGED vars
      <3>1. UNCHANGED <<acceptor, raced, path, bound, process>>
        BY <2>1 DEF vars, serverVars, socketVars
      <3>2. \A p \in Proc : Alive(p)' => Alive(p)
        BY <3>1 DEF Alive
      <3> QED
        BY <1>1, <3>1, <3>2, SocketAlone
    <2>2. CASE Next
      BY <1>1, <2>2, LaunchStep, QuietStep, AcceptorStep DEF Next, ServerStep, Server
    <2> QED
      BY <2>1, <2>2
  <1> QED
    BY <1>2, <1>3, <1>4 DEF IInv, SocketInv

\* Types, the state of the path and that of the launchers hold together.
THEOREM InductiveInvariant == Spec => []IInv
  BY InitInv, NextInv, PTL DEF Spec

\* Every variable of the servers and of their launchers keeps its type.
THEOREM TypeCorrect == Spec => []TypeOK
  <1>1. IInv => TypeOK
    BY DEF IInv
  <1> QED
    BY <1>1, InductiveInvariant, PTL

\* unix_socket.rs:27-33: a server that starts alone gets the path, unless it is denied.
THEOREM LoneServerGetsThePath == Spec => []AloneGetsThePath
  <1>1. IInv => AloneGetsThePath
    BY DEF IInv
  <1> QED
    BY <1>1, InductiveInvariant, PTL

\* unix_socket.rs:27-54: nothing takes the path from the server that bound it
\* last but a server that starts later.
THEOREM NewestServerIsReachable == Spec => []NewestIsReachable
  <1>1. IInv => NewestIsReachable
    BY DEF IInv
  <1> QED
    BY <1>1, InductiveInvariant, PTL

\* bin/claude-app-server.js:118-153: the launcher ends after its server and as it
\* did, unless a signal took it that it could not catch; a server that HUP, INT or
\* TERM has killed is reported as one that ended in order.
THEOREM LauncherEndsLast == Spec => []LauncherOutlivesServer
  <1>1. IInv => LauncherOutlivesServer
    BY DEF IInv
  <1> QED
    BY <1>1, InductiveInvariant, PTL

=============================================================================

------------------------ MODULE TurnLifecycleProofs ------------------------
(***************************************************************************)
(* Proofs about TurnLifecycle, for every set of threads, turns, sessions,  *)
(* modes and contents and for every bound.                                 *)
(***************************************************************************)
EXTENDS TurnLifecycle, TLAPS

(***************************************************************************)
(* What makes RunnerOwnsActive and FinishedTurnFrozen inductive: a turn is *)
(* unborn, then claimed by turn/start inside the processor, then in the    *)
(* hands of its runner, and settled before the runner is done.             *)
(***************************************************************************)
OwnersAreStored == \A t \in Turn : Owner(t) # None => Owner(t) \in store

StartingHasTurn == processor.at = "started" => processor.msg.turn \in Turn

ClaimedTurnIsBorn ==
  \A t \in Turn : Starting(t) => Owner(t) # None /\ pc[t] = "none"

RunnerHasTurn == \A t \in Turn : pc[t] # "none" => Owner(t) # None

BornTurnHasPrompt ==
  \A t \in Turn : Owner(t) # None => turns[t].userContent \in Content

SettledRunnerIsDone ==
  \A t \in Turn : turns[t].completedAt => pc[t] = "done"

Ownership ==
  /\ RunnerOwnsActive
  /\ OwnersAreStored
  /\ StartingHasTurn
  /\ ClaimedTurnIsBorn
  /\ RunnerHasTurn
  /\ BornTurnHasPrompt
  /\ SettledRunnerIsDone

IInv == TypeOK /\ Ownership

\* What Ownership depends on stays as it is: who is active, who owns a turn, and
\* whether a runner is spawned, running or done.
SameOwnership ==
  /\ store \subseteq store'
  /\ \A th \in Thread : threads'[th].active = threads[th].active
  /\ \A t \in Turn :
       /\ turns'[t].thread = turns[t].thread
       /\ turns'[t].userContent = turns[t].userContent
       /\ turns'[t].completedAt = turns[t].completedAt
       /\ pc'[t] = "none" <=> pc[t] = "none"
       /\ pc'[t] = "done" <=> pc[t] = "done"
  /\ processor.at = "started" <=> processor'.at = "started"
  /\ processor.at = "started" => processor' = processor

USE DEF Status, RunnerPlace, Kind

-----------------------------------------------------------------------------
(* Lemmas.                                                                 *)

\* A message without status or count is a message.
LEMMA PlainType ==
  ASSUME NEW kind \in Kind, NEW t \in Turn \cup {None}
  PROVE  Plain(kind, t) \in Message
BY DEF Plain, Message

\* One message is an outbox.
LEMMA SingletonType ==
  ASSUME NEW m \in Message
  PROVE  <<m>> \in Seq(Message)
OBVIOUS

\* A step that keeps who owns what keeps the invariant.
LEMMA FrameOwnership ==
  ASSUME IInv, TypeOK', SameOwnership
  PROVE  IInv'
<1> USE DEF SameOwnership, IInv, Ownership
<1>1. RunnerOwnsActive'
  BY DEF TypeOK, ThreadState, TurnState, RunnerOwnsActive, Owner, ActiveOf, Busy,
         Starting, InFlight, OwnersAreStored
<1>2. OwnersAreStored' /\ BornTurnHasPrompt'
  BY DEF OwnersAreStored, BornTurnHasPrompt, Owner
<1>3. StartingHasTurn' /\ ClaimedTurnIsBorn'
  BY DEF StartingHasTurn, ClaimedTurnIsBorn, Starting, Owner
<1>4. RunnerHasTurn' /\ SettledRunnerIsDone'
  BY DEF RunnerHasTurn, SettledRunnerIsDone, Owner
<1> QED
  BY <1>1, <1>2, <1>3, <1>4

\* A finished turn is not the one that active_turn_mut finds.
LEMMA FinishedIsNotActive ==
  ASSUME IInv, NEW t \in Turn, turns[t].completedAt, NEW th \in Thread
  PROVE  threads[th].active # t
BY NoneAssumption
   DEF IInv, Ownership, RunnerOwnsActive, SettledRunnerIsDone, ClaimedTurnIsBorn,
       Busy, Owner, ActiveOf, InFlight

LEMMA InitIInv == Init => IInv
<1> SUFFICES ASSUME Init PROVE IInv
  OBVIOUS
<1> USE NoneAssumption, BoundsAssumption DEF Init
<1>1. TypeOK
  BY DEF TypeOK, ThreadState, TurnState, ChildState, NewThread, NewTurn, NotLaunched,
         LaunchRecord, Plain, Message
<1>2. RunnerOwnsActive /\ OwnersAreStored
  BY DEF RunnerOwnsActive, OwnersAreStored, Owner, Busy, NewThread, NewTurn
<1>3. StartingHasTurn /\ ClaimedTurnIsBorn
  BY DEF StartingHasTurn, ClaimedTurnIsBorn, Starting
<1>4. BornTurnHasPrompt /\ RunnerHasTurn /\ SettledRunnerIsDone
  BY DEF BornTurnHasPrompt, RunnerHasTurn, SettledRunnerIsDone, Owner, NewTurn
<1> QED
  BY <1>1, <1>2, <1>3, <1>4 DEF IInv, Ownership

\* The updates of a thread and of a turn that the actions make are well typed.
LEMMA ThreadUpdates ==
  ASSUME NEW r \in ThreadState
  PROVE  /\ [r EXCEPT !.active = None] \in ThreadState
         /\ \A m \in Mode : [r EXCEPT !.mode = m] \in ThreadState
         /\ \A x \in Session \cup {None} : [r EXCEPT !.session = x] \in ThreadState
BY DEF ThreadState

LEMMA ChildUpdates ==
  ASSUME NEW r \in ChildState
  PROVE  /\ [r EXCEPT !.child = "running"] \in ChildState
         /\ [r EXCEPT !.stdout = "closed"] \in ChildState
         /\ \A c \in {"ok", "failed"}, o \in {"open", "closed"} :
              [r EXCEPT !.child = c, !.stdout = o] \in ChildState
BY DEF ChildState

LEMMA TurnUpdates ==
  ASSUME NEW r \in TurnState
  PROVE  /\ \A c \in Content :
              [r EXCEPT !.steerQueue = Append(@, c)] \in TurnState
         /\ [r EXCEPT !.cancel = TRUE] \in TurnState
         /\ [r EXCEPT !.process = TRUE] \in TurnState
         /\ [r EXCEPT !.items = @ + 1] \in TurnState
         /\ [r EXCEPT !.status = "error", !.error = TRUE] \in TurnState
         /\ [r EXCEPT !.status = "error", !.error = TRUE, !.completedAt = TRUE]
              \in TurnState
         /\ \A v \in Status :
              [r EXCEPT !.status = v, !.completedAt = TRUE] \in TurnState
<1>1. ASSUME NEW c \in Content
      PROVE  [r EXCEPT !.steerQueue = Append(@, c)] \in TurnState
  <2>1. Append(r.steerQueue, c) \in Seq(Content)
    BY DEF TurnState
  <2> QED
    BY <2>1 DEF TurnState
<1>2. [r EXCEPT !.cancel = TRUE] \in TurnState
  BY DEF TurnState
<1>3. [r EXCEPT !.process = TRUE] \in TurnState
  BY DEF TurnState
<1>4. [r EXCEPT !.items = @ + 1] \in TurnState
  BY DEF TurnState
<1>5. [r EXCEPT !.status = "error", !.error = TRUE] \in TurnState
  BY DEF TurnState
<1>6. [r EXCEPT !.status = "error", !.error = TRUE, !.completedAt = TRUE] \in TurnState
  BY DEF TurnState
<1>7. ASSUME NEW v \in Status
      PROVE  [r EXCEPT !.status = v, !.completedAt = TRUE] \in TurnState
  BY DEF TurnState
<1> QED
  BY <1>1, <1>2, <1>3, <1>4, <1>5, <1>6, <1>7

-----------------------------------------------------------------------------
(* The handlers and the processor.                                         *)

\* Taking a request replaces the processor's state and counts the request.
LEMMA HandleType ==
  ASSUME TypeOK, NEW place \in {"started", "reply"}, NEW msg \in Message,
         Handle(place, msg)
  PROVE  /\ processor' \in [at: {"idle", "started", "reply"}, msg: Message]
         /\ handled' \in 0..MaxRequests
BY BoundsAssumption DEF TypeOK, Handle

LEMMA ThreadStartIInv ==
  ASSUME IInv, NEW th \in Thread, NEW mode \in Mode, ThreadStart(th, mode)
  PROVE  IInv'
<1> USE DEF ThreadStart
<1>1. Plain("reply", None) \in Message
  BY PlainType
<1>2. threads'[th] = NewThread(mode, None) /\ ~Busy(th)
  BY NoneAssumption
     DEF IInv, Ownership, TypeOK, ThreadState, TurnState, RunnerOwnsActive,
         OwnersAreStored, Busy, Owner
<1>3. TypeOK'
  BY <1>1, HandleType
     DEF IInv, TypeOK, ThreadState, NewThread, Handle, runnerVars, childVars
<1>4. SameOwnership
  BY <1>2 DEF IInv, TypeOK, ThreadState, SameOwnership, Handle, runnerVars, NewThread,
         Busy
<1> QED
  BY <1>3, <1>4, FrameOwnership

LEMMA ThreadForkIInv ==
  ASSUME IInv, NEW source \in Thread, NEW th \in Thread, ThreadFork(source, th)
  PROVE  IInv'
<1> USE DEF ThreadFork
<1>1. Plain("reply", None) \in Message
  BY PlainType
<1>2. ~Busy(th)
  BY NoneAssumption
     DEF IInv, Ownership, TypeOK, ThreadState, TurnState, RunnerOwnsActive,
         OwnersAreStored, Busy, Owner
<1>3. TypeOK'
  <2>1. NewThread(threads[source].mode, threads[source].session) \in ThreadState
    BY DEF IInv, TypeOK, ThreadState, NewThread
  <2>2. threads' \in [Thread -> ThreadState]
    BY <2>1 DEF IInv, TypeOK
  <2> QED
    BY <1>1, <2>2, HandleType DEF IInv, TypeOK, Handle, runnerVars, childVars
<1>4. SameOwnership
  BY <1>2 DEF IInv, TypeOK, ThreadState, SameOwnership, Handle, runnerVars, NewThread,
         Busy
<1> QED
  BY <1>3, <1>4, FrameOwnership

LEMMA TurnStartIInv ==
  ASSUME IInv, NEW th \in Thread, NEW content \in Content, TurnStart(th, content)
  PROVE  IInv'
<1> USE DEF TurnStart
<1>1. PICK t \in Turn :
        /\ turns[t].thread = None
        /\ Handle("started", Plain("started", t))
        /\ turns' = [turns EXCEPT ![t] = NewTurn(th, content)]
        /\ threads' = [threads EXCEPT ![th].active = t,
                                      ![th].turns = Append(@, t)]
  OBVIOUS
<1>2. Plain("started", t) \in Message /\ Plain("started", t).turn = t
  BY PlainType DEF Plain
<1>3. TypeOK'
  <2>1. threads' \in [Thread -> ThreadState]
    <3>1. threads[th] \in ThreadState /\ Append(threads[th].turns, t) \in Seq(Turn)
      BY DEF IInv, TypeOK, ThreadState
    <3>2. [threads[th] EXCEPT !.active = t, !.turns = Append(@, t)] \in ThreadState
      BY <3>1 DEF ThreadState
    <3> QED
      BY <1>1, <3>2 DEF IInv, TypeOK
  <2>2. turns' \in [Turn -> TurnState]
    <3>1. NewTurn(th, content) \in TurnState
      BY DEF NewTurn, TurnState
    <3> QED
      BY <1>1, <3>1 DEF IInv, TypeOK
  <2>3. processor' \in [at: {"idle", "started", "reply"}, msg: Message]
        /\ handled' \in 0..MaxRequests
    BY <1>1, <1>2, HandleType DEF IInv
  <2> QED
    BY <1>1, <2>1, <2>2, <2>3 DEF IInv, TypeOK, Handle, runnerVars, childVars
<1>4. /\ processor.at = "idle" /\ processor'.at = "started"
      /\ processor'.msg.turn = t
      /\ pc' = pc /\ store' = store
      /\ \A u \in Turn : turns'[u] = IF u = t THEN NewTurn(th, content) ELSE turns[u]
      /\ \A h \in Thread : threads'[h].active = IF h = th THEN t ELSE threads[h].active
  BY <1>1, <1>2 DEF Handle, runnerVars, IInv, TypeOK, ThreadState
<1>5. pc[t] = "none" /\ threads[th].active = None /\ th # None
  BY <1>1, NoneAssumption DEF IInv, Ownership, RunnerHasTurn, Owner, Busy
<1>6. RunnerOwnsActive'
  <2>1. ASSUME NEW u \in Turn, Owner(u)' # None
        PROVE  (ActiveOf(u) = u)' <=> (Starting(u) \/ InFlight(u))'
    <3>1. CASE u = t
      <4>1. Owner(t)' = th
        BY <1>4 DEF Owner, NewTurn
      <4>2. ActiveOf(t)' = t
        BY <4>1, <1>4 DEF ActiveOf
      <4>3. Starting(t)'
        BY <1>4 DEF Starting
      <4> QED
        BY <3>1, <4>2, <4>3
    <3>2. CASE u # t
      <4>1. Owner(u)' = Owner(u) /\ Owner(u) \in Thread
        BY <3>2, <2>1, <1>4 DEF Owner, IInv, TypeOK, TurnState
      <4>2. Starting(u)' <=> Starting(u)
        BY <3>2, <1>4 DEF Starting
      <4>3. (ActiveOf(u) = u)' <=> ActiveOf(u) = u
        BY <3>2, <4>1, <1>4, <1>5, NoneAssumption DEF ActiveOf
      <4> QED
        BY <4>1, <4>2, <4>3, <1>4, <2>1
           DEF IInv, Ownership, RunnerOwnsActive, InFlight
    <3> QED
      BY <3>1, <3>2
  <2>2. ASSUME NEW h \in Thread, Busy(h)'
        PROVE  (Owner(threads[h].active) = h)'
    <3>1. CASE h = th
      <4>1. threads'[h].active = t
        BY <3>1, <1>4
      <4>2. turns'[t].thread = th
        BY <1>4 DEF NewTurn
      <4> QED
        BY <3>1, <4>1, <4>2 DEF Owner
    <3>2. CASE h # th
      <4>1. threads'[h].active = threads[h].active /\ Busy(h)
        BY <3>2, <2>2, <1>4 DEF Busy
      <4>2. Owner(threads[h].active) = h /\ threads[h].active \in Turn
        BY <4>1 DEF IInv, TypeOK, ThreadState, Ownership, RunnerOwnsActive, Busy
      <4>3. threads[h].active # t
        BY <4>2, <1>1, NoneAssumption DEF Owner
      <4> QED
        BY <4>1, <4>2, <4>3, <1>4 DEF Owner
    <3> QED
      BY <3>1, <3>2
  <2> QED
    BY <2>1, <2>2 DEF RunnerOwnsActive
<1>7. OwnersAreStored' /\ BornTurnHasPrompt'
  BY <1>4 DEF IInv, Ownership, OwnersAreStored, BornTurnHasPrompt, Owner, NewTurn
<1>8. StartingHasTurn' /\ ClaimedTurnIsBorn'
  BY <1>4, <1>5 DEF StartingHasTurn, ClaimedTurnIsBorn, Starting, Owner, NewTurn
<1>9. RunnerHasTurn' /\ SettledRunnerIsDone'
  BY <1>4, <1>5
     DEF IInv, Ownership, RunnerHasTurn, SettledRunnerIsDone, Owner, NewTurn
<1> QED
  BY <1>3, <1>6, <1>7, <1>8, <1>9 DEF IInv, Ownership

LEMMA NotifyStartedIInv ==
  ASSUME IInv, NotifyStarted
  PROVE  IInv'
<1> DEFINE t == processor.msg.turn
<1> USE DEF NotifyStarted
<1>1. t \in Turn /\ Owner(t) # None /\ pc[t] = "none" /\ ActiveOf(t) = t
  BY DEF IInv, Ownership, StartingHasTurn, ClaimedTurnIsBorn, RunnerOwnsActive,
         Starting
<1>2. Plain("start_ok", t) \in Message
  BY <1>1, PlainType
<1>3. TypeOK'
  <2>1. Append(log[t], processor.msg) \in Seq(Message)
    BY <1>1 DEF IInv, TypeOK
  <2>2. log' \in [Turn -> Seq(Message)]
    BY <2>1 DEF IInv, TypeOK
  <2>3. processor' \in [at: {"idle", "started", "reply"}, msg: Message]
    BY <1>2
  <2> QED
    BY <1>1, <2>2, <2>3 DEF IInv, TypeOK, childVars
<1>4. /\ store' = store /\ threads' = threads /\ turns' = turns
      /\ processor.at = "started" /\ processor'.at = "reply"
      /\ \A u \in Turn : pc'[u] = IF u = t THEN "launch" ELSE pc[u]
  BY DEF IInv, TypeOK
<1>5. RunnerOwnsActive'
  BY <1>1, <1>4
     DEF IInv, Ownership, RunnerOwnsActive, Owner, ActiveOf, Busy, Starting, InFlight
<1>6. OwnersAreStored' /\ BornTurnHasPrompt'
  BY <1>4 DEF IInv, Ownership, OwnersAreStored, BornTurnHasPrompt, Owner
<1>7. StartingHasTurn' /\ ClaimedTurnIsBorn'
  BY <1>4 DEF StartingHasTurn, ClaimedTurnIsBorn, Starting
<1>8. RunnerHasTurn' /\ SettledRunnerIsDone'
  BY <1>1, <1>4
     DEF IInv, Ownership, RunnerHasTurn, SettledRunnerIsDone, Owner
<1> QED
  BY <1>3, <1>5, <1>6, <1>7, <1>8 DEF IInv, Ownership

LEMMA TurnSteerIInv ==
  ASSUME IInv, NEW th \in Thread, NEW content \in Content, TurnSteer(th, content)
  PROVE  IInv'
<1> DEFINE t == threads[th].active
<1> USE DEF TurnSteer
<1>1. t \in Turn
  BY DEF IInv, TypeOK, ThreadState, Busy
<1>2. Plain("steer_ok", t) \in Message
  BY <1>1, PlainType
<1>3. TypeOK'
  <2>1. turns' \in [Turn -> TurnState]
    BY <1>1, TurnUpdates DEF IInv, TypeOK
  <2> QED
    BY <1>2, <2>1, HandleType DEF IInv, TypeOK, Handle, runnerVars, childVars
<1>4. SameOwnership
  BY <1>1 DEF IInv, TypeOK, TurnState, SameOwnership, Handle, runnerVars
<1> QED
  BY <1>3, <1>4, FrameOwnership

LEMMA TurnInterruptIInv ==
  ASSUME IInv, NEW th \in Thread, TurnInterrupt(th)
  PROVE  IInv'
<1> DEFINE t == threads[th].active
<1> USE DEF TurnInterrupt
<1>1. t \in Turn
  BY DEF IInv, TypeOK, ThreadState, Busy
<1>2. Plain("interrupt_ok", t) \in Message
  BY <1>1, PlainType
<1>3. TypeOK'
  <2>1. turns' \in [Turn -> TurnState]
    BY <1>1, TurnUpdates DEF IInv, TypeOK
  <2> QED
    BY <1>2, <2>1, HandleType DEF IInv, TypeOK, Handle, runnerVars, childVars
<1>4. SameOwnership
  BY <1>1 DEF IInv, TypeOK, TurnState, SameOwnership, Handle, runnerVars
<1> QED
  BY <1>3, <1>4, FrameOwnership

LEMMA ApprovalRespondIInv ==
  ASSUME IInv, NEW th \in Thread, NEW mode \in Mode, NEW approved \in BOOLEAN,
         ApprovalRespond(th, mode, approved)
  PROVE  IInv'
<1> USE DEF ApprovalRespond
<1>1. Plain("reply", None) \in Message
  BY PlainType
<1>2. TypeOK'
  <2>1. threads' \in [Thread -> ThreadState]
    BY ThreadUpdates DEF IInv, TypeOK
  <2> QED
    BY <1>1, <2>1, HandleType DEF IInv, TypeOK, Handle, runnerVars, childVars
<1>3. SameOwnership
  BY DEF IInv, TypeOK, ThreadState, SameOwnership, Handle, runnerVars
<1> QED
  BY <1>2, <1>3, FrameOwnership

LEMMA ReadOrRefuseIInv ==
  ASSUME IInv, ReadOrRefuse
  PROVE  IInv'
<1> USE DEF ReadOrRefuse
<1>1. Plain("reply", None) \in Message
  BY PlainType
<1>2. TypeOK'
  BY <1>1, HandleType DEF IInv, TypeOK, Handle, runnerVars, childVars
<1>3. SameOwnership
  BY DEF SameOwnership, Handle, runnerVars
<1> QED
  BY <1>2, <1>3, FrameOwnership

LEMMA SendResponseIInv ==
  ASSUME IInv, SendResponse
  PROVE  IInv'
<1> USE DEF SendResponse
<1>1. Plain("reply", None) \in Message
  BY PlainType
<1>2. TypeOK'
  <2>1. log' \in [Turn -> Seq(Message)]
    BY DEF IInv, TypeOK
  <2>2. processor' \in [at: {"idle", "started", "reply"}, msg: Message]
    BY <1>1
  <2> QED
    BY <2>1, <2>2 DEF IInv, TypeOK, runnerVars, childVars
<1>3. SameOwnership
  BY DEF SameOwnership, runnerVars
<1> QED
  BY <1>2, <1>3, FrameOwnership

-----------------------------------------------------------------------------
(* The runner, and what it reads.                                          *)

\* A runner that is spawned has a turn, and that turn is the active one.
LEMMA RunnerTurn ==
  ASSUME IInv, NEW t \in Turn, pc[t] # "none"
  PROVE  /\ Owner(t) \in Thread /\ Owner(t) # None
         /\ pc[t] # "done" => ActiveOf(t) = t /\ ~turns[t].completedAt
BY DEF IInv, Ownership, TypeOK, TurnState, RunnerHasTurn, RunnerOwnsActive, Owner,
       InFlight, SettledRunnerIsDone

\* The launch parameters always form a new session, a resumed one or a fork.
LEMMA LaunchType ==
  ASSUME IInv, NEW th \in Thread, NEW prompt \in Content
  PROVE  [how |-> LaunchHow(th).how, session |-> LaunchHow(th).session,
          mode |-> threads[th].mode, prompt |-> <<prompt>>] \in LaunchRecord
<1>1. threads[th].session \in Session \cup {None}
      /\ threads[th].forkFrom \in Session \cup {None}
      /\ threads[th].mode \in Mode \cup {None}
  BY DEF IInv, TypeOK, ThreadState
<1>2. <<prompt>> \in Seq(Content)
  OBVIOUS
<1>3. CASE threads[th].session = None /\ threads[th].forkFrom # None
  BY <1>1, <1>2, <1>3 DEF LaunchRecord, LaunchHow
<1>4. CASE threads[th].session # None
  BY <1>1, <1>2, <1>4 DEF LaunchRecord, LaunchHow
<1>5. CASE threads[th].session = None /\ threads[th].forkFrom = None
  BY <1>1, <1>2, <1>5 DEF LaunchRecord, LaunchHow
<1> QED
  BY <1>3, <1>4, <1>5

LEMMA LaunchIInv ==
  ASSUME IInv, NEW t \in Turn, Launch(t)
  PROVE  IInv'
<1> USE DEF Launch, At, Goto
<1>1. Owner(t) \in Thread /\ turns[t].userContent \in Content
  BY RunnerTurn DEF IInv, Ownership, BornTurnHasPrompt
<1>2. launch' \in [Turn -> LaunchRecord]
  BY <1>1, LaunchType DEF IInv, TypeOK
<1>3. TypeOK'
  <2>0. \/ /\ pc' = [pc EXCEPT ![t] = "attach"]
           /\ claude' = [claude EXCEPT ![t].child = "running"]
        \/ pc' = [pc EXCEPT ![t] = "fail"] /\ claude' = claude
    BY Zenon
  <2> HIDE DEF Launch
  <2>1. pc' \in [Turn -> RunnerPlace]
    BY <2>0 DEF IInv, TypeOK
  <2>2. claude' \in [Turn -> ChildState]
    <3>1. claude[t] \in ChildState
      BY DEF IInv, TypeOK
    <3>2. [claude[t] EXCEPT !.child = "running"] \in ChildState
      BY <3>1, ChildUpdates
    <3> QED
      BY <2>0, <3>1, <3>2 DEF IInv, TypeOK
  <2> QED
    BY <1>2, <2>1, <2>2 DEF Launch, IInv, TypeOK, serverVars
<1>4. SameOwnership
  BY DEF IInv, TypeOK, SameOwnership, serverVars
<1> QED
  BY <1>3, <1>4, FrameOwnership

LEMMA AttachIInv ==
  ASSUME IInv, NEW t \in Turn, Attach(t)
  PROVE  IInv'
<1> USE DEF Attach, At, Goto
<1>1. turns' \in [Turn -> TurnState]
  BY TurnUpdates DEF IInv, TypeOK
<1>2. TypeOK'
  BY <1>1 DEF IInv, TypeOK, childVars
<1>3. SameOwnership
  BY DEF IInv, TypeOK, TurnState, SameOwnership
<1> QED
  BY <1>2, <1>3, FrameOwnership

LEMMA WriteStdinIInv ==
  ASSUME IInv, NEW t \in Turn, WriteStdin(t)
  PROVE  IInv'
<1> USE DEF WriteStdin, At, Goto
<1>1. TypeOK'
  BY DEF IInv, TypeOK, serverVars, childVars
<1>2. SameOwnership
  BY DEF IInv, TypeOK, SameOwnership, serverVars
<1> QED
  BY <1>1, <1>2, FrameOwnership

LEMMA ReadLineIInv ==
  ASSUME IInv, NEW t \in Turn, ReadLine(t)
  PROVE  IInv'
<1> USE DEF TakeLine, At, Goto, Send
<1>0. Owner(t) \in Thread /\ lines' \in [Turn -> 0..MaxLines]
  <2>1. TakeLine(t)
    BY DEF ReadLine, ReadSession, ReadResult, ReadItem, ReadProgress, ReadError
  <2>2. Owner(t) \in Thread
    BY <2>1, RunnerTurn
  <2>3. lines[t] + 1 \in 0..MaxLines
    BY <2>1, BoundsAssumption DEF IInv, TypeOK
  <2> QED
    BY <2>1, <2>2, <2>3 DEF IInv, TypeOK
<1>1. Plain("event", t) \in Message /\ Plain("created", t) \in Message
  BY PlainType
<1>1a. \A b \in BOOLEAN :
         (IF b THEN <<Plain("event", t)>> ELSE << >>) \in Seq(Message)
  <2>1. <<Plain("event", t)>> \in Seq(Message) /\ << >> \in Seq(Message)
    BY <1>1
  <2> QED
    BY <2>1, Zenon
<1>2. ASSUME NEW s \in Session, ReadSession(t, s)
      PROVE  IInv'
  <2> USE <1>2 DEF ReadSession
  <2>1. threads' \in [Thread -> ThreadState]
    <3>1. SessionAfter(Owner(t), s) \in Session \cup {None}
      BY <1>0 DEF SessionAfter, IInv, TypeOK, ThreadState
    <3> QED
      BY <1>0, <3>1, ThreadUpdates DEF IInv, TypeOK
  <2>2. TypeOK'
    BY <1>0, <2>1 DEF IInv, TypeOK
  <2>3. SameOwnership
    BY <1>0 DEF IInv, TypeOK, ThreadState, SameOwnership
  <2> QED
    BY <2>2, <2>3, FrameOwnership
<1>3. ASSUME NEW s \in Session \cup {None}, NEW failed \in BOOLEAN,
             NEW denied \in BOOLEAN, ReadResult(t, s, failed, denied)
      PROVE  IInv'
  <2> USE <1>3 DEF ReadResult
  <2>1. threads' \in [Thread -> ThreadState]
    <3>1. SessionAfter(Owner(t), s) \in Session \cup {None}
      BY <1>0 DEF SessionAfter, IInv, TypeOK, ThreadState
    <3> QED
      BY <1>0, <3>1, ThreadUpdates DEF IInv, TypeOK
  <2>2. turns' \in [Turn -> TurnState]
    BY TurnUpdates DEF IInv, TypeOK
  <2>3. outbox' \in [Turn -> Seq(Message)]
    BY <1>1a DEF IInv, TypeOK
  <2>4. TypeOK'
    BY <1>0, <2>1, <2>2, <2>3 DEF IInv, TypeOK
  <2>5. SameOwnership
    <3>1. \A th \in Thread : threads'[th].active = threads[th].active
      BY <1>0 DEF IInv, TypeOK, ThreadState
    <3>2. \A u \in Turn : /\ turns'[u].thread = turns[u].thread
                          /\ turns'[u].userContent = turns[u].userContent
                          /\ turns'[u].completedAt = turns[u].completedAt
      <4> SUFFICES ASSUME NEW u \in Turn
                   PROVE  /\ turns'[u].thread = turns[u].thread
                          /\ turns'[u].userContent = turns[u].userContent
                          /\ turns'[u].completedAt = turns[u].completedAt
        OBVIOUS
      <4>1. \/ turns'[u] = turns[u]
            \/ turns'[u] = [turns[u] EXCEPT !.status = "error", !.error = TRUE]
        BY Zenon
      <4>2. turns[u] \in TurnState
        BY DEF IInv, TypeOK
      <4> HIDE DEF ReadResult
      <4> QED
        BY <4>1, <4>2 DEF TurnState
    <3> QED
      BY <3>1, <3>2 DEF SameOwnership
  <2> QED
    BY <2>4, <2>5, FrameOwnership
<1>4. CASE ReadItem(t)
  <2> USE <1>4 DEF ReadItem
  <2>1. turns' \in [Turn -> TurnState]
    BY TurnUpdates DEF IInv, TypeOK
  <2>2. outbox' \in [Turn -> Seq(Message)]
    BY <1>1 DEF IInv, TypeOK
  <2>3. TypeOK'
    BY <1>0, <2>1, <2>2 DEF IInv, TypeOK
  <2>4. SameOwnership
    BY DEF IInv, TypeOK, TurnState, SameOwnership
  <2> QED
    BY <2>3, <2>4, FrameOwnership
<1>5. CASE ReadProgress(t)
  <2> USE <1>5 DEF ReadProgress
  <2>1. TypeOK'
    BY <1>0, <1>1 DEF IInv, TypeOK
  <2>2. SameOwnership
    BY DEF SameOwnership
  <2> QED
    BY <2>1, <2>2, FrameOwnership
<1>6. CASE ReadError(t)
  <2> USE <1>6 DEF ReadError
  <2>1. TypeOK'
    BY <1>0 DEF IInv, TypeOK
  <2>2. SameOwnership
    BY DEF IInv, TypeOK, SameOwnership
  <2> QED
    BY <2>1, <2>2, FrameOwnership
<1> QED
  BY <1>2, <1>3, <1>4, <1>5, <1>6 DEF ReadLine

LEMMA EofIInv ==
  ASSUME IInv, NEW t \in Turn, Eof(t)
  PROVE  IInv'
<1> USE DEF Eof, At, Goto
<1>1. TypeOK'
  BY DEF IInv, TypeOK, serverVars, childVars
<1>2. SameOwnership
  BY DEF IInv, TypeOK, SameOwnership, serverVars
<1> QED
  BY <1>1, <1>2, FrameOwnership

LEMMA WaitedIInv ==
  ASSUME IInv, NEW t \in Turn, Waited(t)
  PROVE  IInv'
<1> USE DEF Waited, At, Goto
<1>1. TypeOK'
  BY DEF IInv, TypeOK, serverVars, childVars
<1>2. SameOwnership
  BY DEF IInv, TypeOK, SameOwnership, serverVars
<1> QED
  BY <1>1, <1>2, FrameOwnership

LEMMA WaitFailsIInv ==
  ASSUME IInv, NEW t \in Turn, WaitFails(t)
  PROVE  IInv'
<1> USE DEF WaitFails, At, Goto
<1>1. TypeOK'
  BY DEF IInv, TypeOK, serverVars, childVars
<1>2. SameOwnership
  BY DEF IInv, TypeOK, SameOwnership, serverVars
<1> QED
  BY <1>1, <1>2, FrameOwnership

LEMMA CheckInterruptedIInv ==
  ASSUME IInv, NEW t \in Turn, CheckInterrupted(t)
  PROVE  IInv'
<1> DEFINE asked == ActiveOf(t) # None /\ turns[ActiveOf(t)].cancel
<1>1. /\ pc[t] = "check"
      /\ interrupted' = [interrupted EXCEPT ![t] = asked]
      /\ \/ pc' = [pc EXCEPT ![t] = "fail"]
         \/ pc' = [pc EXCEPT ![t] = "finish"]
      /\ UNCHANGED <<serverVars, launch, outbox, canceller, childVars, log>>
  BY Zenon DEF CheckInterrupted, At, Goto
<1>2. asked \in BOOLEAN
  BY RunnerTurn, <1>1 DEF IInv, TypeOK, TurnState
<1>3. TypeOK'
  BY <1>1, <1>2 DEF IInv, TypeOK, serverVars, childVars
<1>4. SameOwnership
  BY <1>1 DEF IInv, TypeOK, SameOwnership, serverVars
<1> QED
  BY <1>3, <1>4, FrameOwnership

\* The two ways a runner settles its turn: the active turn gets its completion
\* time, the thread is freed and the runner is done, all in one critical section.
Settles(t) ==
  /\ pc[t] \notin {"none", "done"}
  /\ pc' = [pc EXCEPT ![t] = "done"]
  /\ store' = store /\ processor' = processor
  /\ \A u \in Turn : /\ turns'[u].thread = turns[u].thread
                     /\ turns'[u].userContent = turns[u].userContent
                     /\ turns'[u].completedAt =
                          (u = ActiveOf(t) \/ turns[u].completedAt)
  /\ \A th \in Thread : threads'[th].active =
                          IF th = Owner(t) THEN None ELSE threads[th].active

LEMMA SettlesIInv ==
  ASSUME IInv, NEW t \in Turn, Settles(t), TypeOK'
  PROVE  IInv'
<1> USE DEF Settles
<1>1. /\ Owner(t) \in Thread /\ Owner(t) # None /\ ActiveOf(t) = t /\ t # None
      /\ pc' = [pc EXCEPT ![t] = "done"] /\ pc \in [Turn -> RunnerPlace]
  BY RunnerTurn, NoneAssumption DEF IInv, TypeOK
<1>2. RunnerOwnsActive'
  <2>1. ASSUME NEW u \in Turn, Owner(u)' # None
        PROVE  (ActiveOf(u) = u)' <=> (Starting(u) \/ InFlight(u))'
    <3>1. Owner(u)' = Owner(u) /\ Owner(u) \in Thread /\ u # None
      <4>1. Owner(u)' = Owner(u)
        BY DEF Owner
      <4>2. Owner(u) \in Thread
        BY <2>1, <4>1 DEF Owner, IInv, TypeOK, TurnState
      <4> QED
        BY <4>1, <4>2, NoneAssumption
    <3>2. Starting(u)' <=> Starting(u)
      BY DEF Starting
    <3>3. ActiveOf(u) = u <=> (Starting(u) \/ InFlight(u))
      BY <3>1, <2>1 DEF IInv, Ownership, RunnerOwnsActive
    <3>4. CASE u = t
      <4>1. ~InFlight(u)' /\ ActiveOf(u)' = None
        BY <1>1, <3>1, <3>4 DEF InFlight, ActiveOf
      <4>2. ~Starting(u)
        BY <3>4 DEF IInv, Ownership, ClaimedTurnIsBorn
      <4> QED
        BY <4>1, <4>2, <3>1, <3>2
    <3>5. CASE u # t /\ Owner(u) = Owner(t)
      <4>1. ActiveOf(u) = t /\ ActiveOf(u)' = None
        BY <1>1, <3>1, <3>5 DEF ActiveOf
      <4>2. InFlight(u)' <=> InFlight(u)
        BY <1>1, <3>5 DEF InFlight
      <4> QED
        BY <4>1, <4>2, <3>1, <3>2, <3>3, <3>5
    <3>6. CASE u # t /\ Owner(u) # Owner(t)
      <4>1. ActiveOf(u)' = ActiveOf(u)
        BY <3>1, <3>6 DEF ActiveOf
      <4>2. InFlight(u)' <=> InFlight(u)
        BY <1>1, <3>6 DEF InFlight
      <4> QED
        BY <4>1, <4>2, <3>2, <3>3
    <3> QED
      BY <3>4, <3>5, <3>6
  <2>2. ASSUME NEW h \in Thread, Busy(h)'
        PROVE  (Owner(threads[h].active) = h)'
    <3>1. threads'[h].active = threads[h].active /\ Busy(h)
      BY <2>2 DEF Busy
    <3>2. Owner(threads[h].active) = h /\ threads[h].active \in Turn
      BY <3>1 DEF IInv, TypeOK, ThreadState, Ownership, RunnerOwnsActive, Busy
    <3> QED
      BY <3>1, <3>2 DEF Owner
  <2> QED
    BY <2>1, <2>2 DEF RunnerOwnsActive
<1>3. OwnersAreStored' /\ BornTurnHasPrompt'
  BY DEF IInv, Ownership, OwnersAreStored, BornTurnHasPrompt, Owner
<1>4. StartingHasTurn' /\ ClaimedTurnIsBorn'
  BY <1>1 DEF IInv, Ownership, StartingHasTurn, ClaimedTurnIsBorn, Starting, Owner
<1>5. RunnerHasTurn' /\ SettledRunnerIsDone'
  <2>1. RunnerHasTurn'
    <3> SUFFICES ASSUME NEW u \in Turn, pc'[u] # "none" PROVE Owner(u)' # None
      BY DEF RunnerHasTurn
    <3>1. Owner(u)' = Owner(u) /\ pc[u] # "none"
      BY <1>1 DEF Owner
    <3> QED
      BY <3>1 DEF IInv, Ownership, RunnerHasTurn
  <2>2. SettledRunnerIsDone'
    <3> SUFFICES ASSUME NEW u \in Turn, turns'[u].completedAt PROVE pc'[u] = "done"
      BY DEF SettledRunnerIsDone
    <3>1. u = t \/ turns[u].completedAt
      BY <1>1
    <3> QED
      BY <1>1, <3>1 DEF IInv, Ownership, SettledRunnerIsDone
  <2> QED
    BY <2>1, <2>2
<1> QED
  BY <1>2, <1>3, <1>4, <1>5 DEF IInv, Ownership

LEMMA FinishIInv ==
  ASSUME IInv, NEW t \in Turn, Finish(t)
  PROVE  IInv'
<1> USE DEF Finish, At, Goto, Send
<1>1. Owner(t) \in Thread /\ ActiveOf(t) = t /\ pc[t] = "finish"
  BY RunnerTurn
<1>2. Outcome(t) \in Status
  BY DEF Outcome
<1>3. threads' \in [Thread -> ThreadState]
  BY <1>1, ThreadUpdates DEF IInv, TypeOK, Release
<1>4. turns' \in [Turn -> TurnState]
  BY <1>2, TurnUpdates DEF IInv, TypeOK
<1>5. outbox' \in [Turn -> Seq(Message)]
  <2>1. turns[t].items \in Nat
    BY DEF IInv, TypeOK, TurnState
  <2>2. Completion(t, Outcome(t)) \in Message
    BY <1>2, <2>1 DEF Completion, Message
  <2>3. outbox' = [outbox EXCEPT ![t] = <<Completion(t, Outcome(t))>>]
    BY <1>1, NoneAssumption
  <2>4. <<Completion(t, Outcome(t))>> \in Seq(Message)
    BY <2>2, SingletonType
  <2> QED
    BY <2>3, <2>4 DEF IInv, TypeOK
<1>6. TypeOK'
  BY <1>3, <1>4, <1>5 DEF IInv, TypeOK, childVars
<1>7. Settles(t)
  <2>1. \A th \in Thread : threads'[th].active =
          IF th = Owner(t) THEN None ELSE threads[th].active
    BY <1>1 DEF IInv, TypeOK, ThreadState, Release
  <2>2. ASSUME NEW u \in Turn
        PROVE  /\ turns'[u].thread = turns[u].thread
               /\ turns'[u].userContent = turns[u].userContent
               /\ turns'[u].completedAt = (u = ActiveOf(t) \/ turns[u].completedAt)
    <3>1. turns[u] \in TurnState
      BY DEF IInv, TypeOK
    <3>2. CASE u = ActiveOf(t)
      BY <3>1, <3>2 DEF TurnState
    <3>3. CASE u # ActiveOf(t)
      BY <3>1, <3>3 DEF TurnState
    <3> QED
      BY <3>2, <3>3
  <2> QED
    BY <1>1, <2>1, <2>2 DEF Settles
<1> QED
  BY <1>6, <1>7, SettlesIInv

LEMMA FailIInv ==
  ASSUME IInv, NEW t \in Turn, Fail(t)
  PROVE  IInv'
<1> USE DEF Fail, At, Goto, Send
<1>1. Owner(t) \in Thread /\ ActiveOf(t) = t /\ pc[t] = "fail"
  BY RunnerTurn
<1>2. <<Plain("failed", t)>> \in Seq(Message)
  <2>1. Plain("failed", t) \in Message
    BY PlainType
  <2> QED
    BY <2>1, SingletonType
<1>3. threads' \in [Thread -> ThreadState]
  BY <1>1, ThreadUpdates DEF IInv, TypeOK, Release
<1>4. turns' \in [Turn -> TurnState]
  BY TurnUpdates DEF IInv, TypeOK
<1>5. TypeOK'
  BY <1>2, <1>3, <1>4 DEF IInv, TypeOK, childVars
<1>6. Settles(t)
  <2>1. \A th \in Thread : threads'[th].active =
          IF th = Owner(t) THEN None ELSE threads[th].active
    BY <1>1 DEF IInv, TypeOK, ThreadState, Release
  <2>2. ASSUME NEW u \in Turn
        PROVE  /\ turns'[u].thread = turns[u].thread
               /\ turns'[u].userContent = turns[u].userContent
               /\ turns'[u].completedAt = (u = ActiveOf(t) \/ turns[u].completedAt)
    <3>1. turns[u] \in TurnState
      BY DEF IInv, TypeOK
    <3>2. CASE u = ActiveOf(t)
      BY <3>1, <3>2 DEF TurnState
    <3>3. CASE u # ActiveOf(t)
      BY <3>1, <3>3 DEF TurnState
    <3> QED
      BY <3>2, <3>3
  <2> QED
    BY <1>1, <2>1, <2>2 DEF Settles
<1> QED
  BY <1>5, <1>6, SettlesIInv

LEMMA NotifyIInv ==
  ASSUME IInv, NEW t \in Turn, Notify(t)
  PROVE  IInv'
<1> USE DEF Notify
<1> DEFINE msg == Head(outbox[t])
<1>1. msg \in Message /\ Tail(outbox[t]) \in Seq(Message)
  BY DEF IInv, TypeOK
<1>2. log' \in [Turn -> Seq(Message)]
  <2>1. CASE msg.turn \in Turn
    <3>1. Append(log[msg.turn], msg) \in Seq(Message)
      BY <1>1, <2>1 DEF IInv, TypeOK
    <3> QED
      BY <2>1, <3>1 DEF IInv, TypeOK
  <2>2. CASE msg.turn \notin Turn
    BY <2>2 DEF IInv, TypeOK
  <2> QED
    BY <2>1, <2>2
<1>3. TypeOK'
  BY <1>1, <1>2 DEF IInv, TypeOK, serverVars, childVars
<1>4. SameOwnership
  BY DEF SameOwnership, serverVars
<1> QED
  BY <1>3, <1>4, FrameOwnership

-----------------------------------------------------------------------------
(* The cancellation task and claude.                                       *)

LEMMA ChildStepIInv ==
  ASSUME IInv, NEW t \in Turn, CancelKill(t) \/ ChildExit(t) \/ StdoutCloses(t)
  PROVE  IInv'
<1>1. claude[t] \in ChildState
  BY DEF IInv, TypeOK
<1>2. claude' \in [Turn -> ChildState]
  <2>1. CASE CancelKill(t)
    <3>1. ASSUME NEW o \in {"open", "closed"}
          PROVE  [claude EXCEPT ![t] = [@ EXCEPT !.child = "failed", !.stdout = o]]
                   \in [Turn -> ChildState]
      BY <1>1, ChildUpdates DEF IInv, TypeOK
    <3> QED
      BY <1>1, <2>1 DEF CancelKill, IInv, TypeOK, ChildState
  <2>2. CASE ChildExit(t)
    <3>1. PICK result \in {"ok", "failed"} :
            claude' = [claude EXCEPT ![t].child = result,
                                     ![t].stdout = IF LooseStdio THEN @ ELSE "closed"]
      BY <2>2 DEF ChildExit
    <3>2. [claude[t] EXCEPT !.child = result,
                            !.stdout = IF LooseStdio THEN @ ELSE "closed"] \in ChildState
      BY <1>1 DEF ChildState
    <3> QED
      BY <3>1, <3>2 DEF IInv, TypeOK
  <2>3. CASE StdoutCloses(t)
    <3>1. [claude[t] EXCEPT !.stdout = "closed"] \in ChildState
      BY <1>1, ChildUpdates
    <3> QED
      BY <2>3, <3>1 DEF StdoutCloses, IInv, TypeOK
  <2> QED
    BY <2>1, <2>2, <2>3
<1>3. TypeOK'
  <2>1. CASE CancelKill(t)
    BY <1>2, <2>1 DEF CancelKill, IInv, TypeOK, serverVars
  <2>2. CASE ChildExit(t)
    BY <1>2, <2>2 DEF ChildExit, IInv, TypeOK, serverVars, runnerVars
  <2>3. CASE StdoutCloses(t)
    BY <1>2, <2>3 DEF StdoutCloses, IInv, TypeOK, serverVars, runnerVars
  <2> QED
    BY <2>1, <2>2, <2>3
<1>4. SameOwnership
  BY DEF CancelKill, ChildExit, StdoutCloses, SameOwnership, serverVars, runnerVars
<1> QED
  BY <1>3, <1>4, FrameOwnership

LEMMA UnchangedIInv ==
  ASSUME IInv, UNCHANGED vars
  PROVE  IInv'
<1> USE DEF vars, serverVars, runnerVars, childVars
<1>1. TypeOK'
  BY DEF IInv, TypeOK
<1>2. SameOwnership
  BY DEF SameOwnership
<1> QED
  BY <1>1, <1>2, FrameOwnership

-----------------------------------------------------------------------------
(* The theorems.                                                           *)

\* Every step keeps the inductive invariant.
LEMMA StepIInv == IInv /\ [Next]_vars => IInv'
<1> SUFFICES ASSUME IInv, [Next]_vars PROVE IInv'
  OBVIOUS
<1>1. CASE Handler
  BY <1>1, ThreadStartIInv, ThreadForkIInv, TurnStartIInv, TurnSteerIInv,
     TurnInterruptIInv, ApprovalRespondIInv, ReadOrRefuseIInv DEF Handler
<1>2. CASE Processor
  BY <1>2, NotifyStartedIInv, SendResponseIInv DEF Processor
<1>3. ASSUME NEW t \in Turn, Runner(t)
      PROVE  IInv'
  BY <1>3, LaunchIInv, AttachIInv, WriteStdinIInv, EofIInv, WaitedIInv,
     CheckInterruptedIInv, FinishIInv, FailIInv, NotifyIInv DEF Runner
<1>4. ASSUME NEW t \in Turn, ReadLine(t) \/ WaitFails(t)
      PROVE  IInv'
  BY <1>4, ReadLineIInv, WaitFailsIInv
<1>5. ASSUME NEW t \in Turn, CancelKill(t) \/ ChildExit(t) \/ StdoutCloses(t)
      PROVE  IInv'
  BY <1>5, ChildStepIInv
<1>6. CASE Terminated \/ UNCHANGED vars
  BY <1>6, UnchangedIInv DEF Terminated
<1> QED
  BY <1>1, <1>2, <1>3, <1>4, <1>5, <1>6 DEF Next

\* Types and ownership, with what the runner's place says of both, are inductive.
THEOREM InductiveInvariant == Spec => []IInv
<1>1. Init => IInv
  BY InitIInv
<1>2. IInv /\ [Next]_vars => IInv'
  BY StepIInv
<1> QED
  BY <1>1, <1>2, PTL DEF Spec

\* Whatever the tasks do, every variable keeps its type: in particular every
\* claude is launched with the session id its mode of launching needs.
THEOREM TypeCorrect == Spec => []TypeOK
<1>1. IInv => TypeOK
  BY DEF IInv
<1> QED
  BY <1>1, InductiveInvariant, PTL

\* A thread is busy exactly while the runner of its active turn is spawned or
\* running: writing through active_turn_mut() always reaches the runner's own turn.
THEOREM RunnersOwnTheirTurns == Spec => []RunnerOwnsActive
<1>1. IInv => RunnerOwnsActive
  BY DEF IInv, Ownership
<1> QED
  BY <1>1, InductiveInvariant, PTL

-----------------------------------------------------------------------------
(* A finished turn is frozen: nobody can reach it any more.                *)

LEMMA StepFrozen ==
  ASSUME IInv, [Next]_vars, NEW t \in Turn, turns[t].completedAt
  PROVE  turns'[t] = turns[t]
<1>1. pc[t] = "done" /\ Owner(t) # None
  BY DEF IInv, Ownership, SettledRunnerIsDone, RunnerHasTurn
<1>2. \A th \in Thread : threads[th].active # t
  BY FinishedIsNotActive
<1>3. turns \in [Turn -> TurnState]
  BY DEF IInv, TypeOK
<1>4. CASE Handler
  <2>1. CASE \E th \in Thread, content \in Content : TurnStart(th, content)
    BY <2>1, <1>1, <1>3 DEF TurnStart, Owner
  <2>2. CASE \E th \in Thread, content \in Content : TurnSteer(th, content)
    BY <2>2, <1>2, <1>3 DEF TurnSteer
  <2>3. CASE \E th \in Thread : TurnInterrupt(th)
    BY <2>3, <1>2, <1>3 DEF TurnInterrupt
  <2>4. CASE UNCHANGED turns
    BY <2>4
  <2> QED
    BY <1>4, <2>1, <2>2, <2>3, <2>4
       DEF Handler, ThreadStart, ThreadFork, ApprovalRespond, ReadOrRefuse
<1>5. CASE Processor
  BY <1>5 DEF Processor, NotifyStarted, SendResponse
<1>6. ASSUME NEW u \in Turn, Runner(u)
      PROVE  turns'[t] = turns[t]
  <2>1. CASE Attach(u) \/ Finish(u) \/ Fail(u)
    <3>1. ActiveOf(u) # t
      BY <2>1, <1>2, RunnerTurn DEF Attach, Finish, Fail, At, ActiveOf
    <3> QED
      BY <2>1, <3>1, <1>3 DEF Attach, Finish, Fail
  <2>2. CASE UNCHANGED turns
    BY <2>2
  <2> QED
    BY <1>6, <2>1, <2>2
       DEF Runner, Launch, WriteStdin, Eof, Waited, CheckInterrupted, Notify,
           serverVars
<1>7. ASSUME NEW u \in Turn, ReadLine(u)
      PROVE  turns'[t] = turns[t]
  <2>1. ActiveOf(u) # t
    BY <1>7, <1>2, RunnerTurn
       DEF ReadLine, ReadSession, ReadResult, ReadItem, ReadProgress, ReadError,
           TakeLine, At, ActiveOf
  <2> QED
    BY <1>7, <2>1, <1>3
       DEF ReadLine, ReadSession, ReadResult, ReadItem, ReadProgress, ReadError
<1>8. ASSUME NEW u \in Turn,
             WaitFails(u) \/ CancelKill(u) \/ ChildExit(u) \/ StdoutCloses(u)
      PROVE  turns'[t] = turns[t]
  BY <1>8 DEF WaitFails, CancelKill, ChildExit, StdoutCloses, serverVars
<1>9. CASE Terminated \/ UNCHANGED vars
  BY <1>9 DEF Terminated, vars, serverVars
<1> QED
  BY <1>4, <1>5, <1>6, <1>7, <1>8, <1>9 DEF Next

\* No step of any task changes a turn after it got its completion time: what
\* turn/completed told the clients stays what thread/resume shows them.
THEOREM FinishedTurnsAreFrozen == Spec => FinishedTurnFrozen
<1>1. IInv /\ [Next]_vars
        => [\A t \in Turn : turns[t].completedAt => turns'[t] = turns[t]]_vars
  BY StepFrozen
<1> QED
  BY <1>1, InductiveInvariant, PTL DEF Spec, FinishedTurnFrozen

=============================================================================

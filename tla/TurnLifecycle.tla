--------------------------- MODULE TurnLifecycle ---------------------------
(***************************************************************************)
(* The life of a turn: the in-memory thread store, the request handlers    *)
(* that start, steer, interrupt and approve, the runner task spawned for   *)
(* each turn, the cancellation task it arms, and the external claude       *)
(* process they drive.  A step is one critical section of the store's      *)
(* mutex, one message sent to the outbound channel, or one operation on    *)
(* the child process; everything between two awaits is one step.           *)
(*                                                                         *)
(* Requests reach the handlers one at a time: the processor task awaits    *)
(* each of them, its response included, before it takes the next.  Runner  *)
(* and cancellation tasks run concurrently with it and with each other.    *)
(***************************************************************************)
EXTENDS Integers, Sequences, FiniteSets

CONSTANTS
  Thread,       \* thread identifiers
  Turn,         \* turn identifiers
  Session,      \* session identifiers claude may report
  Mode,         \* permission modes
  Content,      \* prompt and steer texts
  None,         \* the absent value of an Option
  LooseStdio,   \* may claude's pipes close before it exits, or stay open after?
  MaxRequests,  \* bound: requests the processor handles
  MaxLines      \* bound: stdout lines of one claude process

ASSUME NoneAssumption ==
  None \notin Thread \cup Turn \cup Session \cup Mode \cup Content

ASSUME BoundsAssumption ==
  /\ LooseStdio \in BOOLEAN
  /\ MaxRequests \in Nat
  /\ MaxLines \in Nat

VARIABLES
  store,        \* the threads inserted in the ThreadStore
  threads,      \* ThreadState of each thread
  turns,        \* TurnState of each turn
  processor,    \* the processor task: idle, inside turn/start, or replying
  handled,      \* requests handled so far
  pc,           \* where the runner task of each turn is
  launch,       \* what the runner read from the store before it spawned claude
  interrupted,  \* the runner's reading of the cancellation flag
  outbox,       \* messages a runner has yet to hand to the outbound channel
  canceller,    \* the cancellation task of each turn
  claude,       \* the child process of each turn and its stdout pipe
  lines,        \* stdout lines read from it
  told,         \* history: the last session a turn's claude reported
  log           \* history: what the outbound channel received about each turn

serverVars == <<store, threads, turns, processor, handled>>
runnerVars == <<pc, launch, interrupted, outbox, canceller>>
childVars  == <<claude, lines, told>>
vars       == <<serverVars, runnerVars, childVars, log>>

Status      == {"active", "completed", "interrupted", "error"}
RunnerPlace == {"none", "launch", "attach", "stdin", "read", "wait", "check",
                "finish", "fail", "done"}
Kind        == {"reply", "start_ok", "steer_ok", "interrupt_ok", "started",
                "created", "event", "completed", "failed"}

Message == [kind: Kind, turn: Turn \cup {None}, status: Status, items: Nat]

\* A message that carries no status and no item count of its own.
Plain(kind, t) == [kind |-> kind, turn |-> t, status |-> "active", items |-> 0]

ThreadState ==
  [active: Turn \cup {None}, mode: Mode \cup {None}, session: Session \cup {None},
   forkFrom: Session \cup {None}, turns: Seq(Turn)]

TurnState ==
  [thread: Thread \cup {None}, status: Status, cancel: BOOLEAN,
   steerQueue: Seq(Content), userContent: Content \cup {None}, items: Nat,
   process: BOOLEAN, error: BOOLEAN, completedAt: BOOLEAN]

ChildState ==
  [child: {"none", "running", "ok", "failed"}, stdout: {"open", "closed"}]

NewThread(mode, forkFrom) ==
  [active |-> None, mode |-> mode, session |-> None, forkFrom |-> forkFrom,
   turns |-> << >>]

NewTurn(th, content) ==
  [thread |-> th, status |-> "active", cancel |-> FALSE, steerQueue |-> << >>,
   userContent |-> content, items |-> 0, process |-> FALSE, error |-> FALSE,
   completedAt |-> FALSE]

LaunchRecord ==
  [how: {"none", "new"}, session: {None}, mode: Mode \cup {None},
   prompt: Seq(Content)]
  \cup
  [how: {"resume", "fork"}, session: Session, mode: Mode \cup {None},
   prompt: Seq(Content)]

NotLaunched ==
  [how |-> "none", session |-> None, mode |-> None, prompt |-> << >>]

Init ==
  /\ store       = {}
  /\ threads     = [th \in Thread |-> NewThread(None, None)]
  /\ turns       = [t \in Turn |-> NewTurn(None, None)]
  /\ processor   = [at |-> "idle", msg |-> Plain("reply", None)]
  /\ handled     = 0
  /\ pc          = [t \in Turn |-> "none"]
  /\ launch      = [t \in Turn |-> NotLaunched]
  /\ interrupted = [t \in Turn |-> FALSE]
  /\ outbox      = [t \in Turn |-> << >>]
  /\ canceller   = [t \in Turn |-> "none"]
  /\ claude      = [t \in Turn |-> [child |-> "none", stdout |-> "open"]]
  /\ lines       = [t \in Turn |-> 0]
  /\ told        = [t \in Turn |-> None]
  /\ log         = [t \in Turn |-> << >>]

-----------------------------------------------------------------------------
(* The processor task and its request handlers.                            *)

\* Take the next request, in one critical section, and leave a reply to send.
Handle(place, msg) ==
  /\ processor.at = "idle"
  /\ handled < MaxRequests
  /\ handled' = handled + 1
  /\ processor' = [at |-> place, msg |-> msg]
  /\ UNCHANGED <<runnerVars, childVars, log>>

BusyOnceAttached(th) ==
  threads[th].active # None /\ turns[threads[th].active].process
Busy(th) == threads[th].active # None

ThreadStart(th, mode) ==
  /\ th \notin store
  /\ Handle("reply", Plain("reply", None))
  /\ store' = store \cup {th}
  /\ threads' = [threads EXCEPT ![th] = NewThread(mode, None)]
  /\ UNCHANGED turns

\* The fork is a thread of its own that remembers its source's session.
ThreadFork(source, th) ==
  /\ source \in store /\ th \notin store
  /\ threads[source].session # None
  /\ Handle("reply", Plain("reply", None))
  /\ store' = store \cup {th}
  /\ threads' = [threads EXCEPT ![th] =
                   NewThread(threads[source].mode, threads[source].session)]
  /\ UNCHANGED turns

\* turn/start: check and claim the thread in one critical section.
TurnStart(th, content) ==
  /\ th \in store /\ ~Busy(th)
  /\ \E t \in Turn :
       /\ turns[t].thread = None
       /\ Handle("started", Plain("started", t))
       /\ turns' = [turns EXCEPT ![t] = NewTurn(th, content)]
       /\ threads' = [threads EXCEPT ![th].active = t,
                                     ![th].turns = Append(@, t)]
  /\ UNCHANGED store

\* The rest of turn/start: send turn/started, spawn the runner, return.
NotifyStarted ==
  /\ processor.at = "started"
  /\ LET t == processor.msg.turn IN
       /\ log' = [log EXCEPT ![t] = Append(@, processor.msg)]
       /\ pc' = [pc EXCEPT ![t] = "launch"]
       /\ processor' = [at |-> "reply", msg |-> Plain("start_ok", t)]
  /\ UNCHANGED <<store, threads, turns, handled, launch, interrupted, outbox,
                 canceller, childVars>>

TurnSteer(th, content) ==
  /\ th \in store /\ Busy(th)
  /\ Handle("reply", Plain("steer_ok", threads[th].active))
  /\ turns' = [turns EXCEPT ![threads[th].active].steerQueue =
                 Append(@, content)]
  /\ UNCHANGED <<store, threads>>

TurnInterrupt(th) ==
  /\ th \in store /\ Busy(th)
  /\ Handle("reply", Plain("interrupt_ok", threads[th].active))
  /\ turns' = [turns EXCEPT ![threads[th].active].cancel = TRUE]
  /\ UNCHANGED <<store, threads>>

ApprovalRespond(th, mode, approved) ==
  /\ th \in store
  /\ Handle("reply", Plain("reply", None))
  /\ threads' = IF approved THEN [threads EXCEPT ![th].mode = mode] ELSE threads
  /\ UNCHANGED <<store, turns>>

\* Requests that leave the store alone: thread/resume of a known thread, and
\* every request answered with an error.
ReadOrRefuse ==
  /\ \/ store # {}                                  \* thread/resume
     \/ store # Thread                              \* unknown thread, or params
     \/ \E th \in store : Busy(th)                  \* turn/start: TURN_BUSY
     \/ \E th \in store : ~Busy(th)                 \* steer, interrupt: no turn
     \/ \E th \in store : threads[th].session = None  \* fork: no session yet
  /\ Handle("reply", Plain("reply", None))
  /\ UNCHANGED <<store, threads, turns>>

\* Hand the response to the outbound channel and take the next request.
SendResponse ==
  /\ processor.at = "reply"
  /\ processor' = [at |-> "idle", msg |-> Plain("reply", None)]
  /\ log' = [t \in Turn |-> IF t = processor.msg.turn
                              THEN Append(log[t], processor.msg) ELSE log[t]]
  /\ UNCHANGED <<store, threads, turns, handled, runnerVars, childVars>>

-----------------------------------------------------------------------------
(* The runner task of turn t.  It addresses its turn through the thread's  *)
(* active_turn_id, never through its own turn id.                          *)

Owner(t)    == turns[t].thread
ActiveOf(t) == threads[Owner(t)].active

\* The runner is at a place and has nothing left to send.
At(t, place) == pc[t] = place /\ outbox[t] = << >>

Goto(t, place) == pc' = [pc EXCEPT ![t] = place]
Send(t, msgs)  == outbox' = [outbox EXCEPT ![t] = msgs]

\* A resumed session wins over the fork source; a thread that has neither
\* gives claude its own id as the session id.
LaunchUnforked(th) ==
  IF threads[th].session = None
  THEN [how |-> "new", session |-> None]
  ELSE [how |-> "resume", session |-> threads[th].session]
LaunchForkAlways(th) ==
  IF threads[th].session = None
  THEN [how |-> "fork", session |-> threads[th].forkFrom]
  ELSE [how |-> "resume", session |-> threads[th].session]
LaunchHow(th) ==
  IF threads[th].session = None /\ threads[th].forkFrom # None
  THEN [how |-> "fork", session |-> threads[th].forkFrom]
  ELSE IF threads[th].session # None
       THEN [how |-> "resume", session |-> threads[th].session]
       ELSE [how |-> "new", session |-> None]

\* Read the launch parameters under the lock, then spawn claude; spawning
\* fails when the program or the thread's directory does not exist.
Launch(t) ==
  /\ At(t, "launch")
  /\ LET th == Owner(t) IN
       launch' = [launch EXCEPT ![t] =
                    [how     |-> LaunchHow(th).how,
                     session |-> LaunchHow(th).session,
                     mode    |-> threads[th].mode,
                     prompt  |-> <<turns[t].userContent>>]]
  /\ \/ Goto(t, "attach") /\ claude' = [claude EXCEPT ![t].child = "running"]
     \/ Goto(t, "fail")   /\ UNCHANGED claude
  /\ UNCHANGED <<serverVars, interrupted, outbox, canceller, lines, told, log>>

Attach(t) ==
  /\ At(t, "attach")
  /\ Goto(t, "stdin")
  /\ turns' = [u \in Turn |-> IF u = ActiveOf(t)
                 THEN [turns[u] EXCEPT !.process = TRUE] ELSE turns[u]]
  /\ UNCHANGED <<store, threads, processor, handled, launch, interrupted,
                 outbox, canceller, childVars, log>>

\* Write the prompt and close stdin, then arm the cancellation task.  The
\* write fails when nobody has the other end of the pipe; that it waits for a
\* claude that reads late is ClaudePipes' subject, here it is one step.
WriteStdin(t) ==
  /\ At(t, "stdin")
  /\ \/ /\ Goto(t, "read")
        /\ canceller' = [canceller EXCEPT ![t] = "armed"]
     \/ /\ LooseStdio \/ claude[t].child # "running"
        /\ Goto(t, "fail")
        /\ UNCHANGED canceller
  /\ UNCHANGED <<serverVars, launch, interrupted, outbox, childVars, log>>

\* One line of claude's stdout, whatever it says.
TakeLine(t) ==
  /\ At(t, "read")
  /\ lines[t] < MaxLines
  /\ lines' = [lines EXCEPT ![t] = @ + 1]
  /\ UNCHANGED <<store, processor, handled, launch, interrupted, canceller,
                 claude, log>>

\* The session a report leaves the thread with: the newest one.
SessionKept(th, session) ==
  IF threads[th].session = None THEN session ELSE threads[th].session
SessionAfter(th, session) ==
  IF session = None THEN threads[th].session ELSE session

\* A line that reports the session: system init, or the final result, which
\* may also carry an error (of the turn) and permission denials (to notify).
ReadSession(t, session) ==
  /\ TakeLine(t)
  /\ threads' = [threads EXCEPT ![Owner(t)].session =
                   SessionAfter(Owner(t), session)]
  /\ told' = [told EXCEPT ![t] = session]
  /\ UNCHANGED <<turns, pc, outbox>>

ReadResult(t, session, failed, denied) ==
  /\ TakeLine(t)
  /\ threads' = [threads EXCEPT ![Owner(t)].session =
                   SessionAfter(Owner(t), session)]
  /\ told' = IF session = None THEN told ELSE [told EXCEPT ![t] = session]
  /\ turns' = [u \in Turn |-> IF failed /\ u = ActiveOf(t)
                 THEN [turns[u] EXCEPT !.status = "error", !.error = TRUE]
                 ELSE turns[u]]
  /\ Send(t, IF denied THEN <<Plain("event", t)>> ELSE << >>)
  /\ UNCHANGED pc

\* A finished text, thinking, tool_use or tool_result block: it becomes an item
\* of the active turn, and item/created is sent after the lock is released.
ReadItem(t) ==
  /\ TakeLine(t)
  /\ turns' = [u \in Turn |-> IF u = ActiveOf(t)
                 THEN [turns[u] EXCEPT !.items = @ + 1] ELSE turns[u]]
  /\ Send(t, IF ActiveOf(t) = None THEN << >> ELSE <<Plain("created", t)>>)
  /\ UNCHANGED <<threads, told, pc>>

\* Partial text, stream events, hooks: a notification and no item.
ReadProgress(t) ==
  /\ TakeLine(t)
  /\ Send(t, <<Plain("event", t)>>)
  /\ UNCHANGED <<threads, turns, told, pc>>

\* A line that is not UTF-8 ends the turn; claude is left as it is.
ReadError(t) ==
  /\ TakeLine(t)
  /\ Goto(t, "fail")
  /\ UNCHANGED <<threads, turns, told, outbox>>

ReadLine(t) ==
  \/ \E s \in Session : ReadSession(t, s)
  \/ \E s \in Session \cup {None}, failed, denied \in BOOLEAN :
       ReadResult(t, s, failed, denied)
  \/ ReadItem(t)
  \/ ReadProgress(t)
  \/ ReadError(t)

\* End of stdout.  From here to Waited the runner holds the child's lock.
Eof(t) ==
  /\ At(t, "read")
  /\ claude[t].stdout = "closed"
  /\ Goto(t, "wait")
  /\ UNCHANGED <<serverVars, launch, interrupted, outbox, canceller, childVars,
                 log>>

ReapedWell(t) == claude[t].child = "ok"
ReapedOrClosed(t) == claude[t].stdout = "closed"
Reaped(t) == claude[t].child \in {"ok", "failed"}

\* claude was reaped: release its lock and abort the cancellation task.
Waited(t) ==
  /\ At(t, "wait")
  /\ Reaped(t)
  /\ Goto(t, "check")
  /\ canceller' = [canceller EXCEPT ![t] = "gone"]
  /\ UNCHANGED <<serverVars, launch, interrupted, outbox, childVars, log>>

\* Waiting for a process that is gone may fail; its lock is released all the same.
WaitFails(t) ==
  /\ At(t, "wait")
  /\ claude[t].child # "running"
  /\ Goto(t, "fail")
  /\ UNCHANGED <<serverVars, launch, interrupted, outbox, canceller, childVars,
                 log>>

\* First critical section after the wait: was the turn interrupted?
CheckInterrupted(t) ==
  /\ At(t, "check")
  /\ LET asked == ActiveOf(t) # None /\ turns[ActiveOf(t)].cancel IN
       /\ interrupted' = [interrupted EXCEPT ![t] = asked]
       /\ Goto(t, IF ~asked /\ claude[t].child = "failed" THEN "fail"
                                                           ELSE "finish")
  /\ UNCHANGED <<serverVars, launch, outbox, canceller, childVars, log>>

Outcome(t) == IF interrupted[t] THEN "interrupted" ELSE "completed"

KeepActive(th) == threads[th]
Release(th) == [threads[th] EXCEPT !.active = None]

CompletionStale(u, status) ==
  [kind |-> "completed", turn |-> u, status |-> turns[u].status,
   items |-> turns[u].items]
Completion(u, status) ==
  [kind |-> "completed", turn |-> u, status |-> status, items |-> turns[u].items]

\* Second critical section: settle the active turn and free the thread.
Finish(t) ==
  /\ At(t, "finish")
  /\ Goto(t, "done")
  /\ turns' = [u \in Turn |-> IF u = ActiveOf(t)
                 THEN [turns[u] EXCEPT !.status = Outcome(t),
                                       !.completedAt = TRUE]
                 ELSE turns[u]]
  /\ threads' = [threads EXCEPT ![Owner(t)] = Release(Owner(t))]
  /\ Send(t, IF ActiveOf(t) = None THEN << >>
             ELSE <<Completion(ActiveOf(t), Outcome(t))>>)
  /\ UNCHANGED <<store, processor, handled, launch, interrupted, canceller,
                 childVars, log>>

\* Every error of the runner ends here.
Fail(t) ==
  /\ At(t, "fail")
  /\ Goto(t, "done")
  /\ turns' = [u \in Turn |-> IF u = ActiveOf(t)
                 THEN [turns[u] EXCEPT !.status = "error", !.error = TRUE,
                                       !.completedAt = TRUE]
                 ELSE turns[u]]
  /\ threads' = [threads EXCEPT ![Owner(t)] = Release(Owner(t))]
  /\ Send(t, <<Plain("failed", t)>>)
  /\ UNCHANGED <<store, processor, handled, launch, interrupted, canceller,
                 childVars, log>>

\* Hand the next pending notification to the outbound channel.
Notify(t) ==
  /\ outbox[t] # << >>
  /\ LET msg == Head(outbox[t]) IN
       log' = [log EXCEPT ![msg.turn] = Append(@, msg)]
  /\ outbox' = [outbox EXCEPT ![t] = Tail(@)]
  /\ UNCHANGED <<serverVars, pc, launch, interrupted, canceller, childVars>>

-----------------------------------------------------------------------------
(* The cancellation task of turn t, and claude itself.                     *)

ChildFreeUnread(t) == pc[t] \notin {"read", "wait"}
ChildFree(t) == pc[t] # "wait"

\* It waits for the flag, then for the child's lock, then kills and reaps.
CancelKill(t) ==
  /\ canceller[t] = "armed"
  /\ turns[t].cancel
  /\ ChildFree(t)
  /\ canceller' = [canceller EXCEPT ![t] = "gone"]
  /\ claude' = IF claude[t].child # "running" THEN claude
               ELSE [claude EXCEPT ![t].child = "failed",
                                   ![t].stdout = IF LooseStdio THEN @ ELSE "closed"]
  /\ UNCHANGED <<serverVars, pc, launch, interrupted, outbox, lines, told, log>>

ChildExit(t) ==
  /\ claude[t].child = "running"
  /\ \E result \in {"ok", "failed"} :
       claude' = [claude EXCEPT ![t].child = result,
                                ![t].stdout = IF LooseStdio THEN @ ELSE "closed"]
  /\ UNCHANGED <<serverVars, runnerVars, lines, told, log>>

\* claude closes stdout while it runs, or the last descendant that inherited
\* the pipe closes it after claude is gone.
StdoutCloses(t) ==
  /\ LooseStdio
  /\ claude[t].child # "none"
  /\ claude[t].stdout = "open"
  /\ claude' = [claude EXCEPT ![t].stdout = "closed"]
  /\ UNCHANGED <<serverVars, runnerVars, lines, told, log>>

\* Nothing left to do within the bounds.
Terminated ==
  /\ processor.at = "idle" /\ handled = MaxRequests
  /\ \A t \in Turn : pc[t] \in {"none", "done"} /\ outbox[t] = << >>
  /\ UNCHANGED vars

-----------------------------------------------------------------------------
Handler ==
  \/ \E th \in Thread, mode \in Mode : ThreadStart(th, mode)
  \/ \E source, th \in Thread : ThreadFork(source, th)
  \/ \E th \in Thread, content \in Content : TurnStart(th, content)
  \/ \E th \in Thread, content \in Content : TurnSteer(th, content)
  \/ \E th \in Thread : TurnInterrupt(th)
  \/ \E th \in Thread, mode \in Mode, approved \in BOOLEAN :
       ApprovalRespond(th, mode, approved)
  \/ ReadOrRefuse

Processor == NotifyStarted \/ SendResponse

\* What the runner task does next once the operation it awaits is done.
Runner(t) ==
  \/ Launch(t) \/ Attach(t) \/ WriteStdin(t) \/ Eof(t) \/ Waited(t)
  \/ CheckInterrupted(t) \/ Finish(t) \/ Fail(t) \/ Notify(t)

Next ==
  \/ Handler
  \/ Processor
  \/ \E t \in Turn : \/ Runner(t) \/ ReadLine(t) \/ WaitFails(t)
                     \/ CancelKill(t) \/ ChildExit(t) \/ StdoutCloses(t)
  \/ Terminated

Spec == Init /\ [][Next]_vars

(***************************************************************************)
(* Tokio polls every task that is ready: a runner goes on when its await   *)
(* is over, the processor sends what it has, the cancellation task kills   *)
(* once it gets the flag and the lock.  Clients owe no request, and claude *)
(* neither output nor an exit; but it reads its prompt, so that the write  *)
(* to its stdin comes to an end.  ClaudePipes shows what happens if it     *)
(* does not.                                                               *)
(***************************************************************************)
Fairness ==
  /\ WF_vars(Processor)
  /\ \A t \in Turn : WF_vars(Runner(t)) /\ WF_vars(CancelKill(t))

FairSpec == Spec /\ Fairness

-----------------------------------------------------------------------------
(* What the turns promise.                                                 *)

\* Every variable keeps its type: in particular what a runner launched is a new
\* session, a resumed one or a fork, each with the session id that it needs.
TypeOK ==
  /\ store \subseteq Thread
  /\ threads \in [Thread -> ThreadState]
  /\ turns \in [Turn -> TurnState]
  /\ processor \in [at: {"idle", "started", "reply"}, msg: Message]
  /\ handled \in 0..MaxRequests
  /\ pc \in [Turn -> RunnerPlace]
  /\ launch \in [Turn -> LaunchRecord]
  /\ interrupted \in [Turn -> BOOLEAN]
  /\ outbox \in [Turn -> Seq(Message)]
  /\ canceller \in [Turn -> {"none", "armed", "gone"}]
  /\ claude \in [Turn -> ChildState]
  /\ lines \in [Turn -> 0..MaxLines]
  /\ told \in [Turn -> Session \cup {None}]
  /\ log \in [Turn -> Seq(Message)]

InFlight(t) == pc[t] \notin {"none", "done"}
Starting(t) == processor.at = "started" /\ processor.msg.turn = t
Places(seq, kinds) == {i \in DOMAIN seq : seq[i].kind \in kinds}
Verdicts(t) == Places(log[t], {"completed", "failed"})

\* Runners write through active_turn_mut(), which knows nothing of turn ids:
\* that is right only because a turn is the active one of its thread for
\* exactly as long as its runner is spawned or running, and no longer.
RunnerOwnsActive ==
  /\ \A t \in Turn : Owner(t) # None =>
       (ActiveOf(t) = t <=> (Starting(t) \/ InFlight(t)))
  /\ \A th \in Thread : Busy(th) => Owner(threads[th].active) = th

\* A turn that has its completion time never changes again: no late interrupt,
\* steer, item or error of any task reaches it.
FinishedTurnFrozen ==
  [][\A t \in Turn : turns[t].completedAt => turns'[t] = turns[t]]_vars

\* The notifications of a turn open with turn/started, contain at most one of
\* turn/completed and turn/failed, and end with it: only responses to requests
\* may reach the clients later.
WellFormedStream ==
  \A t \in Turn :
    /\ Places(log[t], {"started"}) = (IF log[t] = << >> THEN {} ELSE {1})
    /\ \A i \in Verdicts(t), j \in DOMAIN log[t] :
         j > i => log[t][j].kind \in {"start_ok", "steer_ok", "interrupt_ok"}

\* The verdict the clients get is the one the store keeps, it counts the items
\* that were announced, and a finished turn has always announced one.
VerdictTellsOutcome ==
  \A t \in Turn :
    /\ \A i \in Verdicts(t) :
         IF log[t][i].kind = "completed"
         THEN /\ log[t][i].status = turns[t].status
              /\ log[t][i].items = Cardinality(Places(log[t], {"created"}))
         ELSE turns[t].status = "error"
    /\ pc[t] = "done" /\ outbox[t] = << >> => Verdicts(t) # {}

\* A claude process outlives its turn only when the turn failed: a turn that
\* completes or is interrupted has reaped its process, so the next turn of the
\* thread does not run beside it.
OrphanOnlyAfterFailure ==
  \A t \in Turn : claude[t].child = "running" =>
    InFlight(t) \/ turns[t].status = "error"

\* A turn is launched on the conversation the thread has reached: it resumes
\* the last session an earlier turn of the thread was told of; the first turn
\* of a fork resumes the source's session; only a thread with neither is new.
ConversationContinues ==
  \A th \in Thread : \A n \in DOMAIN threads[th].turns :
    LET t == threads[th].turns[n]
        earlier == {i \in 1..(n - 1) : told[threads[th].turns[i]] # None}
    IN  launch[t].how # "none" =>
          IF earlier # {}
          THEN \E last \in earlier :
                 /\ \A i \in earlier : i <= last
                 /\ launch[t].how = "resume"
                 /\ launch[t].session = told[threads[th].turns[last]]
          ELSE IF threads[th].forkFrom # None
               THEN launch[t].how = "fork" /\ launch[t].session = threads[th].forkFrom
               ELSE launch[t].how = "new"

\* An interrupted turn ends, whatever its runner was doing.
InterruptEndsTurn ==
  \A t \in Turn : turns[t].cancel ~> turns[t].completedAt

\* turn/interrupt "cancels the active Claude process" (README.md:228).
InterruptKillsClaude ==
  \A t \in Turn : turns[t].cancel ~> claude[t].child # "running"

\* A claude process that ends gives the clients a verdict of its turn.
ExitGivesVerdict ==
  \A t \in Turn : claude[t].child \in {"ok", "failed"} ~> Verdicts(t) # {}

-----------------------------------------------------------------------------
(* The tasks, locks and processes above implement TurnService.             *)

Phase(t) ==
  CASE Owner(t) = None                         -> "unborn"
    [] Owner(t) # None /\ ~turns[t].completedAt -> "working"
    [] turns[t].completedAt /\ Verdicts(t) = {}  -> "ended"
    [] OTHER                                   -> "announced"

Announced(t) ==
  IF Verdicts(t) = {} THEN None
  ELSE LET i == CHOOSE i \in Verdicts(t) : TRUE IN
         IF log[t][i].kind = "completed" THEN log[t][i].status ELSE "error"

Service ==
  INSTANCE TurnService WITH
    owner     <- [t \in Turn |-> Owner(t)],
    phase     <- [t \in Turn |-> Phase(t)],
    asked     <- [t \in Turn |-> turns[t].cancel],
    verdict   <- [t \in Turn |-> IF turns[t].completedAt THEN turns[t].status
                                                          ELSE None],
    announced <- [t \in Turn |-> Announced(t)]

\* Whatever the tasks do, in whatever order, the clients see one turn at a time
\* per thread, one verdict per turn, and "interrupted" only when asked for.
ImplementsService == Service!Spec

=============================================================================

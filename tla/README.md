# A TLA+ model of claude-app-server

claude-app-server is a JSON-RPC server that runs Claude Code for its clients.
A client opens a connection (stdio, a unix socket or a WebSocket), starts
*threads*, and on each thread runs one *turn* at a time; for every turn the
server spawns a `claude` process, reads its output line by line and streams
notifications back.  Everything is kept in memory.

This directory models that server in TLA+, checks the models with TLC on small
instances, and proves with TLAPS, for instances of any size, every invariant, action
property and refinement that TLC checks; liveness is model-checked only.  Source locations are `path:line` under the repository root, with
`claude_runner.rs`, `turn_processor.rs` and so on for the files of
`app-server/src` and `app-server-transport/src`.

## 1. The system and its parts

| Part | State it keeps | Operations | Modelled in |
| --- | --- | --- | --- |
| Thread store (`thread_state.rs`) | threads: active turn, mode, session, fork source; turns: status, cancel token, steer queue, items, process, times | critical sections under one mutex | `TurnLifecycle` |
| Thread handlers (`thread_processor.rs`) | none | `thread/start`, `thread/resume`, `thread/fork` | `TurnLifecycle` |
| Turn handlers (`turn_processor.rs`) | none | `turn/start`, `turn/steer`, `turn/interrupt`, `approval/respond` | `TurnLifecycle` |
| Runner (`claude_runner.rs:67-267`) | one task per turn, its position between two awaits, what it read from the store | launch, attach, write stdin, read lines, wait, settle, fail | `TurnLifecycle` |
| Cancellation task (`claude_runner.rs:190-193`) | armed or not | wait for the token, lock the child, kill | `TurnLifecycle` |
| `claude` (external) | running or exited, its pipes and what they hold | read the prompt, write a line, exit, close stdout | `TurnLifecycle`, `ClaudePipes` |
| Pipes and the tasks at their ends (`claude_runner.rs:161-223`) | what is written and read of prompt, stdout and stderr | write the prompt, drain stderr, read lines, kill | `ClaudePipes` |
| Rich notifications (`claude_runner.rs:797-1513`) | content blocks, tool calls, completed and planned tools | content blocks, final blocks, tool results | `RichEvents` |
| Transports (`stdio.rs`, `unix_socket.rs`, `websocket.rs`, `mod.rs`) | one reading and one writing task per connection, the writer's channel | open, forward, refuse when overloaded, hang up, close, write | `Connections` |
| Processor task (`lib.rs:69-102`, `message_processor.rs`) | sessions; the event being handled | one transport event at a time, its answers awaited | `Connections` |
| Outbound task (`lib.rs:104-112`, `outgoing_message.rs`) | routing table | route, forget | `Connections` |
| Legacy progress (`claude_runner.rs:351-457`) | partial texts | `item/progress`, `item/created` | `RichEvents`; `usage/update` only as an event of `TurnLifecycle` |
| WebSocket authorisation (`auth.rs`, `websocket.rs:67-77`) | the policy made at the start | arguments to settings, settings to policy, header to verdict | `WsAuth` |
| Server process (`lib.rs:114-187`, `unix_socket.rs:22-55`) | signal handlers, the acceptor, the file at the socket path | start, take over the path, stop | `ControlSocket` |
| Launcher (`bin/claude-app-server.js`) | a child process | spawn, forward signals, end as the child did | `Launcher` |
| Packaging scripts, listen URLs, protocol types, discovery answers | none | copy, parse, serialise, constant answers | not modelled |

How they interact.  A reading task puts `ConnectionOpened`, messages and
`ConnectionClosed` into the bounded event channel.  The processor task takes one
event at a time and awaits everything it does for it, so handlers never overlap
with each other.  `turn/start` spawns a runner, and the runner a cancellation
task: these run concurrently with the processor and with each other and meet it
only in the store's mutex, in the mutex of the child process, in the cancel token
and in the bounded outbound channel, where handlers and runners put messages.
The outbound task takes these one at a time and puts them into the bounded
channel of the connection's writing task.  Server processes meet outside: at the
path of the control socket, which each takes over from whoever had it, and in the
signals that reach them through their launchers.

What is hard about it: two critical sections where one decision is made
(`claude_runner.rs:224-261`); runners that address their turn through
`active_turn_mut()` instead of their own turn id; a lock held while waiting for a
process (222); a claude that fails, stops reading, closes its pipes early or
leaves descendants behind; notifications sent after the lock is released; what
conversation the next turn continues after a failed one; channels that fill up
and connections that vanish with requests under way; lines of claude that come
in an order nobody planned; a prompt written before anything reads what claude
writes; servers that start together on one path; signals that arrive before their
handlers or after the process; times at the ends of their range.  `PROJECT.json` lists these hazards at their lines
with the property that covers each, or why none does.

## 2. The modules

| Module | What it is |
| --- | --- |
| `TurnLifecycle` | handlers, store, runners, cancellation and claude; the turn properties |
| `TurnService` | abstract specification: what a client is promised of turns |
| `TurnLifecycleProofs` | types and ownership: the inductive invariant the other proofs about turns rest on |
| `TurnStreamProofs` | what clients are told of a turn, `TurnService` implemented, claude processes and conversations |
| `TurnClaims` | what the answer to `turn/interrupt` says and the code does not keep |
| `Connections` | a request's way through readers, channels, processor, outbound task and writers |
| `RequestService` | abstract specification: what a client is promised of its requests |
| `ConnectionsProofs` | types, the order of messages on their road, sessions, routes, and one answer a request |
| `RequestServiceProofs` | `Connections` implements `RequestService` |
| `RichEvents` | from lines of claude to rich notifications and to the older item/progress |
| `RichEventsProofs` | its theorems: tools, texts, item/progress |
| `ClaudePipes` | one claude, the pipes between it and the server, and who waits for whom |
| `ClaudePipesProofs` | its inductive invariant and theorems |
| `WsAuth` | who may open a WebSocket |
| `WsAuthProofs` | its theorems |
| `ControlSocket`, `Launcher` | server processes at one path, and the launcher of each |
| `LauncherProofs` | the inductive invariant and theorems of the two |
| `MC*` | the instances TLC checks: symmetry sets, small texts, tokens and arguments |

`TurnLifecycle` and `Connections` meet in the outbound channel and in the
processor.  In `TurnLifecycle` the channel always has room and a request is
handled as soon as the processor is idle; in `Connections` a request's effect is
the messages it sends.  `TurnLifecycle!log` is the order in which the outbound
channel receives messages, and `Connections` shows what happens to them from
there on.

### TurnLifecycle

A step is one critical section of the store, one message sent, or one operation
on the child: the code between two awaits.

| Action | Code |
| --- | --- |
| `ThreadStart`, `ThreadFork` | `thread_processor.rs:14-86` |
| `TurnStart`, `NotifyStarted` | `turn_processor.rs:24-97`: claim the thread; then send `turn/started`, spawn the runner, return |
| `TurnSteer`, `TurnInterrupt`, `ApprovalRespond` | `turn_processor.rs:99-205` |
| `ReadOrRefuse` | `thread/resume`, and every request that is answered with an error |
| `SendResponse` | `message_processor.rs:160-170` |
| `Launch` | the launch section and `spawn`, which may fail (`claude_runner.rs:93-159`) |
| `Attach`, `WriteStdin` | `claude_runner.rs:161-193`; the write may fail |
| `ReadSession`, `ReadResult`, `ReadItem`, `ReadProgress`, `ReadError` | one line of stdout (`claude_runner.rs:199-221`, 269-656) |
| `Eof`, `Waited`, `WaitFails` | `child.lock().await.wait().await?` (222), the abort (223) |
| `CheckInterrupted`, `Finish` | the two critical sections of the end (224-261) |
| `Fail` | the error path (`claude_runner.rs:67-90`) |
| `Notify` | `claude_runner.rs:658-675` |
| `CancelKill` | the cancellation task (190-193) |
| `ChildExit`, `StdoutCloses` | external |

`outbox[t]` holds what a runner must send before it goes on, `pc[t]` where it
is.  `told` and `log` are history variables that no action reads.  A runner reads and
writes the turn that is *active in its thread* (`ActiveOf(t)`), as the code does,
not its own; that this is the same turn is a theorem (`RunnersOwnTheirTurns`).

A session id of `None` at launch stands for `--session-id <thread id>`.
Working directories, models, usage, costs, hooks' contents and texts are left out.
A line of claude that carries several blocks is several steps of `ReadItem`.
`LooseStdio` chooses between two claudes: one whose pipes end exactly when it
exits, and one that may stop reading stdin, close stdout early, or leave a
descendant that keeps stdout open.  `WriteStdin` is the whole of `write_all` in one step
that returns at some time: claude is taken to read its prompt, or to stop reading and
break the pipe.  That the write can block for ever is the subject of `ClaudePipes`.

### TurnService

Five variables and four actions: `Begin` a turn on a thread that works on none,
`Ask` to interrupt it, `End` it (as interrupted only if asked), `Announce` the
verdict once.  `TurnLifecycle!ImplementsService` is this specification under the
refinement mapping at the end of `TurnLifecycle`, which computes a turn's phase
from the store and from the messages sent.

### Connections

| Action | Code |
| --- | --- |
| `Accept`, `Open` | accepting, `send_connection_opened`, spawning the writer |
| `Forward`, `Refuse` | `enqueue_incoming_message`: `try_send`, or the overload answer straight to the writer |
| `HangUp`, `Close` | end of input, `writer_task.abort()` (sockets only), `send_connection_closed` |
| `OpenConnection`, `CloseConnection`, `ProcessMessage`, `SendOutbound` | the processor task; `todo` is what it has yet to send for the event it handles |
| `RunnerNotify` | a runner's notifications |
| `RouteOpened`, `RouteClosed`, `RouteEnvelope` | `route_outgoing_envelope`, `send_message` |
| `Write`, `WriteFails`, `WriterEnds` | the writing tasks |
| `Shutdown` | a signal, or the end of stdio 200 ms before; the time is not modelled |

Methods are four kinds: `initialize`, a `call` with one answer, a `turn` with
`turn/started`, an answer and later notifications, and a `notice`, which is not a
request.  `transport` is chosen in the initial state: stdio, one connection whose
writer is never aborted, or sockets.  Tokio hands a free
slot of a channel to the sender that waits longest, so that a `try_send` may find
the channel full while a slot is promised; the model has the waiting sender take
the slot at that moment, which is the same order of sends.  `abort` takes effect
at once.  `Broadcast` is never sent by the code and is left out.

### RequestService

Two variables, what each client asked and what it was told, and an action for each
thing it can be told.  An answer comes at most once and in the order of the
requests, except for refusals of an overloaded reader; nothing but `initialize`
succeeds before an `initialize` has, and nothing is refused after it; each
`initialize` and each turn that succeeds is told of once more, by a notification beside
its answer, and a turn's events come after that notification.  Which of notification and
answer comes first is left open, because the code and README.md:250-256 do not agree
on it (`claim_answer`).
`Connections!ImplementsRequests` maps `asked` to what the readers read and `told` to
what the writers wrote, so that all channels and tasks in between disappear.

### RichEvents

`StartBlock`, `ApplyDelta`, `CompleteBlock`, `StartToolBlock` and `StartResultBlock` (a
block that carries a tool's result) are the stream events, `FinalText` and `FinalTool` the blocks of a final assistant message,
`ToolResult` a block of a user message.  Claude is not assumed to keep any order.
Texts are sequences of chunks, so that appending, and what a client accumulates,
are what they are in the code.  The branch of `FinalText` that completes a
content block is in the model because it is in the code
(`claude_runner.rs:1102-1117`); `TypeOK` shows that it is never taken.

`PartialText` is a text of a partial assistant message, and `FinalText` is its last
one: `partial` is `partial_text`, and `Progress` sends what is new in a text.
`partial_text` is keyed by the message, so that two text blocks of one message are
compared with each other: `ProgressAddsUp` therefore promises the exact text only
if each text extends the one before.  Thinking is told whole (`partial_thinking` is
never written).

### ClaudePipes

| Action | Code |
| --- | --- |
| `WriteChunk`, `WriteFails` | `stdin.write_all(..).await?` (`claude_runner.rs:177-179`), chunk by chunk |
| `PromptWritten` | stdin is dropped, the drain and the cancellation task are spawned (179-193) |
| `ReadLine`, `BadLine`, `Reap` | the read loop and `wait` (199-223) |
| `DrainLine`, `DrainEnds` | the task that reads stderr (181-188) |
| `Interrupt`, `Kill` | `turn/interrupt`, and the cancellation task (190-193) |
| `Shutdown` | the server returns: its ends of the pipes close, claude is not killed |
| `Choose`, `ReadStdin`, `WriteStdout`, `WriteStderr`, `BrokenPipe`, `Exit` | external: claude is *in* an operation until the pipe lets it finish |

Nothing in the code bounds what claude writes before it has read its prompt, and
nothing in the model does.  The server reads none of it before the whole prompt is
written, so the two can wait for each other for ever: the runner for room in stdin,
claude for room in a pipe that it has filled, and no interrupt reaches either,
because the cancellation task is spawned after the write.  `CircularWait` is any
state in which nobody can move before somebody else does; `OneCircularWait` says that
this is the only one and what it takes, a prompt longer than a pipe by more than claude
has read.  The liveness properties end in `PromptWait`, that one wait; without it TLC shows
both of them violated.  When claude closes its
pipes before it ends, and the lock of the child, are left to `TurnLifecycle`.

### ControlSocket and Launcher

| Action | Code |
| --- | --- |
| `Start`, `InstallHandler` | `start_transport`; `shutdown_signal` installs SIGTERM, then SIGINT (`lib.rs:124-187`) |
| `Look`, `Remove`, `Bind` | `exists`, `remove_file`, `bind` (`unix_socket.rs:30-33`), which fail when another server was faster; a failure ends the acceptor, not the server (`lib.rs:141-149`) |
| `Denied` | `create_dir_all`, `remove_file` or `bind` (27-33) fails for a reason of its own: permissions, a directory at the path, a path too long |
| `Input` | stdin of a stdio server ends, or gives a line to one that is stopping |
| `Exit` | `run_main_with_transport_options` returns; a pending read of stdin keeps the process until it returns; the socket file stays |
| `SignalServer` | external: a signal, with the handlers installed so far |
| `Launch`, `LaunchFails`, `Watch` | `spawn`, `child.on("error")`, the handlers (`claude-app-server.js:114-147`) |
| `SignalLauncher` | `forwardSignal` (124-137), or the default action before it is installed |
| `ChildExited` | the exit code, or the same signal sent to itself (149-153) |

`path` is the process whose socket the file leads to, `Earlier` for one that ended
before the first step.  A SIGINT, SIGTERM or SIGHUP the launcher sends itself is
caught by its own handler and it then ends with code 0: `PassedOn` says so, and `Tells`
what is left to learn from the end of a launcher.

### WsAuth

`SettingsValid`, `PolicyValid` and `Policy` are `try_into_settings` and
`policy_from_settings`, `AuthorizeUpgrade` is the function of that name.  The actions
are the start of the server (`Start`), files that are rewritten while it runs
(`Rewrite`) and time (`Tick`); a request changes nothing, so that the properties
quantify over headers in every state.  They compare the code's verdict with
`Entitled`, which is stated from the arguments of the operator alone, with
exact arithmetic.  Digests and signatures are taken to be unforgeable: they are
records of what was digested or signed.

## 3. The runs

Passing runs.  Every property has a mutant of the code's definitions in
`PROJECT.json` that breaks it under the same configuration.

| Run | Instance | Question |
| --- | --- | --- |
| `turn_safety` | 2 threads, 2 turns, 1 session, 4 requests, 1 line each | do turns own their thread exactly while they run, freeze when finished, stream one well-formed sequence with the right verdict, continue the right conversation, and implement `TurnService`? |
| `turn_pipes` | 1 thread, 2 turns, 2 sessions, 3 requests, 2 lines, loose pipes | who can be left running, and on which session does the next turn start? |
| `turn_live` | 1 thread, 2 turns, fair tasks | does an interrupted turn end and lose its process; does the end of claude always give a verdict? |
| `connections` | 2 sockets or stdio, channels of one slot, 2 messages of one client (turns and notices too) and 1 of the other, fair tasks, reading clients | is a request ever lost, answered twice or out of order, or granted before `initialize`; does a closed connection leave anything behind; does every request get its answer while connections fill, hang up and break around it? |
| `rich_events` | 2 indexes, texts of up to 2 chunks, a Bash and a TodoWrite call, 5 lines | does a client that appends deltas agree with the server at every moment, in the rich notifications and in item/progress? |
| `claude_pipes` | a prompt longer than a pipe, output longer than a pipe on stdout and stderr, written at any time | is there any wait for ever but the one while the prompt is written, and is anything of prompt or output lost? |
| `ws_auth` | all flags, 4 contents of each of 2 files, 3-bit times, tokens at their ends | does a WebSocket open for just those the arguments entitle? |
| `launcher` | 2 servers of either transport, 2 signals of 4 kinds, a path in use, free or denied | who has the path after any order of starts and stops, does a signal to a launcher stop its server, and does the launcher end after it? |

Bounds.  Two turns on one thread are what it takes for one to be mistaken for the
other, and two threads for a fork; four requests let a fork run its turn beside
its source's, or an interrupt, a steer and a second turn share one thread.  Two lines let a
session be reported and replaced within a turn.  Channels of one slot make every
send block and every `try_send` fail somewhere; 128 slots only make that rarer.
Five lines let a block be started, grown, stopped, restarted and grown again.
Two servers are what it takes to take a path over and to race for it, and two
signals reach a launcher before and after its handlers, or launcher and server; a
third server or signal only repeats that.  The theorems of `LauncherProofs` hold for
any number.  Three bits hold every order of two times and a skew at both ends of
the range.  The bounds
(`MaxRequests`, `MaxLines`, `Capacity`, `Chatter`) appear only in guards and in
the type invariants; `Terminated`, `Down`, `Over` and `EndOfTurn` stutter where the bounds are
used up or the server has stopped, so that TLC's deadlock check looks for a task
that is stuck.  `Launcher` and `WsAuth` are not checked for deadlock: a server that
nobody signals waits for ever, and one that refuses its arguments ends.  Symmetry is
used in the runs of `TurnLifecycle` without liveness properties, over threads and
turns, which no definition tells apart.

Fairness.  `TurnLifecycle!Fairness` is weak fairness of each runner, of the processor's
sending and of each cancellation task: Tokio polls a task that is ready.  Nothing
is assumed of clients, and of claude one thing: that it reads its prompt, so that
`WriteStdin` returns.  Where it does not, an interrupted turn need not end; the three
properties of `turn_live` do not speak of that case, and `ClaudePipes` does.  Otherwise
claude may write nothing and never exit (an uninterrupted turn then lasts for ever, as in
the code).  `Connections!FairSpec`
is the same for its tasks, and includes `Write`, that is, clients that read what they are
sent.  Without that one client holds up all of them: the outbound task waits for
its writer (`outgoing_message.rs:102-106`).  `ClaudePipes!FairSpec` has its tasks, and
a claude that goes on until it has read its prompt, unless a full pipe stops it;
`TurnEnds` states what more it takes as its hypothesis, a claude that goes on and
exits if it can again and again.
`Launcher!FairSpec` lets processes run; nobody need start, signal or stop one.

### Where the code differs from what is said of it

Each of these runs finds the disagreement as a counterexample.

| Run | Said | Done |
| --- | --- | --- |
| `claim_interrupt` | `turn/interrupt` answers `"status": "interrupted"` | an interrupt between the two critical sections at the end of a turn is answered so, and the turn is announced as completed |
| `claim_kill` | "Cancels the active Claude process." (README.md:228) | a claude that closed stdout is waited for with its lock held, and the cancellation task waits for the lock; a failed write to stdin ends the turn with claude running |
| `claim_answer` | `turn/start`: "The server returns immediately:", the answer, "Then it streams notifications" (README.md:250-256) | `turn/started` is sent before the answer, and the turn's first events may be as well |
| `claim_plan` | `turn/plan/updated`: "Plan update derived from Claude `TodoWrite` tool calls." (README.md:284) | a call whose block starts before its input is streamed counts as planned from then on; whatever shows the input later, a second start or the final message, is passed over |

The models show more, which have no run of their own.  Three are faults of the code:
while a prompt longer than a pipe is being written, `turn/interrupt`, which "Cancels the
active Claude process." (README.md:228), reaches no claude that fills a pipe of its output before it reads
(`CircularWait`); an error result of claude marks the turn as failed, and the end
of the turn overwrites the mark with `completed` and announces `turn/completed`, not
`turn/failed`, "The turn failed before completion." (README.md:273; `ReadResult`, `Finish`); and a
launcher reports a server that SIGHUP has killed, or SIGINT or SIGTERM before its handlers
were there, with code 0, because it catches the signal it sends itself
(`claude-app-server.js:135-137`, 150; `Tells`).  The others: `turn/steer` answers "queued:
will be prepended to the next user message" (`turn_processor.rs:130`), and no action
reads what `TurnSteer` queues; `ApprovalRespond`
between `TurnStart` and `Launch` changes the mode of the turn already started
(README.md:229 says "for later turns"); `ThreadFork` needs a session, not a
completed turn (README.md:225); `item/progress` is a
"Streaming text or thinking delta." (README.md:268), and thinking is never streamed;
a text of a second block in a partial message is sent again with each repetition.

## 4. The proofs

Every theorem holds for every value of the constants under the named assumptions of
the modules.  These ask no more than the code gives: absent values are no
identifiers, bounds are numbers, channels and pipes have room for something,
permission flags are flags, the three kinds of tools differ, texts are sequences.  Each proof
has the same shape: an invariant that is inductive, a lemma for each action or for
each family of actions that touch the same variables, and the property as its
consequence.

### Turns

`TurnLifecycleProofs`, for every set of threads, turns, sessions, modes and contents,
every bound, and both values of `LooseStdio`:

| Theorem | Statement |
| --- | --- |
| `TypeCorrect` | `Spec => []TypeOK` |
| `RunnersOwnTheirTurns` | `Spec => []RunnerOwnsActive` |
| `FinishedTurnsAreFrozen` | `Spec => FinishedTurnFrozen` |
| `InductiveInvariant` | `Spec => []IInv`, on which the three rest |

`RunnerOwnsActive` says that a turn is the active one of its thread exactly from
`turn/start` to the end of its runner.  It is not inductive: a step of a runner
preserves it only if the runner's turn has a thread that is stored, if a turn that
`turn/start` has just claimed has no runner yet, if a runner between its two
critical sections has not yet settled its turn, and if a settled turn has no
runner left.  `IInv` adds these facts (`OwnersAreStored`, `StartingHasTurn`,
`ClaimedTurnIsBorn`, `RunnerHasTurn`, `BornTurnHasPrompt`, `SettledRunnerIsDone`)
to `TypeOK`.  The proof has a step per action; actions that leave the ownership variables
alone share the lemma `SameOwnership`, and `Finish` and `Fail` share `Settles`.  The
frozen turns follow from the same invariant: a finished turn is not active, and
every assignment to a turn goes to an active one or to an unborn one.

`TurnStreamProofs`, on top of `IInv`:

| Theorem | Statement |
| --- | --- |
| `StreamInvariant` | `Spec => []Stream` |
| `StreamsAreWellFormed` | `Spec => []WellFormedStream` |
| `VerdictsTellOutcomes` | `Spec => []VerdictTellsOutcome` |
| `MandateInvariant` | `Spec => []Mandates` |
| `TurnServiceImplemented` | `Spec => ImplementsService` |
| `OrphansOnlyAfterFailure` | `Spec => []OrphanOnlyAfterFailure` |
| `ConversationInvariant` | `Spec => []Conversations` |
| `TurnsContinueTheirThread` | `Spec => []ConversationContinues` |

`Stream` ties what was sent of a turn (`log`) and what its runner still has to send
(`outbox`) to the runner's place: a log begins when a runner does, an outbox holds at
most one message, the verdict is queued in the critical section that settles the
turn and is sent last, and the turn counts one item more than was announced
exactly while an `item/created` waits in the outbox.  For one turn, every action goes on, ends it
or sends (`StreamStep`), and the invariant is preserved for each of the three.

The refinement needs one thing more (`Mandates`): a runner that read `interrupted` in
the first critical section of its end was asked to stop.  A step then maps to `Begin`
(`TurnStart`), `Ask` (`TurnInterrupt`), `End` (`Finish`, `Fail`), `Announce` (`Notify` of a
verdict) or to a stutter.

`Conversations` says of each thread that all turns before the active one are done, that its
session is the one that the newest of them which reported any has reported, and that each of its turns
was launched as the sessions before it ask; a fork keeps its source's
session until its first turn reports its own.  Since only the active turn's runner
writes the thread's session, each step extends this by at most one turn's report.

### Connections

`ConnectionsProofs`, for any connections, either transport, any capacity and any
number of requests and notifications:

| Theorem | Statement |
| --- | --- |
| `ConnectionsTypeCorrect` | `Spec => []TypeOK`, no channel above its capacity |
| `RoadInvariant` | `Spec => []RoadInv` |
| `GoneLeavesNothing` | `Spec => []NothingLeaks` |
| `GateInvariant` | `Spec => []GateInv` |
| `GateHolds` | `Spec => []SessionGate` |
| `RequestsExistOnce` | `Spec => []EveryRequestOnce` |

A message of a connection has a *rank*: 0 for its "opened" event, the number of its
request, which its answer keeps, one past the last for "closed".  Notifications, and the
refusals of an overloaded reader, which go straight into the writer's channel, may stand
anywhere and are left out.  `RoadInv` says that the ranks on the road of a connection - what
was written to it, the writer's channel, the outbound channel, what the processor has
yet to send, the event channel - increase from one to the next and within each; and what
a session and a route tell of the road (`LifeOf`): a connection that is gone has one
only while its "closed" is still ahead, which gives `NothingLeaks`, and one that has
none yet has its "opened" ahead.

`GateInv` adds that a request stays what was asked, that a writer has only messages for its
own client, and that the first "ok" on the path to a
client is that of an `initialize`, with every "refused" ahead of it.  A writer that
ends may take that first "ok" with it; what follows it is then never written.

`EveryRequestOnce` counts: of a request and the answers to it there is one on the whole
road (`OnceFor`).  Each step moves one message, and the count of a channel
changes by one when a message is appended to it or taken from its head; nothing is lost while the
writer runs because whoever is connected and running has a route, or an "opened" ahead of whatever is for it.

`RequestServiceProofs` proves

| Theorem | Statement |
| --- | --- |
| `RequestsImplemented` | `Spec => ImplementsRequests` |

The mapping takes `asked` from what readers read and `told` from what writers wrote, so that
only a write is seen of all steps after a request.  What the head of a writer's
channel may be is therefore an invariant about everything before it.  `ServeInv` has
five parts: `GateInv` and `Once` from above; `Truthful`, that no notification is answered
and no `initialize` refused; `AllOpened`, that nothing reaches a client before its
"opened"; and `Books`.  A *book* of a connection is a balance that some messages raise and others
lower: `Initializing` has the `initialized` notification against the answer to `initialize`,
`Starting` has `turn/started` against the answer of the turn, `Telling` has the
notifications a started turn may still send against those sent.  The balance of what the client was told, of its
queue and of the outbound channel is what the processor or the runner has yet to send (`Fair`), and stays in range
at every message along the road (`Steady`).  So, at the head of the queue, an answer and its
notification find each other told or next to be told (in the code it is the notification that
goes first; the service asks for either), and an event finds a turn that was started.  All of this holds only of
what is still linked to a writer: what is sent after a writer ended reaches nobody.

### Rich notifications

`RichEventsProofs`, for any indexes, messages, texts and tools, and for lines in any order:

| Theorem | Statement |
| --- | --- |
| `ToolInvariant` | `Spec => []ToolInv` |
| `ToolsAddUp` | `Spec => []ToolItemsAddUp` |
| `PlansUpdateOnce` | `Spec => []PlanUpdatedOnce` |
| `TextInvariant` | `Spec => []TextInv` |
| `TextsAreWhole` | `Spec => []CompletedTextIsWhole` |
| `ClientsAgree` | `Spec => []ClientAgreesWithServer` |
| `ProgressInvariant` | `Spec => []ProgressInv` |
| `ProgressIsWhole` | `Spec => []ProgressAddsUp` |
| `RichTypesCorrect` | `Spec => []TypeOK` |

`ToolInv` relates the server's sets (`tool_calls`, completed, planned) to the notifications
sent for a call.  `TextInv` says that the texts told since an item was last started join to the text of
its content block, and that every `item/completed` so far carried what was told before it.
`ProgressInv` says that what a client was told of a message ends with `partial_text`, and is all of it
if each text read extends the one before.

What a client accumulates is `FlattenSeq` of its deltas, which the library defines
recursively.  The proofs need only what one more delta adds, and get it by taking the function
apart at one place (`Joins`): two functions that obey the same recursion agree because there
is no least place where they differ.  That the naturals are well founded is a
first-order fact (`LeastNumber`) and needs no induction theorem.

### Pipes, authorisation, servers

`ClaudePipesProofs`, for every length of prompt, every capacity and every
bound on what claude writes, from `SizeAssumption` alone:

| Theorem | Statement |
| --- | --- |
| `InductiveInvariant` | `Spec => []IInv` |
| `TypeCorrect` | `Spec => []TypeOK`, no pipe above its capacity |
| `PromptIsWhole` | `Spec => []PromptWhole` |
| `OutputIsRead` | `Spec => []OutputAllRead` |
| `OnlyThePromptDeadlocks` | `Spec => []OneCircularWait` |
| `ShortPromptsNeverWait` | if `Prompt <= Capacity`, `Spec => []~CircularWait` |

The inductive invariant ties the tasks to the runner's place (the drain and the
cancellation task exist from the moment the prompt is written, and nothing of claude's
output is read before), and keeps what is read at what is written when the runner has
seen the end of both.  A circular wait is then examined by what claude is blocked in:
reading stdin, it would have a runner that can write; writing, it would have a reader with
a full pipe before it, unless the runner is still at the prompt.

`WsAuthProofs` proves `StrangersStayOut` (`Spec => []OnlyEntitledEnter`) and
`HoldersEnter` (`Spec => []EntitledMayEnter`) for every width of times, every skew,
every set of secrets, names, tokens and arguments.  The invariant is that a listening
server's policy is the one its arguments and the files of its start give; the lemma
`SaturationIsExact` says that comparing a time of the range with a saturated sum is
comparing it with the sum.

`LauncherProofs`, for any set of processes and any number of signals:

| Theorem | Statement |
| --- | --- |
| `TypeCorrect` | `Spec => []TypeOK` |
| `LoneServerGetsThePath` | `Spec => []AloneGetsThePath` |
| `NewestServerIsReachable` | `Spec => []NewestIsReachable` |
| `LauncherEndsLast` | `Spec => []LauncherOutlivesServer` |

The path is the hard part: a server that is not racing is the only one between its
look and its bind, and so the path is as it left it.  What the operating system denies
is no race: the first theorem excepts a server that was denied, and a denied bind
leaves no server that the second could promise.  `LauncherEndsLast` says that a launcher
ends after its server and as it did, unless a signal took the launcher; except that a server
killed by SIGHUP, SIGINT or SIGTERM is reported as one that ended in order (`Tells`).

### Only model-checked

The liveness properties: `InterruptEndsTurn`, `InterruptKillsClaude` and
`ExitGivesVerdict` of `TurnLifecycle`, `InterruptEndsTurn` and `TurnEnds` of `ClaudePipes`,
`EveryRequestAnswered` and `ClosedIsForgotten` of `Connections`, and `SignalStopsServer`
of `Launcher`.  They need fairness, and with it ENABLED, which the installed TLAPS does
not handle.  The absence of deadlock is TLC's too, and so are the counterexamples of
section 3.

## 5. What is left

Liveness for instances of any size is beyond TLAPS as installed.  What the proofs
say, they say of each module: that the outbound channel `TurnLifecycle`
fills is the one `Connections` empties is argued in section 2 and not a theorem.

Not modelled, and why: the npm packaging scripts and the release workflow (they
copy files once, outside the running server); parsing of listen URLs (one pure
function at start-up); the sum of four token counts (`add_total_tokens`); serde types (no behaviour); `model/list`,
`skills/list`, `app/list` (constant answers, `call` in `Connections`); logging;
HTTP upgrade and TLS (libraries).

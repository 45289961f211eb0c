---------------------------- MODULE Connections ----------------------------
(***************************************************************************)
(* The way of a request through the server: the reader and the writer task *)
(* of each connection, the bounded channel of transport events, the        *)
(* processor task with its sessions, the bounded outbound channel and the  *)
(* outbound task with its routing table.  What a request does to threads   *)
(* and turns is TurnLifecycle's subject; here a request is a method that   *)
(* makes the processor send one answer, and for some of them notifications *)
(* as well.                                                                *)
(*                                                                         *)
(* A bounded channel is a sequence: sending waits for room (or gives up,   *)
(* for try_send), and fails once the receiving task has ended.             *)
(***************************************************************************)
EXTENDS Integers, Sequences, FiniteSets

CONSTANTS
  Conn,         \* connection identifiers
  Method,       \* what clients send, among the four kinds below
  Uses,         \* bound: those the client of each connection sends
  Transport,    \* the transports a server may be started with
  Capacity,     \* CHANNEL_CAPACITY, of every channel
  Chatter,      \* bound: notifications of a turn after turn/started
  MaxRequests   \* bound: messages the client of each connection sends

ASSUME MethodAssumption ==
  Method \subseteq {"initialize", "call", "turn", "notice"}

ASSUME SizeAssumption ==
  /\ Transport \subseteq {"stdio", "socket"}
  /\ Capacity \in Nat \ {0}
  /\ Chatter \in Nat
  /\ Uses \in [Conn -> SUBSET Method] /\ MaxRequests \in [Conn -> Nat]

VARIABLES
  up,          \* is the server running?
  transport,   \* stdio (one connection, its writer never aborted) or a kind of socket
  reader,      \* where the reading task of each connection is
  sent,        \* history: the messages read from each connection
  events,      \* the channel of transport events
  session,     \* the processor's sessions: none, open, or initialized
  todo,        \* what the processor has yet to send before its next event
  chatter,     \* notifications that runners have yet to send
  outbound,    \* the outbound channel
  routes,      \* the connections the outbound task knows
  disconnect,  \* disconnect tokens that were cancelled
  writer,      \* the writing task of each connection
  queue,       \* the channel of each writing task
  received     \* history: what was written to each connection

readerVars    == <<reader, sent>>
processorVars == <<session, todo, chatter>>
writerVars    == <<writer, queue, received>>
vars == <<up, transport, readerVars, events, processorVars, outbound, routes, disconnect,
          writerVars>>

Request == [kind: Method, conn: Conn, id: Nat \ {0}]
Control == [kind: {"opened", "closed"}, conn: Conn, id: {0}]
Outgoing ==
  [kind: {"ok", "refused", "overloaded"}, conn: Conn, id: Nat \ {0}]
  \cup [kind: {"initialized", "started", "event"}, conn: Conn, id: {0}]

Signal(kind, c) == [kind |-> kind, conn |-> c, id |-> 0]

Init ==
  /\ up         = TRUE
  /\ transport  \in Transport
  /\ reader     = [c \in Conn |-> "none"]
  /\ sent       = [c \in Conn |-> << >>]
  /\ events     = << >>
  /\ session    = [c \in Conn |-> "none"]
  /\ todo       = << >>
  /\ chatter    = [c \in Conn |-> 0]
  /\ outbound   = << >>
  /\ routes     = {}
  /\ disconnect = {}
  /\ writer     = [c \in Conn |-> "none"]
  /\ queue      = [c \in Conn |-> << >>]
  /\ received   = [c \in Conn |-> << >>]

LooseRoom(channel) == Len(channel) <= Capacity
Room(channel) == Len(channel) < Capacity

-----------------------------------------------------------------------------
(* The reading task of connection c.                                       *)

\* Stdio is one connection; sockets accept any number.
Accept(c) ==
  /\ reader[c] = "none"
  /\ transport = "stdio" => \A d \in Conn : reader[d] = "none"
  /\ reader' = [reader EXCEPT ![c] = "opening"]
  /\ UNCHANGED <<sent, events, processorVars, outbound, routes, disconnect,
                 writerVars>>

\* Announce the connection, waiting for room, then spawn the writing task.
Open(c) ==
  /\ reader[c] = "opening"
  /\ Room(events)
  /\ events' = Append(events, Signal("opened", c))
  /\ reader' = [reader EXCEPT ![c] = "reading"]
  /\ writer' = [writer EXCEPT ![c] = "running"]
  /\ UNCHANGED <<sent, processorVars, outbound, routes, disconnect, queue,
                 received>>

\* One message of the client.  It never waits for room: a request that finds
\* none is answered by the reader, a notification is dropped.
Forward(c, method) ==
  /\ reader[c] = "reading"
  /\ Len(sent[c]) < MaxRequests[c]
  /\ sent' = [sent EXCEPT ![c] = Append(@, method)]
  /\ \/ /\ Room(events)
        /\ events' = Append(events, [kind |-> method, conn |-> c,
                                     id |-> Len(sent[c]) + 1])
        /\ UNCHANGED reader
     \/ /\ ~Room(events)
        /\ reader' = IF method = "notice" THEN reader
                     ELSE [reader EXCEPT ![c] = "refusing"]
        /\ UNCHANGED events
  /\ UNCHANGED <<processorVars, outbound, routes, disconnect, writerVars>>

\* The overload answer goes to the connection's own writer, which may be gone.
Refuse(c) ==
  /\ reader[c] = "refusing"
  /\ \/ /\ writer[c] = "running" /\ Room(queue[c])
        /\ queue' = [queue EXCEPT ![c] =
             Append(@, [kind |-> "overloaded", conn |-> c, id |-> Len(sent[c])])]
     \/ writer[c] = "dead" /\ UNCHANGED queue
  /\ reader' = [reader EXCEPT ![c] = "reading"]
  /\ UNCHANGED <<sent, events, processorVars, outbound, routes, disconnect,
                 writer, received>>

\* End of input, a close frame or a read error.  A socket's writing task is
\* aborted with what it has queued; stdio's is left alone.
HangUp(c) ==
  /\ reader[c] = "reading"
  /\ reader' = [reader EXCEPT ![c] = "closing"]
  /\ IF transport = "stdio" THEN UNCHANGED <<writer, queue>>
     ELSE /\ writer' = [writer EXCEPT ![c] = "dead"]
          /\ queue' = [queue EXCEPT ![c] = << >>]
  /\ UNCHANGED <<sent, events, processorVars, outbound, routes, disconnect,
                 received>>

Close(c) ==
  /\ reader[c] = "closing"
  /\ Room(events)
  /\ events' = Append(events, Signal("closed", c))
  /\ reader' = [reader EXCEPT ![c] = "gone"]
  /\ UNCHANGED <<sent, processorVars, outbound, routes, disconnect, writerVars>>

-----------------------------------------------------------------------------
(* The processor task, and the runner tasks it spawns.                     *)

SentOrFull == todo = << >> \/ ~Room(outbound)
Sent == todo = << >>

\* Take an event of these kinds, once what the last one made it send is sent.
NextEvent(kinds) ==
  /\ Sent
  /\ events # << >>
  /\ Head(events).kind \in kinds
  /\ events' = Tail(events)
  /\ UNCHANGED <<readerVars, chatter, outbound, routes, disconnect, writerVars>>

OpenConnection ==
  /\ NextEvent({"opened"})
  /\ session' = [session EXCEPT ![Head(events).conn] = "open"]
  /\ todo' = <<Head(events)>>

CloseConnection ==
  /\ NextEvent({"closed"})
  /\ session' = [session EXCEPT ![Head(events).conn] = "none"]
  /\ todo' = <<Head(events)>>

InitializedAlways(c) == TRUE
Initialized(c) == session[c] = "initialized"

Answer(kind) == [Head(events) EXCEPT !.kind = kind]

\* A turn is announced, then the request that began it is answered.
StartedFirst(c) == <<Signal("started", c), Answer("ok")>>

\* A request, or something that is not one and changes nothing.
ProcessMessage ==
  /\ NextEvent(Method)
  /\ LET c == Head(events).conn
         method == Head(events).kind
     IN  /\ session' = IF method = "initialize" /\ session[c] # "none"
                       THEN [session EXCEPT ![c] = "initialized"] ELSE session
         /\ todo' = CASE method = "notice" -> << >>
                      [] method = "initialize" ->
                           <<Signal("initialized", c), Answer("ok")>>
                      [] method = "call" /\ Initialized(c) -> <<Answer("ok")>>
                      [] method = "turn" /\ Initialized(c) -> StartedFirst(c)
                      [] OTHER -> <<Answer("refused")>>

\* Send, waiting for room; a runner is spawned after turn/started.
SendOutbound ==
  /\ todo # << >>
  /\ Room(outbound)
  /\ outbound' = Append(outbound, Head(todo))
  /\ todo' = Tail(todo)
  /\ chatter' = IF Head(todo).kind = "started"
                THEN [chatter EXCEPT ![Head(todo).conn] = @ + Chatter] ELSE chatter
  /\ UNCHANGED <<readerVars, events, session, routes, disconnect, writerVars>>

RunnerNotify(c) ==
  /\ chatter[c] > 0
  /\ Room(outbound)
  /\ outbound' = Append(outbound, Signal("event", c))
  /\ chatter' = [chatter EXCEPT ![c] = @ - 1]
  /\ UNCHANGED <<readerVars, events, session, todo, routes, disconnect,
                 writerVars>>

-----------------------------------------------------------------------------
(* The outbound task.  It handles one control event at a time, and waits   *)
(* for the writer it sends to.                                             *)

NextOutbound(kinds) ==
  /\ outbound # << >>
  /\ Head(outbound).kind \in kinds
  /\ outbound' = Tail(outbound)
  /\ UNCHANGED <<readerVars, events, processorVars, received>>

RouteOpened ==
  /\ NextOutbound({"opened"})
  /\ routes' = routes \cup {Head(outbound).conn}
  /\ UNCHANGED <<disconnect, writer, queue>>

Kept(c) == routes
Forgotten(c) == routes \ {c}

RouteClosed ==
  /\ NextOutbound({"closed"})
  /\ LET c == Head(outbound).conn IN
       /\ routes' = Forgotten(c)
       /\ disconnect' = IF c \in routes THEN disconnect \cup {c} ELSE disconnect
  /\ UNCHANGED <<writer, queue>>

WriterHung(c) == FALSE
WriterGone(c) == writer[c] # "running"

\* An envelope: dropped if the connection is unknown; if its writing task has
\* ended the connection is forgotten as well.
RouteEnvelope ==
  /\ NextOutbound({"ok", "refused", "initialized", "started", "event"})
  /\ LET c == Head(outbound).conn IN
       \/ /\ c \notin routes
          /\ UNCHANGED <<routes, disconnect, writer, queue>>
       \/ /\ c \in routes /\ WriterGone(c)
          /\ routes' = routes \ {c}
          /\ disconnect' = disconnect \cup {c}
          /\ UNCHANGED <<writer, queue>>
       \/ /\ c \in routes /\ writer[c] = "running" /\ Room(queue[c])
          /\ queue' = [queue EXCEPT ![c] = Append(@, Head(outbound))]
          /\ UNCHANGED <<routes, disconnect, writer>>

-----------------------------------------------------------------------------
(* The writing task of connection c.                                       *)

Write(c) ==
  /\ writer[c] = "running" /\ queue[c] # << >>
  /\ received' = [received EXCEPT ![c] = Append(@, Head(queue[c]))]
  /\ queue' = [queue EXCEPT ![c] = Tail(@)]
  /\ UNCHANGED <<readerVars, events, processorVars, outbound, routes,
                 disconnect, writer>>

StopWriting(c) ==
  /\ writer' = [writer EXCEPT ![c] = "dead"]
  /\ queue' = [queue EXCEPT ![c] = << >>]
  /\ UNCHANGED <<readerVars, events, processorVars, outbound, routes,
                 disconnect, received>>

WriteFails(c) ==
  /\ writer[c] = "running" /\ queue[c] # << >>
  /\ StopWriting(c)

\* The senders of the writer's channel: the reader, the route, and an "opened"
\* on its way to the outbound task.
Pending(channel, kind, c) ==
  \E i \in DOMAIN channel : channel[i].kind = kind /\ channel[i].conn = c

Opening(c) == \E channel \in {events, todo, outbound} : Pending(channel, "opened", c)
HasSender(c) == reader[c] # "gone" \/ c \in routes \/ Opening(c)

\* The channel is drained and has no sender left, or a socket's token is cancelled.
WriterEnds(c) ==
  /\ writer[c] = "running"
  /\ \/ transport # "stdio" /\ c \in disconnect
     \/ queue[c] = << >> /\ ~HasSender(c)
  /\ StopWriting(c)

-----------------------------------------------------------------------------
(* SIGINT and SIGTERM may come at any time; stdio stops the server 200 ms  *)
(* after its reader is done, whatever the channels still hold.             *)
Shutdown ==
  /\ up
  /\ up' = FALSE
  /\ UNCHANGED <<transport, readerVars, events, processorVars, outbound, routes,
                 disconnect, writerVars>>

Down == ~up /\ UNCHANGED vars

Up == up /\ UNCHANGED <<up, transport>>

Reader(c)  == Up /\ (Open(c) \/ Refuse(c) \/ Close(c))
Processor  == Up /\ (OpenConnection \/ CloseConnection \/ ProcessMessage \/ SendOutbound)
Runners(c) == Up /\ RunnerNotify(c)
Router     == Up /\ (RouteOpened \/ RouteClosed \/ RouteEnvelope)
Writer(c)  == Up /\ (Write(c) \/ WriterEnds(c))
Client(c)  == Up /\ (Accept(c) \/ HangUp(c) \/ WriteFails(c)
                       \/ \E method \in Uses[c] : Forward(c, method))

Next ==
  \/ Processor
  \/ Router
  \/ \E c \in Conn : Reader(c) \/ Runners(c) \/ Writer(c) \/ Client(c)
  \/ Shutdown
  \/ Down

Spec == Init /\ [][Next]_vars

(***************************************************************************)
(* Every task of the server is polled while it can go on, and clients read *)
(* what is written to them.  Clients owe no message and need not hang up.  *)
(***************************************************************************)
FairSpec ==
  /\ Spec
  /\ WF_vars(Processor) /\ WF_vars(Router)
  /\ \A c \in Conn : WF_vars(Reader(c)) /\ WF_vars(Runners(c)) /\ WF_vars(Writer(c))

-----------------------------------------------------------------------------
(* What the connections promise.                                           *)

\* Every variable keeps its type, and no channel exceeds its capacity.
TypeOK ==
  /\ up \in BOOLEAN /\ transport \in Transport
  /\ reader \in [Conn -> {"none", "opening", "reading", "refusing", "closing", "gone"}]
  /\ sent \in [Conn -> Seq(Method)]
  /\ \A c \in Conn : Len(sent[c]) <= MaxRequests[c]
  /\ events \in Seq(Request \cup Control) /\ Len(events) <= Capacity
  /\ session \in [Conn -> {"none", "open", "initialized"}]
  /\ todo \in Seq(Outgoing \cup Control) /\ Len(todo) <= 2
  /\ chatter \in [Conn -> Nat]
  /\ outbound \in Seq(Outgoing \cup Control) /\ Len(outbound) <= Capacity
  /\ routes \subseteq Conn
  /\ disconnect \subseteq Conn
  /\ writer \in [Conn -> {"none", "running", "dead"}]
  /\ queue \in [Conn -> Seq(Outgoing)]
  /\ \A c \in Conn : Len(queue[c]) <= Capacity
  /\ received \in [Conn -> Seq(Outgoing)]

AnswerKind == {"ok", "refused", "overloaded"}

\* The answers to request n of c that a channel holds.
AnswersIn(channel, c, n) ==
  {i \in DOMAIN channel : channel[i].kind \in AnswerKind
                            /\ channel[i].conn = c /\ channel[i].id = n}

\* How often request n of c, or an answer to it, exists anywhere.
Instances(c, n) ==
  Cardinality({i \in DOMAIN events : events[i].kind \in Method
                                       /\ events[i].conn = c /\ events[i].id = n})
    + Cardinality(AnswersIn(todo, c, n))
    + Cardinality(AnswersIn(outbound, c, n))
    + Cardinality(AnswersIn(queue[c], c, n))
    + Cardinality(AnswersIn(received[c], c, n))
    + (IF reader[c] = "refusing" /\ n = Len(sent[c]) THEN 1 ELSE 0)

\* A request is answered at most once, by the processor or by the overloaded
\* reader; and while the connection's writer runs, it is never lost: through
\* full channels, overload, other connections that come and go, it is waiting
\* somewhere or it was answered.
EveryRequestOnce ==
  \A c \in Conn : \A n \in DOMAIN sent[c] : sent[c][n] # "notice" =>
    /\ Instances(c, n) <= 1
    /\ writer[c] = "running" => Instances(c, n) = 1

AnswersOf(c, kind) ==
  {received[c][i].id : i \in {j \in DOMAIN received[c] : received[c][j].kind = kind}}

\* Nothing but initialize succeeds on a connection before an initialize of that
\* very connection; and once that was answered nothing is refused any more.
SessionGate ==
  \A c \in Conn :
    LET granted == {n \in AnswersOf(c, "ok") : sent[c][n] = "initialize"} IN
      /\ \A n \in AnswersOf(c, "ok") : \E m \in granted : m <= n
      /\ \A n \in AnswersOf(c, "refused") : \A m \in granted : n < m

\* A connection whose reader is gone leaves nothing behind but what its "closed"
\* event, still on its way, will remove.
NothingLeaks ==
  \A c \in Conn : reader[c] = "gone" =>
    /\ session[c] # "none" => Pending(events, "closed", c)
    /\ c \in routes => \E channel \in {events, todo, outbound} :
                         Pending(channel, "closed", c)

(***************************************************************************)
(* The tasks and channels above implement RequestService: the client of a  *)
(* connection cannot tell them from one server that answers in order.      *)
(***************************************************************************)
Service == INSTANCE RequestService WITH asked <- sent, told <- received

ImplementsRequests == Service!Spec

\* README.md:250-256 says of turn/start "The server returns immediately:", shows the
\* answer, and goes on "Then it streams notifications until the turn completes or
\* fails.": what a client is told of a turn comes after the answer of a turn.
AnswerLeadsStream ==
  \A c \in Conn : \A i \in DOMAIN received[c] :
    received[c][i].kind \in {"started", "event"} =>
      \E j \in 1..(i - 1) :
        received[c][j].kind = "ok" /\ sent[c][received[c][j].id] = "turn"

\* Every request is answered, unless its connection breaks or the server stops.
EveryRequestAnswered ==
  \A c \in Conn : \A n \in 1..MaxRequests[c] :
    (n <= Len(sent[c]) /\ sent[c][n] # "notice")
      ~> (AnswersIn(received[c], c, n) # {} \/ writer[c] = "dead" \/ ~up)

\* A closed connection is eventually forgotten: no session, route or writer.
ClosedIsForgotten ==
  \A c \in Conn :
    reader[c] = "gone"
      ~> (session[c] = "none" /\ c \notin routes /\ writer[c] = "dead") \/ ~up

=============================================================================

-------------------------- MODULE ConnectionsProofs --------------------------
(***************************************************************************)
(* Proofs about Connections, for any connections, transports, capacities   *)
(* and bounds.                                                             *)
(***************************************************************************)
EXTENDS Connections, TLAPS, FiniteSetTheorems

-----------------------------------------------------------------------------
(* Types.                                                                  *)

Message == Request \cup Control \cup Outgoing

LEMMA MessageFields ==
  ASSUME NEW m \in Message
  PROVE  m.conn \in Conn /\ m.id \in Nat
BY DEF Message, Request, Control, Outgoing

LEMMA SignalType ==
  ASSUME NEW c \in Conn
  PROVE  /\ \A kind \in {"opened", "closed"} : Signal(kind, c) \in Control
         /\ \A kind \in {"initialized", "started", "event"} :
              Signal(kind, c) \in Outgoing
         /\ \A kind \in {"opened", "closed", "initialized", "started", "event"} :
              /\ Signal(kind, c).kind = kind
              /\ Signal(kind, c).conn = c
              /\ Signal(kind, c).id = 0
BY DEF Signal, Control, Outgoing

\* Sending to a channel with room and receiving keep what channels are.
LEMMA ChannelUpdates ==
  ASSUME NEW S, NEW channel \in Seq(S)
  PROVE  /\ Len(channel) \in Nat
         /\ \A m \in S : /\ Append(channel, m) \in Seq(S)
                         /\ Len(Append(channel, m)) = Len(channel) + 1
         /\ channel # << >> =>
              /\ Head(channel) \in S /\ Tail(channel) \in Seq(S)
              /\ Len(Tail(channel)) = Len(channel) - 1
<1>1. CASE channel # << >>
  <2>1. Head(channel) \in S /\ Tail(channel) \in Seq(S)
    BY <1>1
  <2>2. Len(Tail(channel)) = Len(channel) - 1
    BY <1>1
  <2> QED
    BY <2>1, <2>2
<1> QED
  BY <1>1

LEMMA SendFits ==
  ASSUME NEW S, NEW channel \in Seq(S), NEW m \in S, Room(channel)
  PROVE  Append(channel, m) \in Seq(S) /\ Len(Append(channel, m)) <= Capacity
BY ChannelUpdates, SizeAssumption DEF Room

\* What the processor takes from the channel of events and what it answers.
LEMMA EventType ==
  ASSUME TypeOK, NEW kinds, NextEvent(kinds)
  PROVE  /\ Head(events) \in Request \cup Control
         /\ events' \in Seq(Request \cup Control) /\ Len(events') <= Capacity
         /\ Head(events).conn \in Conn
         /\ Head(events).kind \in Method => Head(events) \in Request
         /\ Head(events).kind \in {"opened", "closed"} => Head(events) \in Control
<1>1. /\ Head(events) \in Request \cup Control
      /\ events' \in Seq(Request \cup Control) /\ Len(events') <= Capacity
  BY ChannelUpdates, SizeAssumption DEF TypeOK, NextEvent
<1> QED
  BY <1>1, MethodAssumption DEF Request, Control

LEMMA AnswerType ==
  ASSUME NEW m \in Request, NEW kind \in {"ok", "refused"}
  PROVE  /\ [m EXCEPT !.kind = kind] \in Outgoing
         /\ [m EXCEPT !.kind = kind].kind = kind
         /\ [m EXCEPT !.kind = kind].conn = m.conn
         /\ [m EXCEPT !.kind = kind].id = m.id
BY DEF Request, Outgoing

\* The reader refuses a message only after it has read one.
TypeInv ==
  /\ TypeOK
  /\ \A c \in Conn : reader[c] = "refusing" => Len(sent[c]) > 0

LEMMA InitType == Init => TypeInv
BY SizeAssumption DEF Init, TypeInv, TypeOK

LEMMA ReaderType ==
  ASSUME TypeInv, NEW c \in Conn, Reader(c) \/ Client(c)
  PROVE  TypeOK'
<1> USE SizeAssumption DEF TypeOK, TypeInv
<1>1. CASE Up /\ Accept(c)
  BY <1>1 DEF Up, Accept, processorVars, writerVars
<1>2. CASE Up /\ Open(c)
  <2>1. events' \in Seq(Request \cup Control) /\ Len(events') <= Capacity
    BY <1>2, SendFits, SignalType DEF Open
  <2> QED
    BY <1>2, <2>1 DEF Up, Open, processorVars
<1>3. ASSUME NEW method \in Uses[c], Up /\ Forward(c, method)
      PROVE  TypeOK'
  <2>1. method \in Method
    OBVIOUS
  <2>2. /\ Append(sent[c], method) \in Seq(Method)
        /\ Len(Append(sent[c], method)) = Len(sent[c]) + 1
    BY <2>1, ChannelUpdates
  <2>3. /\ sent' \in [Conn -> Seq(Method)]
        /\ \A d \in Conn : Len(sent'[d]) <= MaxRequests[d]
    BY <1>3, <2>2, SMTT(30) DEF Forward
  <2>4. [kind |-> method, conn |-> c, id |-> Len(sent[c]) + 1] \in Request
    BY <2>1 DEF Request
  <2>5. events' \in Seq(Request \cup Control) /\ Len(events') <= Capacity
    <3>1. CASE events' = events
      BY <3>1
    <3>2. CASE /\ Room(events)
               /\ events' = Append(events, [kind |-> method, conn |-> c,
                                            id |-> Len(sent[c]) + 1])
      BY <2>4, <3>2, SendFits
    <3> QED
      BY <1>3, <3>1, <3>2 DEF Forward
  <2>6. reader' \in [Conn -> {"none", "opening", "reading", "refusing", "closing",
                              "gone"}]
    BY <1>3, ZenonT(60) DEF Forward
  <2> QED
    BY <1>3, <2>3, <2>5, <2>6 DEF Up, Forward, processorVars, writerVars
<1>4. CASE Up /\ Refuse(c)
  <2>1. [kind |-> "overloaded", conn |-> c, id |-> Len(sent[c])] \in Outgoing
    BY <1>4, ChannelUpdates DEF Outgoing, Refuse
  <2>2. CASE queue' = queue
    BY <1>4, <2>2 DEF Up, Refuse, processorVars
  <2>3. CASE /\ Room(queue[c])
             /\ queue' = [queue EXCEPT ![c] =
                  Append(@, [kind |-> "overloaded", conn |-> c, id |-> Len(sent[c])])]
    <3>1. /\ queue' \in [Conn -> Seq(Outgoing)]
          /\ \A d \in Conn : Len(queue'[d]) <= Capacity
      BY <2>1, <2>3, SendFits
    <3> QED
      BY <1>4, <3>1 DEF Up, Refuse, processorVars
  <2> QED
    BY <1>4, <2>2, <2>3 DEF Refuse
<1>5. CASE Up /\ HangUp(c)
  <2>1. CASE UNCHANGED <<writer, queue>>
    BY <1>5, <2>1 DEF Up, HangUp, processorVars
  <2>2. CASE /\ writer' = [writer EXCEPT ![c] = "dead"]
             /\ queue' = [queue EXCEPT ![c] = << >>]
    BY <1>5, <2>2 DEF Up, HangUp, processorVars
  <2> QED
    BY <1>5, <2>1, <2>2 DEF HangUp
<1>6. CASE Up /\ Close(c)
  <2>1. events' \in Seq(Request \cup Control) /\ Len(events') <= Capacity
    BY <1>6, SendFits, SignalType DEF Close
  <2> QED
    BY <1>6, <2>1 DEF Up, Close, processorVars, writerVars
<1>7. CASE Up /\ WriteFails(c)
  BY <1>7 DEF Up, WriteFails, StopWriting, readerVars, processorVars
<1> QED
  BY <1>1, <1>2, <1>3, <1>4, <1>5, <1>6, <1>7 DEF Reader, Client

LEMMA ReaderRefuses ==
  ASSUME TypeInv, NEW c \in Conn, Reader(c) \/ Client(c)
  PROVE  \A d \in Conn : reader'[d] = "refusing" => Len(sent'[d]) > 0
<1> USE DEF TypeOK, TypeInv
<1>1. ASSUME NEW method \in Uses[c], Up /\ Forward(c, method)
      PROVE  \A d \in Conn : reader'[d] = "refusing" => Len(sent'[d]) > 0
  <2>1. Append(sent[c], method) \in Seq(Method)
        /\ Len(Append(sent[c], method)) = Len(sent[c]) + 1 /\ Len(sent[c]) \in Nat
    BY ChannelUpdates, SizeAssumption
  <2>2. Len(sent'[c]) > 0 /\ \A d \in Conn \ {c} : sent'[d] = sent[d] /\ reader'[d] = reader[d]
    BY <1>1, <2>1 DEF Forward
  <2> QED
    BY <2>2
<1>2. CASE sent' = sent /\ \A d \in Conn : reader'[d] = "refusing" => reader[d] = "refusing"
  BY <1>2
<1> QED
  BY <1>1, <1>2
     DEF Reader, Client, Open, Refuse, Close, Accept, HangUp, WriteFails, StopWriting,
         readerVars

LEMMA ProcessorType ==
  ASSUME TypeInv, Processor
  PROVE  TypeOK'
<1> USE SizeAssumption DEF TypeOK, TypeInv
<1>1. CASE Up /\ (OpenConnection \/ CloseConnection)
  <2>1. \E kinds \in SUBSET {"opened", "closed"} : NextEvent(kinds)
    BY <1>1 DEF OpenConnection, CloseConnection
  <2>2. /\ events' \in Seq(Request \cup Control) /\ Len(events') <= Capacity
        /\ Head(events) \in Control
    BY <2>1, EventType DEF NextEvent
  <2>3. todo' \in Seq(Outgoing \cup Control) /\ Len(todo') <= 2
    <3>1. \A m \in Control : <<m>> \in Seq(Outgoing \cup Control) /\ Len(<<m>>) <= 2
      OBVIOUS
    <3> QED
      <4>1. todo' = <<Head(events)>>
        BY <1>1 DEF OpenConnection, CloseConnection
      <4> QED
        BY <2>2, <3>1, <4>1
  <2>4. session' \in [Conn -> {"none", "open", "initialized"}]
    BY <1>1 DEF OpenConnection, CloseConnection
  <2> QED
    BY <1>1, <2>1, <2>2, <2>3, <2>4
       DEF Up, OpenConnection, CloseConnection, NextEvent, readerVars, writerVars
<1>2. CASE Up /\ ProcessMessage
  <2>1. NextEvent(Method)
    BY <1>2 DEF ProcessMessage
  <2>2. /\ events' \in Seq(Request \cup Control) /\ Len(events') <= Capacity
        /\ Head(events) \in Request /\ Head(events).conn \in Conn
    BY <2>1, EventType DEF NextEvent
  <2>3. todo' \in Seq(Outgoing) /\ Len(todo') <= 2
    <3>1. /\ Answer("ok") \in Outgoing /\ Answer("refused") \in Outgoing
          /\ Signal("started", Head(events).conn) \in Outgoing
          /\ Signal("initialized", Head(events).conn) \in Outgoing
      BY <2>2, AnswerType, SignalType DEF Answer
    <3>2. /\ << >> \in Seq(Outgoing) /\ Len(<< >>) <= 2
          /\ \A m \in Outgoing : <<m>> \in Seq(Outgoing) /\ Len(<<m>>) <= 2
          /\ \A m, n \in Outgoing : <<m, n>> \in Seq(Outgoing) /\ Len(<<m, n>>) <= 2
      OBVIOUS
    <3>3. \/ todo' = << >> \/ todo' = <<Answer("ok")>> \/ todo' = <<Answer("refused")>>
          \/ todo' = <<Signal("started", Head(events).conn), Answer("ok")>>
          \/ todo' = <<Signal("initialized", Head(events).conn), Answer("ok")>>
      BY <1>2 DEF ProcessMessage, StartedFirst
    <3>4. CASE \E m \in Outgoing : todo' = <<m>>
      BY <3>2, <3>4
    <3>5. CASE \E m, n \in Outgoing : todo' = <<m, n>>
      BY <3>2, <3>5
    <3> QED
      BY <3>1, <3>2, <3>3, <3>4, <3>5
  <2>4. session' \in [Conn -> {"none", "open", "initialized"}]
    BY <1>2 DEF ProcessMessage
  <2>5. todo' \in Seq(Outgoing \cup Control)
    BY <2>3
  <2> QED
    BY <1>2, <2>1, <2>2, <2>3, <2>4, <2>5 DEF Up, NextEvent, readerVars, writerVars
<1>3. CASE Up /\ SendOutbound
  <2>1. /\ Head(todo) \in Outgoing \cup Control
        /\ todo' \in Seq(Outgoing \cup Control) /\ Len(todo') <= 2
    BY <1>3, ChannelUpdates, SMTT(30) DEF SendOutbound
  <2>2. outbound' \in Seq(Outgoing \cup Control) /\ Len(outbound') <= Capacity
    BY <1>3, <2>1, SendFits DEF SendOutbound
  <2>3. chatter' \in [Conn -> Nat]
    <3>1. CASE chatter' = chatter
      BY <3>1
    <3>2. CASE chatter' = [chatter EXCEPT ![Head(todo).conn] = @ + Chatter]
      <4>1. \A d \in Conn : chatter[d] + Chatter \in Nat
        OBVIOUS
      <4> QED
        BY <3>2, <4>1
    <3> QED
      BY <1>3, <3>1, <3>2 DEF SendOutbound
  <2> QED
    BY <1>3, <2>1, <2>2, <2>3 DEF Up, SendOutbound, readerVars, writerVars
<1> QED
  BY <1>1, <1>2, <1>3 DEF Processor

LEMMA RunnerType ==
  ASSUME TypeInv, NEW c \in Conn, Runners(c)
  PROVE  TypeOK'
<1> USE SizeAssumption DEF TypeOK, TypeInv
<1>1. outbound' \in Seq(Outgoing \cup Control) /\ Len(outbound') <= Capacity
  BY SendFits, SignalType DEF Runners, RunnerNotify
<1>2. chatter' \in [Conn -> Nat]
  BY DEF Runners, RunnerNotify
<1> QED
  BY <1>1, <1>2 DEF Runners, Up, RunnerNotify, readerVars, writerVars

LEMMA RouterType ==
  ASSUME TypeInv, Router
  PROVE  TypeOK'
<1> USE SizeAssumption DEF TypeOK, TypeInv
<1>1. /\ outbound' \in Seq(Outgoing \cup Control) /\ Len(outbound') <= Capacity
      /\ Head(outbound) \in Outgoing \cup Control
  <2>1. outbound # << >> /\ outbound' = Tail(outbound)
    BY DEF Router, RouteOpened, RouteClosed, RouteEnvelope, NextOutbound
  <2> QED
    BY <2>1, ChannelUpdates
<1>2. Head(outbound).conn \in Conn
  BY <1>1 DEF Outgoing, Control
<1>3. routes' \subseteq Conn /\ disconnect' \subseteq Conn
  BY <1>2 DEF Router, RouteOpened, RouteClosed, RouteEnvelope, Forgotten
<1>4. /\ queue' \in [Conn -> Seq(Outgoing)]
      /\ \A d \in Conn : Len(queue'[d]) <= Capacity
  <2>1. CASE queue' = queue
    BY <2>1
  <2>2. CASE /\ Room(queue[Head(outbound).conn])
             /\ queue' = [queue EXCEPT ![Head(outbound).conn] =
                            Append(@, Head(outbound))]
             /\ RouteEnvelope
    <3>1. Head(outbound) \in Outgoing
      BY <1>1, <2>2 DEF RouteEnvelope, NextOutbound, Control
    <3> QED
      BY <1>2, <2>2, <3>1, SendFits
  <2> QED
    BY <2>1, <2>2 DEF Router, RouteOpened, RouteClosed, RouteEnvelope
<1> QED
  BY <1>1, <1>3, <1>4
     DEF Router, Up, RouteOpened, RouteClosed, RouteEnvelope, NextOutbound, readerVars,
         processorVars

LEMMA WriterType ==
  ASSUME TypeInv, NEW c \in Conn, Writer(c)
  PROVE  TypeOK'
<1> USE SizeAssumption DEF TypeOK, TypeInv
<1>1. CASE Up /\ Write(c)
  <2>1. /\ Tail(queue[c]) \in Seq(Outgoing) /\ Len(Tail(queue[c])) <= Capacity
        /\ Append(received[c], Head(queue[c])) \in Seq(Outgoing)
    BY <1>1, ChannelUpdates DEF Write
  <2>2. /\ queue' \in [Conn -> Seq(Outgoing)]
        /\ \A d \in Conn : Len(queue'[d]) <= Capacity
        /\ received' \in [Conn -> Seq(Outgoing)]
    BY <1>1, <2>1 DEF Write
  <2> QED
    BY <1>1, <2>2 DEF Up, Write, readerVars, processorVars
<1>2. CASE Up /\ WriterEnds(c)
  BY <1>2 DEF Up, WriterEnds, StopWriting, readerVars, processorVars
<1> QED
  BY <1>1, <1>2 DEF Writer

LEMMA StepType == TypeInv /\ [Next]_vars => TypeInv'
<1> SUFFICES ASSUME TypeInv, [Next]_vars PROVE TypeInv'
  OBVIOUS
<1>1. ASSUME NEW c \in Conn, Reader(c) \/ Client(c)
      PROVE  TypeInv'
  BY <1>1, ReaderType, ReaderRefuses DEF TypeInv
<1>2. CASE Processor \/ Router \/ \E c \in Conn : Runners(c) \/ Writer(c)
  <2>1. TypeOK'
    BY <1>2, ProcessorType, RouterType, RunnerType, WriterType
  <2>2. UNCHANGED readerVars
    BY <1>2
       DEF Processor, Router, Runners, Writer, OpenConnection, CloseConnection,
           ProcessMessage, NextEvent, SendOutbound, RunnerNotify, RouteOpened,
           RouteClosed, RouteEnvelope, NextOutbound, Write, WriterEnds, StopWriting
  <2> QED
    BY <2>1, <2>2 DEF TypeInv, readerVars
<1>3. CASE Shutdown \/ Down \/ UNCHANGED vars
  BY <1>3
     DEF Shutdown, Down, vars, TypeInv, TypeOK, readerVars, processorVars, writerVars
<1> QED
  BY <1>1, <1>2, <1>3 DEF Next

\* Every variable keeps its type and every channel its capacity.
THEOREM ConnectionsTypeCorrect == Spec => []TypeOK
<1>1. TypeInv => TypeOK
  BY DEF TypeInv
<1> QED
  BY <1>1, InitType, StepType, PTL DEF Spec

-----------------------------------------------------------------------------
(* No message bears a number that was not given.                           *)

Bounded == {m \in Message : m.id <= MaxRequests[m.conn]}

InBounds ==
  /\ events \in Seq(Bounded) /\ todo \in Seq(Bounded) /\ outbound \in Seq(Bounded)
  /\ queue \in [Conn -> Seq(Bounded)] /\ received \in [Conn -> Seq(Bounded)]

LEMMA SignalBounded ==
  ASSUME NEW c \in Conn,
         NEW kind \in {"opened", "closed", "initialized", "started", "event"}
  PROVE  Signal(kind, c) \in Bounded
BY SignalType, SizeAssumption DEF Bounded, Message

LEMMA StepBounded ==
  ASSUME TypeInv, InBounds, [Next]_vars
  PROVE  InBounds'
<1> USE DEF InBounds
<1>1. ASSUME NEW c \in Conn, Open(c) \/ Close(c)
      PROVE  InBounds'
  <2>1. events' \in Seq(Bounded)
    <3>1. \A m \in Bounded : Append(events, m) \in Seq(Bounded)
      BY ChannelUpdates
    <3>2. Signal("opened", c) \in Bounded /\ Signal("closed", c) \in Bounded
      BY SignalBounded
    <3> QED
      BY <1>1, <3>1, <3>2 DEF Open, Close
  <2> QED
    BY <1>1, <2>1 DEF Open, Close, processorVars, writerVars
<1>2. ASSUME NEW c \in Conn, NEW method \in Uses[c], Forward(c, method)
      PROVE  InBounds'
  <2>1. [kind |-> method, conn |-> c, id |-> Len(sent[c]) + 1] \in Bounded
    <3>1. Len(sent[c]) \in Nat /\ Len(sent[c]) < MaxRequests[c] /\ MaxRequests[c] \in Nat
      BY <1>2, ChannelUpdates, SizeAssumption DEF TypeInv, TypeOK, Forward
    <3>2. method \in Method
      BY SizeAssumption
    <3> QED
      BY <3>1, <3>2 DEF Bounded, Message, Request
  <2>2. PICK m \in Bounded :
          m = [kind |-> method, conn |-> c, id |-> Len(sent[c]) + 1]
    BY <2>1
  <2>3. events' \in Seq(Bounded)
    <3>1. Append(events, m) \in Seq(Bounded)
      BY ChannelUpdates
    <3> QED
      BY <1>2, <2>2, <3>1 DEF Forward
  <2> QED
    BY <1>2, <2>3 DEF Forward, processorVars, writerVars
<1>3. ASSUME NEW c \in Conn, Refuse(c)
      PROVE  InBounds'
  <2>1. PICK m : m = [kind |-> "overloaded", conn |-> c, id |-> Len(sent[c])]
    OBVIOUS
  <2>2. m \in Bounded
    <3>1. Len(sent[c]) \in Nat \ {0} /\ Len(sent[c]) <= MaxRequests[c]
      BY <1>3, ChannelUpdates DEF TypeInv, TypeOK, Refuse
    <3> QED
      BY <2>1, <3>1 DEF Bounded, Message, Outgoing
  <2>3. queue' \in [Conn -> Seq(Bounded)]
    <3>1. Append(queue[c], m) \in Seq(Bounded)
      BY <2>2, ChannelUpdates
    <3>2. queue' = queue \/ queue' = [queue EXCEPT ![c] = Append(@, m)]
      BY <1>3, <2>1 DEF Refuse
    <3> QED
      BY <3>1, <3>2
  <2> QED
    BY <1>3, <2>3 DEF Refuse, processorVars
<1>4. ASSUME NEW c \in Conn, HangUp(c) \/ StopWriting(c)
      PROVE  InBounds'
  <2>1. queue' = queue \/ queue' = [queue EXCEPT ![c] = << >>]
    BY <1>4 DEF HangUp, StopWriting
  <2>2. queue' \in [Conn -> Seq(Bounded)]
    <3>1. << >> \in Seq(Bounded)
      OBVIOUS
    <3> QED
      BY <2>1, <3>1
  <2> QED
    BY <1>4, <2>2 DEF HangUp, StopWriting, processorVars
<1>5. CASE OpenConnection \/ CloseConnection \/ ProcessMessage
  <2>1. /\ events # << >> /\ events' = Tail(events)
        /\ UNCHANGED <<outbound, writerVars>>
    BY <1>5 DEF OpenConnection, CloseConnection, ProcessMessage, NextEvent
  <2>2. PICK h \in Bounded : h = Head(events)
    BY <2>1, ChannelUpdates
  <2>3. events' \in Seq(Bounded)
    BY <2>1, ChannelUpdates
  <2>4. todo' \in Seq(Bounded)
    <3>1. /\ << >> \in Seq(Bounded)
          /\ \A m \in Bounded : <<m>> \in Seq(Bounded)
          /\ \A m, n \in Bounded : <<m, n>> \in Seq(Bounded)
      OBVIOUS
    <3>2. CASE OpenConnection \/ CloseConnection
      <4>1. todo' = <<h>>
        BY <2>2, <3>2 DEF OpenConnection, CloseConnection
      <4> QED
        BY <3>1, <4>1
    <3>3. CASE ProcessMessage
      <4>1. h \in Request
        BY <2>2, <3>3, EventType DEF ProcessMessage, TypeInv, NextEvent
      <4>2. \A kind \in {"ok", "refused"} : Answer(kind) \in Bounded
        BY <2>2, <4>1, AnswerType DEF Answer, Bounded, Message
      <4>3. \A kind \in {"started", "initialized"} : Signal(kind, h.conn) \in Bounded
        BY SignalBounded, MessageFields DEF Bounded
      <4>4. \/ todo' = << >> \/ todo' = <<Answer("ok")>> \/ todo' = <<Answer("refused")>>
            \/ todo' = <<Signal("started", h.conn), Answer("ok")>>
            \/ todo' = <<Signal("initialized", h.conn), Answer("ok")>>
        BY <2>2, <3>3 DEF ProcessMessage, StartedFirst
      <4>5. CASE \E m \in Bounded : todo' = <<m>>
        BY <3>1, <4>5
      <4>6. CASE \E m, n \in Bounded : todo' = <<m, n>>
        BY <3>1, <4>6
      <4> QED
        BY <3>1, <4>2, <4>3, <4>4, <4>5, <4>6
    <3> QED
      BY <1>5, <3>2, <3>3
  <2> QED
    BY <2>1, <2>3, <2>4 DEF writerVars
<1>6. CASE SendOutbound
  <2>1. /\ todo # << >> /\ todo' = Tail(todo) /\ outbound' = Append(outbound, Head(todo))
        /\ UNCHANGED <<events, writerVars>>
    BY <1>6 DEF SendOutbound
  <2>2. todo' \in Seq(Bounded) /\ Head(todo) \in Bounded
    BY <2>1, ChannelUpdates
  <2>3. outbound' \in Seq(Bounded)
    BY <2>1, <2>2, ChannelUpdates
  <2> QED
    BY <2>1, <2>2, <2>3 DEF writerVars
<1>7. ASSUME NEW c \in Conn, RunnerNotify(c)
      PROVE  InBounds'
  <2>1. outbound' \in Seq(Bounded)
    BY <1>7, SignalBounded DEF RunnerNotify
  <2> QED
    BY <1>7, <2>1 DEF RunnerNotify, writerVars
<1>8. CASE RouteOpened \/ RouteClosed \/ RouteEnvelope
  <2>1. /\ outbound # << >> /\ outbound' = Tail(outbound)
        /\ UNCHANGED <<events, todo, received>>
    BY <1>8 DEF RouteOpened, RouteClosed, RouteEnvelope, NextOutbound, processorVars
  <2>2. outbound' \in Seq(Bounded)
    BY <2>1, ChannelUpdates
  <2>3. PICK h \in Bounded : h = Head(outbound)
    BY <2>1, ChannelUpdates
  <2>4. queue' = queue \/ queue' = [queue EXCEPT ![h.conn] = Append(@, h)]
    BY <1>8, <2>3 DEF RouteOpened, RouteClosed, RouteEnvelope
  <2>5. queue' \in [Conn -> Seq(Bounded)]
    <3>1. \A c \in Conn : Append(queue[c], h) \in Seq(Bounded)
      BY ChannelUpdates
    <3> QED
      BY <2>4, <3>1
  <2> QED
    BY <2>1, <2>2, <2>5
<1>9. ASSUME NEW c \in Conn, Write(c)
      PROVE  InBounds'
  <2>1. Tail(queue[c]) \in Seq(Bounded) /\ Head(queue[c]) \in Bounded
    BY <1>9, ChannelUpdates DEF Write
  <2>2. Append(received[c], Head(queue[c])) \in Seq(Bounded)
    BY <2>1, ChannelUpdates
  <2>3. queue' \in [Conn -> Seq(Bounded)] /\ received' \in [Conn -> Seq(Bounded)]
    BY <1>9, <2>1, <2>2 DEF Write
  <2> QED
    BY <1>9, <2>3 DEF Write, processorVars
<1>10. CASE UNCHANGED <<events, processorVars, outbound, writerVars>>
  BY <1>10 DEF processorVars, writerVars
<1> QED
  BY <1>1, <1>2, <1>3, <1>4, <1>5, <1>6, <1>7, <1>8, <1>9, <1>10
     DEF Next, Processor, Router, Reader, Runners, Writer, Client, Accept, WriteFails,
         WriterEnds, Shutdown, Down, vars

-----------------------------------------------------------------------------
(* The road of a connection: what was written, the writer's channel, the   *)
(* outbound channel, what the processor has yet to send, and the channel   *)
(* of events.  A message travels it from right to left and becomes an      *)
(* answer on the way.  The rank of a message says where it belongs:        *)
(* "opened" first, then the requests or their answers in the order of      *)
(* asking, "closed" last.  What is not tracked (notifications, refusals at *)
(* the door) may stand anywhere.                                           *)

Tracked == Method \cup {"ok", "refused", "opened", "closed"}

Last(c) == MaxRequests[c] + 1
Rank(m) == IF m.kind = "closed" THEN Last(m.conn) ELSE m.id

\* What m, or a channel, tells c in one of these kinds.
Own(m, c, kinds) == IF m.conn = c /\ m.kind \in kinds THEN {Rank(m)} ELSE {}
Of(channel, c, kinds) ==
  {i \in DOMAIN channel : channel[i].conn = c /\ channel[i].kind \in kinds}
Ranks(channel, c, kinds) == {Rank(channel[i]) : i \in Of(channel, c, kinds)}

Below(S, T) == \A x \in S, y \in T : x < y

Sorted(channel, c) ==
  \A i, j \in Of(channel, c, Tracked) : i < j => Rank(channel[i]) < Rank(channel[j])

LEMMA RanksAppend ==
  ASSUME NEW S, NEW channel \in Seq(S), NEW m, NEW c, NEW kinds
  PROVE  Ranks(Append(channel, m), c, kinds) = Ranks(channel, c, kinds) \cup Own(m, c, kinds)
<1>1. /\ DOMAIN Append(channel, m) = DOMAIN channel \cup {Len(channel) + 1}
      /\ Append(channel, m)[Len(channel) + 1] = m
      /\ \A i \in DOMAIN channel : Append(channel, m)[i] = channel[i]
  OBVIOUS
<1> QED
  BY <1>1 DEF Ranks, Of, Own

LEMMA RanksTail ==
  ASSUME NEW S, NEW channel \in Seq(S), channel # << >>, NEW c, NEW kinds
  PROVE  Ranks(channel, c, kinds)
           = Ranks(Tail(channel), c, kinds) \cup Own(Head(channel), c, kinds)
<1>1. /\ Head(channel) = channel[1] /\ 1 \in DOMAIN channel
      /\ \A i \in DOMAIN Tail(channel) : i + 1 \in DOMAIN channel
                                           /\ Tail(channel)[i] = channel[i + 1]
      /\ \A i \in DOMAIN channel :
           i # 1 => i - 1 \in DOMAIN Tail(channel) /\ Tail(channel)[i - 1] = channel[i]
  OBVIOUS
<1>2. ASSUME NEW r \in Ranks(channel, c, kinds)
      PROVE  r \in Ranks(Tail(channel), c, kinds) \cup Own(Head(channel), c, kinds)
  BY <1>1, <1>2 DEF Ranks, Of, Own
<1>3. ASSUME NEW r \in Ranks(Tail(channel), c, kinds) \cup Own(Head(channel), c, kinds)
      PROVE  r \in Ranks(channel, c, kinds)
  BY <1>1, <1>3 DEF Ranks, Of, Own
<1> QED
  BY <1>2, <1>3

LEMMA RanksOfFew ==
  ASSUME NEW c, NEW kinds
  PROVE  /\ Ranks(<< >>, c, kinds) = {}
         /\ \A m : Ranks(<<m>>, c, kinds) = Own(m, c, kinds)
         /\ \A m, n : Ranks(<<m, n>>, c, kinds) = Own(m, c, kinds) \cup Own(n, c, kinds)
<1>1. Ranks(<< >>, c, kinds) = {}
  BY DEF Ranks, Of
<1>2. ASSUME NEW m
      PROVE  Ranks(<<m>>, c, kinds) = Own(m, c, kinds)
  <2>1. DOMAIN <<m>> = {1} /\ <<m>>[1] = m
    OBVIOUS
  <2> QED
    BY <2>1 DEF Ranks, Of, Own
<1>3. ASSUME NEW m, NEW n
      PROVE  Ranks(<<m, n>>, c, kinds) = Own(m, c, kinds) \cup Own(n, c, kinds)
  <2>1. DOMAIN <<m, n>> = {1, 2} /\ <<m, n>>[1] = m /\ <<m, n>>[2] = n
    OBVIOUS
  <2> QED
    BY <2>1 DEF Ranks, Of, Own
<1> QED
  BY <1>1, <1>2, <1>3

LEMMA RanksUnion ==
  ASSUME NEW channel, NEW c, NEW kinds, NEW more
  PROVE  /\ Ranks(channel, c, kinds \cup more)
              = Ranks(channel, c, kinds) \cup Ranks(channel, c, more)
         /\ kinds \subseteq more => Ranks(channel, c, kinds) \subseteq Ranks(channel, c, more)
BY DEF Ranks, Of

LEMMA SortedAppend ==
  ASSUME NEW S, NEW channel \in Seq(S), NEW m, NEW c, Sorted(channel, c),
         Below(Ranks(channel, c, Tracked), Own(m, c, Tracked))
  PROVE  Sorted(Append(channel, m), c)
<1>1. /\ DOMAIN Append(channel, m) = DOMAIN channel \cup {Len(channel) + 1}
      /\ Append(channel, m)[Len(channel) + 1] = m
      /\ \A i \in DOMAIN channel : /\ Append(channel, m)[i] = channel[i]
                                   /\ i \in Nat /\ i <= Len(channel)
      /\ Len(channel) \in Nat
  OBVIOUS
<1> SUFFICES ASSUME NEW i \in Of(Append(channel, m), c, Tracked),
                    NEW j \in Of(Append(channel, m), c, Tracked), i < j
             PROVE  Rank(Append(channel, m)[i]) < Rank(Append(channel, m)[j])
  BY DEF Sorted
<1>2. i \in DOMAIN channel /\ i \in Of(channel, c, Tracked)
      /\ Append(channel, m)[i] = channel[i]
  BY <1>1 DEF Of
<1>3. CASE j \in DOMAIN channel
  BY <1>1, <1>2, <1>3 DEF Of, Sorted
<1>4. CASE j = Len(channel) + 1
  <2>1. Rank(channel[i]) \in Ranks(channel, c, Tracked)
    BY <1>2 DEF Ranks
  <2>2. Append(channel, m)[j] = m /\ Rank(m) \in Own(m, c, Tracked)
    BY <1>1, <1>4 DEF Of, Own
  <2> QED
    BY <1>2, <2>1, <2>2 DEF Below
<1> QED
  BY <1>1, <1>3, <1>4 DEF Of

LEMMA SortedTail ==
  ASSUME NEW S, NEW channel \in Seq(S), channel # << >>, NEW c, Sorted(channel, c)
  PROVE  /\ Sorted(Tail(channel), c)
         /\ Below(Own(Head(channel), c, Tracked), Ranks(Tail(channel), c, Tracked))
<1>1. /\ Head(channel) = channel[1] /\ 1 \in DOMAIN channel
      /\ \A i \in DOMAIN Tail(channel) : /\ i \in Nat /\ 1 <= i
                                         /\ i + 1 \in DOMAIN channel
                                         /\ Tail(channel)[i] = channel[i + 1]
  OBVIOUS
<1>2. \A i \in Of(Tail(channel), c, Tracked) :
        /\ i \in Nat /\ 1 <= i
        /\ i + 1 \in Of(channel, c, Tracked) /\ Tail(channel)[i] = channel[i + 1]
  BY <1>1 DEF Of
<1>3. Sorted(Tail(channel), c)
  <2> SUFFICES ASSUME NEW i \in Of(Tail(channel), c, Tracked),
                      NEW j \in Of(Tail(channel), c, Tracked), i < j
               PROVE  Rank(Tail(channel)[i]) < Rank(Tail(channel)[j])
    BY DEF Sorted
  <2>1. /\ i + 1 \in Of(channel, c, Tracked) /\ j + 1 \in Of(channel, c, Tracked)
        /\ i + 1 < j + 1
    BY <1>2
  <2>2. Rank(channel[i + 1]) < Rank(channel[j + 1])
    BY <2>1 DEF Sorted
  <2> QED
    BY <1>2, <2>2
<1>4. ASSUME Own(Head(channel), c, Tracked) # {}
      PROVE  1 \in Of(channel, c, Tracked)
  BY <1>1, <1>4 DEF Own, Of
<1>5. Below(Own(Head(channel), c, Tracked), Ranks(Tail(channel), c, Tracked))
  <2> SUFFICES ASSUME NEW x \in Own(Head(channel), c, Tracked),
                      NEW j \in Of(Tail(channel), c, Tracked)
               PROVE  x < Rank(Tail(channel)[j])
    BY DEF Below, Ranks
  <2>1. 1 \in Of(channel, c, Tracked) /\ x = Rank(channel[1])
    BY <1>1, <1>4 DEF Own
  <2>2. j + 1 \in Of(channel, c, Tracked) /\ 1 < j + 1
    BY <1>2
  <2>3. Rank(channel[1]) < Rank(channel[j + 1])
    BY <2>1, <2>2 DEF Sorted
  <2> QED
    BY <1>2, <2>1, <2>3
<1> QED
  BY <1>3, <1>5

LEMMA SortedFew ==
  ASSUME NEW c
  PROVE  /\ Sorted(<< >>, c)
         /\ \A m : Sorted(<<m>>, c)
         /\ \A m, n : Own(m, c, Tracked) = {} => Sorted(<<m, n>>, c)
<1>1. Sorted(<< >>, c)
  BY DEF Sorted, Of
<1>2. ASSUME NEW m
      PROVE  Sorted(<<m>>, c)
  <2>1. DOMAIN <<m>> = {1}
    OBVIOUS
  <2> QED
    BY <2>1 DEF Sorted, Of
<1>3. ASSUME NEW m, NEW n, Own(m, c, Tracked) = {}
      PROVE  Sorted(<<m, n>>, c)
  <2>1. DOMAIN <<m, n>> = {1, 2} /\ <<m, n>>[1] = m
    OBVIOUS
  <2>2. Of(<<m, n>>, c, Tracked) \subseteq {2}
    BY <1>3, <2>1 DEF Of, Own
  <2> QED
    BY <2>2 DEF Sorted
<1> QED
  BY <1>1, <1>2, <1>3

-----------------------------------------------------------------------------
(* The order of the road, and what the state of the reader, the session    *)
(* and the route says of it.                                               *)

R(channel, c) == Ranks(channel, c, Tracked)

\* The ranks of c in each part of the road, from the client to the processor.
Tracks(c) ==
  <<R(received[c], c), R(queue[c], c), R(outbound, c), R(todo, c), R(events, c)>>

\* What c has yet to pass the outbound task.
Ahead(c) == R(outbound, c) \cup R(todo, c) \cup R(events, c)

Chain(tracks) == \A p, q \in 1..5 : p < q => Below(tracks[p], tracks[q])

Known(c) == 0..Len(sent[c]) \cup (IF reader[c] = "gone" THEN {Last(c)} ELSE {})

AllSorted(c) ==
  Sorted(queue[c], c) /\ Sorted(outbound, c) /\ Sorted(todo, c) /\ Sorted(events, c)

RoadOf(c) ==
  /\ Chain(Tracks(c))
  /\ AllSorted(c)
  /\ \A p \in 1..5 : Tracks(c)[p] \subseteq Known(c)

Live(c) == reader[c] \in {"reading", "refusing", "closing"}

\* Nothing of a connection exists before it is announced; it has a session only
\* after "opened" was processed and a route only after it was routed; when its
\* reader is gone, "closed" is the last to reach the processor and the router.
LifeOf(c) ==
  /\ reader[c] \in {"none", "opening"} =>
       /\ session[c] = "none" /\ c \notin routes
       /\ sent[c] = << >> /\ writer[c] = "none"
       /\ \A p \in 1..5 : Tracks(c)[p] = {}
  /\ reader[c] = "gone" =>
       /\ session[c] # "none" \/ R(events, c) # {} => Last(c) \in R(events, c)
       /\ c \in routes \/ Ahead(c) # {} => Last(c) \in Ahead(c)
  /\ session[c] = "none" /\ (Live(c) \/ R(events, c) # {}) => 0 \in R(events, c)
  /\ writer[c] = "running" /\ c \notin routes /\ (Live(c) \/ Ahead(c) # {}) =>
       0 \in Ahead(c)

Roads == \A c \in Conn : RoadOf(c) /\ LifeOf(c)

\* In a step, X leaves part p of the road of d, perhaps for the part before it.
Shifts(d, p, X) ==
  /\ Tracks(d)[p] = Tracks(d)'[p] \cup X
  /\ Below(X, Tracks(d)'[p])
  /\ \A i \in 1..5 : i # p =>
       Tracks(d)'[i] \subseteq Tracks(d)[i] \cup (IF i = p - 1 THEN X ELSE {})

LEMMA TracksAre ==
  ASSUME NEW c
  PROVE  /\ Tracks(c)[1] = R(received[c], c) /\ Tracks(c)[2] = R(queue[c], c)
         /\ Tracks(c)[3] = R(outbound, c) /\ Tracks(c)[4] = R(todo, c)
         /\ Tracks(c)[5] = R(events, c)
         /\ Tracks(c)'[1] = R(received[c], c)' /\ Tracks(c)'[2] = R(queue[c], c)'
         /\ Tracks(c)'[3] = R(outbound, c)' /\ Tracks(c)'[4] = R(todo, c)'
         /\ Tracks(c)'[5] = R(events, c)'
BY DEF Tracks

LEMMA ChainShift ==
  ASSUME NEW A, NEW B, NEW p \in 1..5, NEW X, Chain(A),
         A[p] = B[p] \cup X, Below(X, B[p]),
         \A i \in 1..5 : i # p =>
           B[i] \subseteq A[i] \cup (IF i = p - 1 THEN X ELSE {})
  PROVE  Chain(B)
<1> SUFFICES ASSUME NEW i \in 1..5, NEW j \in 1..5, i < j, NEW x \in B[i], NEW y \in B[j]
             PROVE  x < y
  BY DEF Chain, Below
<1>1. CASE x \in A[i] /\ y \in A[j]
  BY <1>1 DEF Chain, Below
<1>2. CASE x \notin A[i]
  <2>1. i = p - 1 /\ x \in X
    BY <1>2
  <2>2. CASE j = p
    BY <2>1, <2>2 DEF Below
  <2>3. CASE j # p
    BY <2>1, <2>3 DEF Chain, Below
  <2> QED
    BY <2>2, <2>3
<1>3. CASE y \notin A[j] /\ x \in A[i]
  <2>1. j = p - 1 /\ y \in X /\ i < p
    BY <1>3
  <2> QED
    BY <1>3, <2>1 DEF Chain, Below
<1> QED
  BY <1>1, <1>2, <1>3

\* Messages that move towards the client keep the road in order.
LEMMA ShiftKeepsRoad ==
  ASSUME NEW d, NEW p \in 1..5, NEW X, RoadOf(d), Shifts(d, p, X), AllSorted(d)',
         sent'[d] = sent[d], reader'[d] = "gone" <=> reader[d] = "gone"
  PROVE  RoadOf(d)'
<1>1. Chain(Tracks(d)')
  <2>1. PICK A, B : A = Tracks(d) /\ B = Tracks(d)'
    OBVIOUS
  <2>2. Chain(A)
    BY <2>1 DEF RoadOf
  <2>3. /\ A[p] = B[p] \cup X /\ Below(X, B[p])
        /\ \A i \in 1..5 : i # p =>
             B[i] \subseteq A[i] \cup (IF i = p - 1 THEN X ELSE {})
    BY <2>1 DEF Shifts
  <2>4. Chain(B)
    BY <2>2, <2>3, ChainShift
  <2> QED
    BY <2>1, <2>4
<1>2. Known(d)' = Known(d)
  BY DEF Known, Last
<1>3. \A i \in 1..5 : Tracks(d)'[i] \subseteq Known(d)
  <2>1. X \subseteq Known(d)
    BY DEF Shifts, RoadOf
  <2> QED
    BY <2>1 DEF Shifts, RoadOf
<1> QED
  BY <1>1, <1>2, <1>3 DEF RoadOf, Chain

\* A step that puts nothing on the road of d but what is not tracked, and takes at
\* most what the writer had.
LEMMA QuietRoad ==
  ASSUME NEW d \in Conn, RoadOf(d), LifeOf(d), AllSorted(d)',
         R(received[d], d)' = R(received[d], d),
         R(queue[d], d)' \subseteq R(queue[d], d),
         R(outbound, d)' = R(outbound, d), R(todo, d)' = R(todo, d),
         R(events, d)' = R(events, d),
         sent'[d] = sent[d], session'[d] = session[d],
         reader'[d] = reader[d] \/ (Live(d) /\ Live(d)'),
         d \in routes' <=> d \in routes,
         writer'[d] = writer[d] \/ (writer'[d] = "dead" /\ (writer[d] # "none" \/ Live(d)))
  PROVE  RoadOf(d)' /\ LifeOf(d)'
<1>1. Shifts(d, 1, {})
  BY TracksAre DEF Shifts, Below
<1>2. RoadOf(d)'
  BY <1>1, ShiftKeepsRoad DEF Live
<1>3. Ahead(d)' = Ahead(d)
  BY DEF Ahead
<1>4. \A i \in 1..5 : Tracks(d)[i] = {} => Tracks(d)'[i] = {}
  BY TracksAre
<1>5. LifeOf(d)'
  BY <1>3, <1>4 DEF LifeOf, Live, Last
<1> QED
  BY <1>2, <1>5

\* A message for the end of the road ranks above all that is on it.
LEMMA ExtendsRoad ==
  ASSUME NEW d \in Conn, RoadOf(d), NEW x \in Nat, \A i \in 1..5 : Below(Tracks(d)[i], {x}),
         R(received[d], d)' = R(received[d], d), R(queue[d], d)' = R(queue[d], d),
         R(outbound, d)' = R(outbound, d), R(todo, d)' = R(todo, d),
         R(events, d)' = R(events, d) \cup {x}, AllSorted(d)',
         Known(d) \cup {x} \subseteq Known(d)'
  PROVE  RoadOf(d)'
<1>1. PICK A, B : A = Tracks(d) /\ B = Tracks(d)'
  OBVIOUS
<1>2. \A i \in 1..4 : B[i] = A[i]
  BY <1>1, TracksAre
<1>3. B[5] = A[5] \cup {x}
  BY <1>1, TracksAre
<1>4. Chain(B)
  <2> SUFFICES ASSUME NEW i \in 1..5, NEW j \in 1..5, i < j
               PROVE  Below(B[i], B[j])
    BY DEF Chain
  <2>1. B[i] = A[i] /\ Below(A[i], A[j]) /\ Below(A[i], {x})
    BY <1>1, <1>2 DEF RoadOf, Chain
  <2>2. B[j] \subseteq A[j] \cup {x}
    BY <1>2, <1>3
  <2> QED
    BY <2>1, <2>2 DEF Below
<1>5. \A i \in 1..5 : B[i] \subseteq Known(d)'
  <2>1. \A i \in 1..5 : A[i] \subseteq Known(d)
    BY <1>1 DEF RoadOf
  <2> QED
    BY <1>2, <1>3, <2>1
<1> QED
  BY <1>1, <1>4, <1>5 DEF RoadOf, Chain

LEMMA SortedExtension ==
  ASSUME TypeInv, NEW d \in Conn, RoadOf(d), NEW m, events' = Append(events, m),
         UNCHANGED <<queue, outbound, todo>>,
         Below(R(events, d), Own(m, d, Tracked))
  PROVE  /\ AllSorted(d)'
         /\ R(events, d)' = R(events, d) \cup Own(m, d, Tracked)
<1>1. events \in Seq(Request \cup Control)
  BY DEF TypeInv, TypeOK
<1>2. R(events, d)' = R(events, d) \cup Own(m, d, Tracked)
  BY <1>1, RanksAppend DEF R
<1>3. Sorted(events, d)'
  BY <1>1, SortedAppend DEF R, RoadOf, AllSorted
<1> QED
  BY <1>2, <1>3 DEF RoadOf, AllSorted

LEMMA UntrackedAppend ==
  ASSUME NEW S, NEW channel \in Seq(S), NEW m, NEW c, Sorted(channel, c),
         Own(m, c, Tracked) = {}
  PROVE  R(Append(channel, m), c) = R(channel, c) /\ Sorted(Append(channel, m), c)
<1>1. Below(Ranks(channel, c, Tracked), Own(m, c, Tracked))
  BY DEF Below
<1>2. Sorted(Append(channel, m), c)
  BY <1>1, SortedAppend
<1>3. Ranks(Append(channel, m), c, Tracked)
        = Ranks(channel, c, Tracked) \cup Own(m, c, Tracked)
  <2>1. \A kinds : Ranks(Append(channel, m), c, kinds)
                      = Ranks(channel, c, kinds) \cup Own(m, c, kinds)
    BY RanksAppend
  <2> QED
    BY <2>1
<1> QED
  BY <1>2, <1>3 DEF R

LEMMA AcceptRoad ==
  ASSUME TypeInv, Roads, NEW c \in Conn, Up, Accept(c)
  PROVE  Roads'
<1> SUFFICES ASSUME NEW d \in Conn PROVE RoadOf(d)' /\ LifeOf(d)'
  BY DEF Roads
<1>1. /\ reader'[d] = IF d = c THEN "opening" ELSE reader[d]
      /\ reader[c] = "none"
  BY DEF Accept, TypeInv, TypeOK
<1>2. /\ Tracks(d)' = Tracks(d) /\ AllSorted(d)' = AllSorted(d) /\ Ahead(d)' = Ahead(d)
      /\ Known(d)' = Known(d) /\ R(events, d)' = R(events, d)
  BY <1>1 DEF Accept, Up, processorVars, writerVars, Tracks, AllSorted, Ahead, Known
<1>3. RoadOf(d) /\ LifeOf(d)
  BY DEF Roads
<1>4. RoadOf(d)'
  BY <1>2, <1>3 DEF RoadOf
<1>5. LifeOf(d)'
  BY <1>1, <1>2, <1>3 DEF LifeOf, Live, Accept, processorVars, writerVars, Last
<1> QED
  BY <1>4, <1>5

LEMMA OpenRoad ==
  ASSUME TypeInv, Roads, NEW c \in Conn, Up, Open(c)
  PROVE  Roads'
<1> SUFFICES ASSUME NEW d \in Conn PROVE RoadOf(d)' /\ LifeOf(d)'
  BY DEF Roads
<1>1. RoadOf(d) /\ LifeOf(d)
  BY DEF Roads
<1>2. /\ events' = Append(events, Signal("opened", c))
      /\ UNCHANGED <<sent, processorVars, outbound, routes, disconnect, queue, received>>
      /\ reader[c] = "opening" /\ reader'[d] = IF d = c THEN "reading" ELSE reader[d]
      /\ writer'[d] = IF d = c THEN "running" ELSE writer[d]
  BY DEF Open, TypeInv, TypeOK
<1>3. Own(Signal("opened", c), d, Tracked) = IF d = c THEN {0} ELSE {}
  BY SignalType DEF Own, Rank, Tracked
<1>4. CASE d # c
  <2>1. AllSorted(d)' /\ R(events, d)' = R(events, d)
    BY <1>1, <1>2, <1>3, <1>4, SortedExtension DEF Below, processorVars
  <2>2. /\ R(received[d], d)' = R(received[d], d) /\ R(queue[d], d)' = R(queue[d], d)
        /\ R(outbound, d)' = R(outbound, d) /\ R(todo, d)' = R(todo, d)
    BY <1>2 DEF processorVars
  <2>3. /\ sent'[d] = sent[d] /\ session'[d] = session[d] /\ reader'[d] = reader[d]
        /\ writer'[d] = writer[d] /\ routes' = routes
    BY <1>2, <1>4 DEF processorVars
  <2> QED
    BY <1>1, <2>1, <2>2, <2>3, QuietRoad
<1>5. CASE d = c
  <2>1. \A i \in 1..5 : Tracks(d)[i] = {}
    BY <1>1, <1>2, <1>5 DEF LifeOf
  <2>2. R(events, d) = {}
    BY <2>1, TracksAre
  <2>3. AllSorted(d)' /\ R(events, d)' = {0}
    BY <1>1, <1>2, <1>3, <1>5, <2>2, SortedExtension DEF Below, processorVars
  <2>4. Known(d) \cup {0} \subseteq Known(d)'
    <3>1. Len(sent[d]) \in Nat /\ sent' = sent
      BY <1>2, ChannelUpdates DEF TypeInv, TypeOK
    <3> QED
      BY <1>2, <1>5, <3>1 DEF Known
  <2>5. RoadOf(d)'
    BY <1>1, <1>2, <2>1, <2>2, <2>3, <2>4, ExtendsRoad DEF Below, processorVars
  <2>6. 0 \in Ahead(d)'
    BY <2>3 DEF Ahead
  <2>7. LifeOf(d)'
    BY <1>2, <1>5, <2>3, <2>6 DEF LifeOf
  <2> QED
    BY <2>5, <2>7
<1> QED
  BY <1>4, <1>5

LEMMA CloseRoad ==
  ASSUME TypeInv, Roads, NEW c \in Conn, Up, Close(c)
  PROVE  Roads'
<1> SUFFICES ASSUME NEW d \in Conn PROVE RoadOf(d)' /\ LifeOf(d)'
  BY DEF Roads
<1>1. RoadOf(d) /\ LifeOf(d)
  BY DEF Roads
<1>2. /\ events' = Append(events, Signal("closed", c))
      /\ UNCHANGED <<sent, processorVars, outbound, routes, disconnect, writerVars>>
      /\ reader[c] = "closing" /\ reader'[d] = IF d = c THEN "gone" ELSE reader[d]
  BY DEF Close, TypeInv, TypeOK
<1>3. Own(Signal("closed", c), d, Tracked) = IF d = c THEN {Last(c)} ELSE {}
  BY SignalType, ZenonT(60) DEF Own, Rank, Tracked
<1>4. CASE d # c
  <2>1. AllSorted(d)' /\ R(events, d)' = R(events, d)
    BY <1>1, <1>2, <1>3, <1>4, SortedExtension DEF Below, processorVars, writerVars
  <2>2. /\ R(received[d], d)' = R(received[d], d) /\ R(queue[d], d)' = R(queue[d], d)
        /\ R(outbound, d)' = R(outbound, d) /\ R(todo, d)' = R(todo, d)
    BY <1>2 DEF processorVars, writerVars
  <2>3. /\ sent'[d] = sent[d] /\ session'[d] = session[d] /\ reader'[d] = reader[d]
        /\ writer'[d] = writer[d] /\ routes' = routes
    BY <1>2, <1>4 DEF processorVars, writerVars
  <2> QED
    BY <1>1, <2>1, <2>2, <2>3, QuietRoad
<1>5. CASE d = c
  <2>1. /\ Len(sent[d]) \in Nat /\ Len(sent[d]) <= MaxRequests[d]
        /\ MaxRequests[d] \in Nat /\ sent' = sent
    BY <1>2, ChannelUpdates, SizeAssumption DEF TypeInv, TypeOK
  <2>2. Last(d) \in Nat /\ \A x \in Known(d) : x < Last(d)
    BY <1>2, <1>5, <2>1 DEF Known, Last
  <2>3. \A i \in 1..5 : Below(Tracks(d)[i], {Last(d)})
    BY <1>1, <2>2 DEF RoadOf, Below
  <2>4. Below(R(events, d), {Last(d)})
    BY <2>3, TracksAre
  <2>5. AllSorted(d)' /\ R(events, d)' = R(events, d) \cup {Last(d)}
    BY <1>1, <1>2, <1>3, <1>5, <2>4, SortedExtension, ZenonT(60) DEF processorVars, writerVars
  <2>6. Known(d) \cup {Last(d)} \subseteq Known(d)'
    BY <1>2, <1>5, <2>1 DEF Known, Last
  <2>7. RoadOf(d)'
    BY <1>1, <1>2, <2>2, <2>3, <2>5, <2>6, ExtendsRoad DEF processorVars, writerVars
  <2>8. Ahead(d)' = Ahead(d) \cup {Last(d)}
    BY <1>2, <2>5 DEF Ahead, processorVars
  <2>9. Live(d) /\ reader'[d] = "gone" /\ Last(d)' = Last(d)
    BY <1>2, <1>5 DEF Live, Last
  <2>10. LifeOf(d)'
    BY <1>1, <1>2, <2>5, <2>8, <2>9 DEF LifeOf, processorVars, writerVars, Live
  <2> QED
    BY <2>7, <2>10
<1> QED
  BY <1>4, <1>5

LEMMA ForwardRoad ==
  ASSUME TypeInv, Roads, NEW c \in Conn, NEW method \in Method, Up, Forward(c, method)
  PROVE  Roads'
<1> SUFFICES ASSUME NEW d \in Conn PROVE RoadOf(d)' /\ LifeOf(d)'
  BY DEF Roads
<1> DEFINE n == Len(sent[c]) + 1
           m == [kind |-> method, conn |-> c, id |-> n]
<1>1. RoadOf(d) /\ LifeOf(d)
  BY DEF Roads
<1>2. /\ UNCHANGED <<processorVars, outbound, routes, disconnect, writerVars>>
      /\ reader[c] = "reading" /\ reader'[d] \in {reader[d], "refusing"}
      /\ d # c => reader'[d] = reader[d] /\ sent'[d] = sent[d]
      /\ d = c => sent'[d] = Append(sent[d], method)
      /\ events' = Append(events, m) \/ events' = events
  BY DEF Forward, TypeInv, TypeOK
<1>3. /\ Own(m, d, Tracked) = IF d = c THEN {n} ELSE {}
  BY MethodAssumption DEF Own, Rank, Tracked
<1>4. CASE d # c
  <2>1. AllSorted(d)' /\ R(events, d)' = R(events, d)
    <3>1. CASE events' = events
      BY <1>1, <1>2, <3>1 DEF RoadOf, AllSorted, processorVars, writerVars
    <3>2. CASE events' = Append(events, m)
      BY <1>1, <1>2, <1>3, <1>4, <3>2, SortedExtension DEF Below, processorVars, writerVars
    <3> QED
      BY <1>2, <3>1, <3>2
  <2>2. /\ R(received[d], d)' = R(received[d], d) /\ R(queue[d], d)' = R(queue[d], d)
        /\ R(outbound, d)' = R(outbound, d) /\ R(todo, d)' = R(todo, d)
    BY <1>2 DEF processorVars, writerVars
  <2>3. /\ sent'[d] = sent[d] /\ session'[d] = session[d] /\ reader'[d] = reader[d]
        /\ writer'[d] = writer[d] /\ routes' = routes
    BY <1>2, <1>4 DEF processorVars, writerVars
  <2> QED
    BY <1>1, <2>1, <2>2, <2>3, QuietRoad
<1>5. CASE d = c
  <2>1. /\ Len(sent[d]) \in Nat /\ Len(sent[d])' = n /\ n \in Nat
    BY <1>2, <1>5, ChannelUpdates DEF TypeInv, TypeOK
  <2>2. /\ \A x \in Known(d) : x < n
        /\ Known(d) \cup {n} \subseteq Known(d)'
    BY <1>2, <1>5, <2>1 DEF Known
  <2>3. /\ R(received[d], d)' = R(received[d], d) /\ R(queue[d], d)' = R(queue[d], d)
        /\ R(outbound, d)' = R(outbound, d) /\ R(todo, d)' = R(todo, d)
    BY <1>2 DEF processorVars, writerVars
  <2>4. \A i \in 1..5 : Below(Tracks(d)[i], {n})
    BY <1>1, <2>2 DEF RoadOf, Below
  <2>5. /\ session'[d] = session[d] /\ writer'[d] = writer[d] /\ routes' = routes
        /\ Live(d) /\ Live(d)'
    BY <1>2, <1>5 DEF processorVars, writerVars, Live
  <2>6. CASE events' = Append(events, m)
    <3>1. Below(R(events, d), {n})
      BY <2>4, TracksAre
    <3>2. AllSorted(d)' /\ R(events, d)' = R(events, d) \cup {n}
      <4>1. Own(m, d, Tracked) = {n} /\ Below(R(events, d), Own(m, d, Tracked))
        BY <1>3, <1>5, <3>1
      <4>2. UNCHANGED <<queue, outbound, todo>>
        BY <1>2 DEF processorVars, writerVars
      <4> QED
        BY <1>1, <2>6, <4>1, <4>2, SortedExtension
    <3>3. RoadOf(d)'
      BY <1>1, <2>1, <2>2, <2>3, <2>4, <3>2, ExtendsRoad
    <3>4. Ahead(d)' = Ahead(d) \cup {n}
      BY <2>3, <3>2 DEF Ahead
    <3>5. LifeOf(d)'
      BY <1>1, <2>5, <3>2, <3>4 DEF LifeOf, Live
    <3> QED
      BY <3>3, <3>5
  <2>7. CASE events' = events
    <3>1. Tracks(d)' = Tracks(d) /\ AllSorted(d)' /\ Ahead(d)' = Ahead(d)
      BY <1>1, <1>2, <2>7
         DEF RoadOf, AllSorted, Tracks, Ahead, processorVars, writerVars
    <3>2. RoadOf(d)'
      BY <1>1, <2>2, <3>1 DEF RoadOf
    <3>3. LifeOf(d)'
      BY <1>1, <2>5, <2>7, <3>1 DEF LifeOf, Live
    <3> QED
      BY <3>2, <3>3
  <2> QED
    BY <1>2, <2>6, <2>7
<1> QED
  BY <1>4, <1>5

LEMMA RefuseRoad ==
  ASSUME TypeInv, Roads, NEW c \in Conn, Up, Refuse(c)
  PROVE  Roads'
<1> SUFFICES ASSUME NEW d \in Conn PROVE RoadOf(d)' /\ LifeOf(d)'
  BY DEF Roads
<1> DEFINE m == [kind |-> "overloaded", conn |-> c, id |-> Len(sent[c])]
<1>1. RoadOf(d) /\ LifeOf(d)
  BY DEF Roads
<1>2. /\ UNCHANGED <<sent, events, processorVars, outbound, routes, writer, received>>
      /\ reader[c] = "refusing" /\ reader'[d] = IF d = c THEN "reading" ELSE reader[d]
      /\ queue'[d] = queue[d] \/ queue'[d] = Append(queue[d], m)
  BY DEF Refuse, TypeInv, TypeOK
<1>3. Own(m, d, Tracked) = {}
  BY MethodAssumption DEF Own, Tracked
<1>4. R(queue[d], d)' = R(queue[d], d) /\ Sorted(queue[d], d)'
  <2>1. queue[d] \in Seq(Outgoing) /\ Sorted(queue[d], d)
    BY <1>1 DEF TypeInv, TypeOK, RoadOf, AllSorted
  <2>2. /\ R(Append(queue[d], m), d) = R(queue[d], d)
        /\ Sorted(Append(queue[d], m), d)
    BY <1>3, <2>1, UntrackedAppend
  <2>3. PICK q : q = queue'[d]
    OBVIOUS
  <2> QED
    BY <1>2, <2>1, <2>2
<1>5. /\ R(received[d], d)' = R(received[d], d)
      /\ R(outbound, d)' = R(outbound, d) /\ R(todo, d)' = R(todo, d)
      /\ R(events, d)' = R(events, d)
  BY <1>2 DEF processorVars
<1>6. AllSorted(d)'
  BY <1>1, <1>2, <1>4 DEF RoadOf, AllSorted, processorVars
<1>7. /\ sent'[d] = sent[d] /\ session'[d] = session[d] /\ writer'[d] = writer[d]
      /\ routes' = routes /\ (reader'[d] = reader[d] \/ (Live(d) /\ Live(d)'))
  BY <1>2 DEF processorVars, Live
<1>8. d \in routes' <=> d \in routes
  BY <1>2
<1> QED
  BY <1>1, <1>4, <1>5, <1>6, <1>7, <1>8, QuietRoad

\* A writing task that ends takes what its channel holds with it.
LEMMA WriterRoad ==
  ASSUME TypeInv, Roads, NEW c \in Conn,
         UNCHANGED <<sent, events, processorVars, outbound, routes, received>>,
         \A d \in Conn : reader'[d] = reader[d] \/ (Live(d) /\ Live(d)'),
         \/ UNCHANGED <<writer, queue>>
         \/ /\ writer' = [writer EXCEPT ![c] = "dead"]
            /\ queue' = [queue EXCEPT ![c] = << >>]
            /\ writer[c] # "none" \/ Live(c)
  PROVE  Roads'
<1> SUFFICES ASSUME NEW d \in Conn PROVE RoadOf(d)' /\ LifeOf(d)'
  BY DEF Roads
<1>1. RoadOf(d) /\ LifeOf(d)
  BY DEF Roads
<1>2. /\ queue'[d] = queue[d] \/ queue'[d] = << >>
      /\ \/ writer'[d] = writer[d]
         \/ writer'[d] = "dead" /\ (writer[d] # "none" \/ Live(d))
  BY DEF TypeInv, TypeOK
<1>3. R(queue[d], d)' \subseteq R(queue[d], d) /\ Sorted(queue[d], d)'
  <2>1. R(<< >>, d) = {} /\ Sorted(<< >>, d)
    BY RanksOfFew, SortedFew DEF R
  <2> QED
    BY <1>1, <1>2, <2>1 DEF RoadOf, AllSorted
<1>4. /\ R(received[d], d)' = R(received[d], d)
      /\ R(outbound, d)' = R(outbound, d) /\ R(todo, d)' = R(todo, d)
      /\ R(events, d)' = R(events, d)
  BY DEF processorVars
<1>5. AllSorted(d)'
  BY <1>1, <1>3 DEF RoadOf, AllSorted, processorVars
<1>6. sent'[d] = sent[d] /\ session'[d] = session[d]
  BY DEF processorVars
<1> QED
  BY <1>1, <1>2, <1>3, <1>4, <1>5, <1>6, QuietRoad

LEMMA WriteRoad ==
  ASSUME TypeInv, Roads, NEW c \in Conn, Up, Write(c)
  PROVE  Roads'
<1> SUFFICES ASSUME NEW d \in Conn PROVE RoadOf(d)' /\ LifeOf(d)'
  BY DEF Roads
<1>1. RoadOf(d) /\ LifeOf(d)
  BY DEF Roads
<1>2. /\ UNCHANGED <<readerVars, events, processorVars, outbound, routes, disconnect,
                     writer>>
      /\ queue[c] # << >>
      /\ queue'[d] = IF d = c THEN Tail(queue[d]) ELSE queue[d]
      /\ received'[d] = IF d = c THEN Append(received[d], Head(queue[d])) ELSE received[d]
  BY DEF Write, TypeInv, TypeOK
<1>3. /\ R(outbound, d)' = R(outbound, d) /\ R(todo, d)' = R(todo, d)
      /\ R(events, d)' = R(events, d) /\ Ahead(d)' = Ahead(d)
      /\ sent'[d] = sent[d] /\ session'[d] = session[d] /\ reader'[d] = reader[d]
      /\ writer'[d] = writer[d] /\ routes' = routes
  BY <1>2 DEF processorVars, readerVars, Ahead
<1>4. queue[d] \in Seq(Outgoing) /\ received[d] \in Seq(Outgoing) /\ Sorted(queue[d], d)
  BY <1>1 DEF TypeInv, TypeOK, RoadOf, AllSorted
<1>5. CASE d = c
  <2> DEFINE X == Own(Head(queue[d]), d, Tracked)
  <2>1. /\ R(queue[d], d) = R(Tail(queue[d]), d) \cup X
        /\ Sorted(Tail(queue[d]), d) /\ Below(X, R(Tail(queue[d]), d))
        /\ R(Append(received[d], Head(queue[d])), d) = R(received[d], d) \cup X
    BY <1>2, <1>4, <1>5, RanksTail, SortedTail, RanksAppend DEF R
  <2>2. /\ R(queue[d], d)' = R(Tail(queue[d]), d)
        /\ R(received[d], d)' = R(Append(received[d], Head(queue[d])), d)
        /\ Sorted(queue[d], d)'
    BY <1>2, <1>5, <2>1
  <2>3. PICK Y : Y = X
    OBVIOUS
  <2>4. Shifts(d, 2, Y)
    BY <1>3, <2>1, <2>2, <2>3, TracksAre DEF Shifts
  <2>5. AllSorted(d)'
    BY <1>1, <1>2, <2>2 DEF RoadOf, AllSorted, processorVars
  <2>6. RoadOf(d)'
    BY <1>1, <1>3, <2>4, <2>5, ShiftKeepsRoad
  <2>7. reader[d] \notin {"none", "opening"}
    <3>1. writer[d] = "running"
      BY <1>5 DEF Write
    <3> QED
      BY <1>1, <3>1 DEF LifeOf
  <2>8. LifeOf(d)'
    BY <1>1, <1>3, <2>7 DEF LifeOf, Live, Last
  <2> QED
    BY <2>6, <2>8
<1>6. CASE d # c
  <2>1. /\ R(received[d], d)' = R(received[d], d) /\ R(queue[d], d)' = R(queue[d], d)
        /\ AllSorted(d)'
    BY <1>1, <1>2, <1>6 DEF RoadOf, AllSorted, processorVars
  <2> QED
    BY <1>1, <1>3, <2>1, QuietRoad
<1> QED
  BY <1>5, <1>6

LEMMA RunnerRoad ==
  ASSUME TypeInv, Roads, NEW c \in Conn, Runners(c)
  PROVE  Roads'
<1> SUFFICES ASSUME NEW d \in Conn PROVE RoadOf(d)' /\ LifeOf(d)'
  BY DEF Roads
<1>1. RoadOf(d) /\ LifeOf(d)
  BY DEF Roads
<1>2. /\ outbound' = Append(outbound, Signal("event", c))
      /\ UNCHANGED <<readerVars, events, session, todo, routes, disconnect, writerVars>>
  BY DEF Runners, RunnerNotify
<1>3. Own(Signal("event", c), d, Tracked) = {}
  BY MethodAssumption, SignalType DEF Own, Tracked
<1>4. /\ R(Append(outbound, Signal("event", c)), d) = R(outbound, d)
      /\ Sorted(Append(outbound, Signal("event", c)), d)
  <2>1. outbound \in Seq(Outgoing \cup Control) /\ Sorted(outbound, d)
    BY <1>1 DEF TypeInv, TypeOK, RoadOf, AllSorted
  <2> QED
    BY <1>3, <2>1, UntrackedAppend
<1>5. R(outbound, d)' = R(outbound, d) /\ Sorted(outbound, d)'
  BY <1>2, <1>4
<1>6. /\ R(received[d], d)' = R(received[d], d) /\ R(queue[d], d)' = R(queue[d], d)
      /\ R(todo, d)' = R(todo, d) /\ R(events, d)' = R(events, d)
      /\ AllSorted(d)'
  BY <1>1, <1>2, <1>5 DEF RoadOf, AllSorted, writerVars
<1>7. /\ sent'[d] = sent[d] /\ session'[d] = session[d] /\ writer'[d] = writer[d]
      /\ routes' = routes /\ reader'[d] = reader[d]
  BY <1>2 DEF readerVars, writerVars
<1> QED
  BY <1>1, <1>5, <1>6, <1>7, QuietRoad

LEMMA RankIs ==
  ASSUME NEW m \in Bounded
  PROVE  /\ m.conn \in Conn /\ MaxRequests[m.conn] \in Nat
         /\ m.kind = "opened" => Rank(m) = 0
         /\ m.kind = "closed" => Rank(m) = Last(m.conn)
         /\ m.kind \in Method \cup {"ok", "refused"} =>
              Rank(m) = m.id /\ m.id \in 1..MaxRequests[m.conn]
<1>1. m \in Message /\ m.conn \in Conn /\ MaxRequests[m.conn] \in Nat
  BY MessageFields, SizeAssumption DEF Bounded
<1>2. m.kind = "opened" => Rank(m) = 0
  BY <1>1, MethodAssumption DEF Message, Request, Control, Outgoing, Rank
<1>3. m.kind = "closed" => Rank(m) = Last(m.conn)
  BY DEF Rank
<1>4. ASSUME m.kind \in Method \cup {"ok", "refused"}
      PROVE  Rank(m) = m.id /\ m.id \in 1..MaxRequests[m.conn]
  <2>1. m.kind # "closed" /\ m.id \in Nat \ {0}
    BY <1>1, <1>4, MethodAssumption DEF Message, Request, Control, Outgoing
  <2> QED
    BY <1>1, <2>1 DEF Rank, Bounded
<1> QED
  BY <1>1, <1>2, <1>3, <1>4

\* The processor takes an event and makes at most its answer of it.
LEMMA TakeRoad ==
  ASSUME TypeInv, InBounds, NEW d \in Conn, RoadOf(d),
         NEW kinds, NextEvent(kinds), NEW X, X = Own(Head(events), d, Tracked),
         R(todo, d)' \subseteq X, Sorted(todo, d)'
  PROVE  /\ RoadOf(d)'
         /\ R(events, d) = R(events, d)' \cup X /\ Below(X, R(events, d)')
         /\ R(todo, d) = {} /\ R(outbound, d)' = R(outbound, d)
         /\ R(received[d], d)' = R(received[d], d) /\ R(queue[d], d)' = R(queue[d], d)
<1>1. /\ events # << >> /\ events' = Tail(events) /\ todo = << >>
      /\ UNCHANGED <<readerVars, outbound, writerVars>>
  BY DEF NextEvent, Sent
<1>2. events \in Seq(Request \cup Control) /\ Sorted(events, d)
  BY DEF TypeInv, TypeOK, RoadOf, AllSorted
<1>3. /\ R(events, d) = R(Tail(events), d) \cup X
      /\ Sorted(Tail(events), d) /\ Below(X, R(Tail(events), d))
  BY <1>1, <1>2, RanksTail, SortedTail DEF R
<1>4. /\ R(events, d) = R(events, d)' \cup X /\ Below(X, R(events, d)')
      /\ Sorted(events, d)'
  BY <1>1, <1>3
<1>5. /\ R(todo, d) = {} /\ R(outbound, d)' = R(outbound, d)
      /\ R(received[d], d)' = R(received[d], d) /\ R(queue[d], d)' = R(queue[d], d)
  BY <1>1, RanksOfFew DEF R, writerVars
<1>6. Shifts(d, 5, X)
  BY <1>4, <1>5, TracksAre DEF Shifts
<1>7. AllSorted(d)'
  BY <1>1, <1>4 DEF RoadOf, AllSorted, writerVars
<1>8. RoadOf(d)'
  BY <1>1, <1>6, <1>7, ShiftKeepsRoad DEF readerVars
<1> QED
  BY <1>4, <1>5, <1>8

LEMMA EventRoad ==
  ASSUME TypeInv, InBounds, Roads, OpenConnection \/ CloseConnection
  PROVE  Roads'
<1> SUFFICES ASSUME NEW d \in Conn PROVE RoadOf(d)' /\ LifeOf(d)'
  BY DEF Roads
<1>1. RoadOf(d) /\ LifeOf(d)
  BY DEF Roads
<1>2. PICK kinds : NextEvent(kinds) /\ todo' = <<Head(events)>>
  BY DEF OpenConnection, CloseConnection
<1>3. PICK h \in Bounded : h = Head(events)
  BY <1>2, ChannelUpdates DEF NextEvent, InBounds
<1>4. PICK X : X = Own(h, d, Tracked)
  OBVIOUS
<1>5. R(todo, d)' = X /\ Sorted(todo, d)'
  <2>1. todo' = <<h>>
    BY <1>2, <1>3
  <2>2. R(<<h>>, d) = X /\ Sorted(<<h>>, d)
    BY <1>4, RanksOfFew, SortedFew DEF R
  <2> QED
    BY <2>1, <2>2
<1>6. /\ RoadOf(d)'
      /\ R(events, d) = R(events, d)' \cup X /\ Below(X, R(events, d)')
      /\ R(todo, d) = {} /\ R(outbound, d)' = R(outbound, d)
      /\ R(received[d], d)' = R(received[d], d) /\ R(queue[d], d)' = R(queue[d], d)
  BY <1>1, <1>2, <1>3, <1>4, <1>5, TakeRoad
<1>7. Ahead(d)' = Ahead(d)
  BY <1>5, <1>6 DEF Ahead
<1>8. /\ sent'[d] = sent[d] /\ reader'[d] = reader[d] /\ writer'[d] = writer[d]
      /\ routes' = routes /\ Last(d)' = Last(d)
      /\ session \in [Conn -> {"none", "open", "initialized"}]
  BY <1>2 DEF NextEvent, readerVars, writerVars, Last, TypeInv, TypeOK
<1>9. CASE h.conn # d
  <2>1. X = {} /\ session'[d] = session[d]
    BY <1>3, <1>4, <1>8, <1>9 DEF Own, OpenConnection, CloseConnection
  <2>2. R(events, d)' = R(events, d) /\ R(todo, d)' = R(todo, d)
    BY <1>5, <1>6, <2>1
  <2>3. Tracks(d)' = Tracks(d)
    BY <1>6, <2>2 DEF Tracks
  <2> QED
    BY <1>1, <1>6, <1>7, <1>8, <2>1, <2>2, <2>3 DEF LifeOf, Live
<1>10. CASE h.conn = d
  <2>1. /\ Last(d) \in Nat /\ Last(d) > 0 /\ Last(d) > Len(sent[d])
        /\ Len(sent[d]) \in Nat
    BY SizeAssumption, ChannelUpdates DEF Last, TypeInv, TypeOK
  <2>2. R(events, d) \subseteq Known(d) /\ R(events, d)' \subseteq Known(d)
    BY <1>1, <1>6, TracksAre DEF RoadOf
  <2>3. CASE OpenConnection
    <3>1. X = {0} /\ session'[d] = "open"
      BY <1>3, <1>4, <1>8, <1>10, <2>3, RankIs DEF OpenConnection, NextEvent, Own, Tracked
    <3>2. R(events, d) # {} /\ reader[d] \notin {"none", "opening"}
      <4>1. R(events, d) # {}
        BY <1>6, <3>1
      <4>2. Tracks(d)[5] # {}
        BY <4>1, TracksAre
      <4> QED
        BY <1>1, <4>1, <4>2 DEF LifeOf
    <3> QED
      BY <1>1, <1>6, <1>7, <1>8, <2>1, <3>1, <3>2 DEF LifeOf, Live
  <2>4. CASE CloseConnection
    <3>1. X = {Last(d)} /\ session'[d] = "none"
      BY <1>3, <1>4, <1>8, <1>10, <2>4, RankIs DEF CloseConnection, NextEvent, Own, Tracked
    <3>2. reader[d] = "gone"
      BY <1>6, <2>1, <2>2, <3>1 DEF Known
    <3>3. R(events, d)' = {}
      BY <1>6, <2>1, <2>2, <3>1 DEF Known, Below
    <3> QED
      BY <1>1, <1>6, <1>7, <1>8, <3>1, <3>2, <3>3 DEF LifeOf, Live
  <2> QED
    BY <2>3, <2>4
<1> QED
  BY <1>9, <1>10

LEMMA MessageRoad ==
  ASSUME TypeInv, InBounds, Roads, ProcessMessage
  PROVE  Roads'
<1> SUFFICES ASSUME NEW d \in Conn PROVE RoadOf(d)' /\ LifeOf(d)'
  BY DEF Roads
<1>1. RoadOf(d) /\ LifeOf(d)
  BY DEF Roads
<1>2. NextEvent(Method)
  BY DEF ProcessMessage
<1>3. PICK h \in Bounded : h = Head(events) /\ h.kind \in Method /\ h \in Request
  BY <1>2, ChannelUpdates, EventType DEF NextEvent, InBounds, TypeInv
<1>4. PICK X : X = Own(h, d, Tracked)
  OBVIOUS
<1>5. R(todo, d)' \subseteq X /\ Sorted(todo, d)'
  <2>1. \A kind \in {"ok", "refused"} :
          /\ Own(Answer(kind), d, Tracked) = X
    <3>1. ASSUME NEW kind \in {"ok", "refused"}
          PROVE  Own(Answer(kind), d, Tracked) = X
      <4>1. /\ Answer(kind).kind = kind /\ Answer(kind).conn = h.conn
            /\ Answer(kind).id = h.id
        BY <1>3, AnswerType DEF Answer
      <4>2. Rank(Answer(kind)) = h.id /\ Rank(h) = h.id
        BY <1>3, <4>1, MethodAssumption DEF Rank
      <4> QED
        BY <1>3, <1>4, <4>1, <4>2 DEF Own, Tracked
    <3> QED
      BY <3>1
  <2>2. \A kind \in {"started", "initialized"} : Own(Signal(kind, h.conn), d, Tracked) = {}
    BY <1>3, MethodAssumption, MessageFields, SignalType DEF Own, Tracked, Bounded
  <2>3. \/ todo' = << >> \/ todo' = <<Answer("ok")>> \/ todo' = <<Answer("refused")>>
        \/ todo' = <<Signal("started", h.conn), Answer("ok")>>
        \/ todo' = <<Signal("initialized", h.conn), Answer("ok")>>
    BY <1>3 DEF ProcessMessage, StartedFirst
  <2>4. PICK ok, refused, started, initialized :
          /\ ok = Answer("ok") /\ refused = Answer("refused")
          /\ started = Signal("started", h.conn)
          /\ initialized = Signal("initialized", h.conn)
    OBVIOUS
  <2>5. /\ R(<< >>, d) = {} /\ R(<<ok>>, d) = X /\ R(<<refused>>, d) = X
        /\ R(<<started, ok>>, d) = X /\ R(<<initialized, ok>>, d) = X
    <3>1. /\ Own(ok, d, Tracked) = X /\ Own(refused, d, Tracked) = X
          /\ Own(started, d, Tracked) = {} /\ Own(initialized, d, Tracked) = {}
      BY <2>1, <2>2, <2>4
    <3>2. /\ R(<< >>, d) = {}
          /\ \A m : R(<<m>>, d) = Own(m, d, Tracked)
          /\ \A m, n : R(<<m, n>>, d) = Own(m, d, Tracked) \cup Own(n, d, Tracked)
      BY RanksOfFew DEF R
    <3>3. /\ R(<<started, ok>>, d) = {} \cup X
          /\ R(<<initialized, ok>>, d) = {} \cup X
      BY <3>1, <3>2, ZenonT(60)
    <3> QED
      BY <3>1, <3>2, <3>3
  <2>6. /\ Sorted(<< >>, d) /\ Sorted(<<ok>>, d) /\ Sorted(<<refused>>, d)
        /\ Sorted(<<started, ok>>, d) /\ Sorted(<<initialized, ok>>, d)
    BY <2>2, <2>4, SortedFew
  <2>7. PICK t : t = todo'
    OBVIOUS
  <2>8. R(t, d) \subseteq X /\ Sorted(t, d)
    BY <2>3, <2>4, <2>5, <2>6, <2>7
  <2> QED
    BY <2>7, <2>8
<1>6. /\ RoadOf(d)'
      /\ R(events, d) = R(events, d)' \cup X /\ Below(X, R(events, d)')
      /\ R(todo, d) = {} /\ R(outbound, d)' = R(outbound, d)
      /\ R(received[d], d)' = R(received[d], d) /\ R(queue[d], d)' = R(queue[d], d)
  BY <1>1, <1>2, <1>3, <1>4, <1>5, TakeRoad
<1>7. /\ Ahead(d) = Ahead(d)' \cup X
      /\ Ahead(d)' \subseteq Ahead(d)
  BY <1>5, <1>6 DEF Ahead
<1>8. /\ sent'[d] = sent[d] /\ reader'[d] = reader[d] /\ writer'[d] = writer[d]
      /\ routes' = routes /\ Last(d)' = Last(d)
      /\ session'[d] = "none" <=> session[d] = "none"
  BY <1>2
     DEF ProcessMessage, NextEvent, readerVars, writerVars, Last, TypeInv, TypeOK
<1>9. \A x \in X : x # 0 /\ x # Last(d)
  BY <1>3, <1>4, RankIs DEF Own, Last
<1>10. \A i \in 1..5 : (\A j \in 1..5 : Tracks(d)[j] = {}) => Tracks(d)'[i] = {}
  BY <1>5, <1>6, TracksAre
<1>11. LifeOf(d)'
  BY <1>1, <1>6, <1>7, <1>8, <1>9, <1>10 DEF LifeOf, Live
<1> QED
  BY <1>6, <1>11

LEMMA SendRoad ==
  ASSUME TypeInv, InBounds, Roads, SendOutbound
  PROVE  Roads'
<1> SUFFICES ASSUME NEW d \in Conn PROVE RoadOf(d)' /\ LifeOf(d)'
  BY DEF Roads
<1>1. RoadOf(d) /\ LifeOf(d)
  BY DEF Roads
<1>2. /\ todo # << >> /\ todo' = Tail(todo) /\ outbound' = Append(outbound, Head(todo))
      /\ UNCHANGED <<readerVars, events, session, routes, writerVars>>
  BY DEF SendOutbound
<1>3. PICK X : X = Own(Head(todo), d, Tracked)
  OBVIOUS
<1>4. /\ todo \in Seq(Outgoing \cup Control) /\ outbound \in Seq(Outgoing \cup Control)
      /\ Sorted(todo, d) /\ Sorted(outbound, d)
      /\ Below(R(outbound, d), R(todo, d))
  BY <1>1, TracksAre DEF TypeInv, TypeOK, RoadOf, AllSorted, Chain
<1>5. /\ R(todo, d) = R(Tail(todo), d) \cup X
      /\ Sorted(Tail(todo), d) /\ Below(X, R(Tail(todo), d))
  BY <1>2, <1>3, <1>4, RanksTail, SortedTail DEF R
<1>6. R(Append(outbound, Head(todo)), d) = R(outbound, d) \cup X
  BY <1>3, <1>4, RanksAppend DEF R
<1>7. Sorted(Append(outbound, Head(todo)), d)
  <2>1. Below(Ranks(outbound, d, Tracked), Own(Head(todo), d, Tracked))
    BY <1>3, <1>4, <1>5 DEF Below, R
  <2> QED
    BY <1>4, <2>1, SortedAppend
<1>8. /\ R(todo, d) = R(todo, d)' \cup X /\ Below(X, R(todo, d)')
      /\ R(outbound, d)' = R(outbound, d) \cup X
      /\ Sorted(todo, d)' /\ Sorted(outbound, d)'
  BY <1>2, <1>5, <1>6, <1>7
<1>9. /\ R(events, d)' = R(events, d)
      /\ R(received[d], d)' = R(received[d], d) /\ R(queue[d], d)' = R(queue[d], d)
  BY <1>2 DEF writerVars
<1>10. Shifts(d, 4, X)
  BY <1>8, <1>9, TracksAre DEF Shifts
<1>11. AllSorted(d)'
  BY <1>1, <1>2, <1>8 DEF RoadOf, AllSorted, writerVars
<1>12. RoadOf(d)'
  BY <1>1, <1>2, <1>10, <1>11, ShiftKeepsRoad DEF readerVars
<1>13. Ahead(d)' = Ahead(d)
  BY <1>8, <1>9 DEF Ahead
<1>14. \A i \in 1..5 : (\A j \in 1..5 : Tracks(d)[j] = {}) => Tracks(d)'[i] = {}
  BY <1>8, <1>9, TracksAre
<1>15. /\ sent'[d] = sent[d] /\ reader'[d] = reader[d] /\ writer'[d] = writer[d]
       /\ routes' = routes /\ Last(d)' = Last(d) /\ session'[d] = session[d]
  BY <1>2 DEF readerVars, writerVars, Last
<1>16. LifeOf(d)'
  BY <1>1, <1>9, <1>13, <1>14, <1>15 DEF LifeOf, Live
<1> QED
  BY <1>12, <1>16

\* The outbound task takes a message, which may go on to the writer's channel.
LEMMA RouteTakes ==
  ASSUME TypeInv, NEW d \in Conn, RoadOf(d), NEW kinds, NextOutbound(kinds),
         NEW X, X = Own(Head(outbound), d, Tracked),
         R(queue[d], d)' \subseteq R(queue[d], d) \cup X, Sorted(queue[d], d)'
  PROVE  /\ RoadOf(d)'
         /\ R(todo, d)' = R(todo, d) /\ R(events, d)' = R(events, d)
         /\ Ahead(d) = Ahead(d)' \cup X /\ Below(X, Ahead(d)')
         /\ \A i \in 1..5 : (\A j \in 1..5 : Tracks(d)[j] = {}) => Tracks(d)'[i] = {}
<1>1. /\ outbound # << >> /\ outbound' = Tail(outbound)
      /\ UNCHANGED <<readerVars, events, processorVars, received>>
  BY DEF NextOutbound
<1>2. outbound \in Seq(Outgoing \cup Control) /\ Sorted(outbound, d)
  BY DEF TypeInv, TypeOK, RoadOf, AllSorted
<1>3. /\ R(outbound, d) = R(Tail(outbound), d) \cup X
      /\ Sorted(Tail(outbound), d) /\ Below(X, R(Tail(outbound), d))
  BY <1>1, <1>2, RanksTail, SortedTail DEF R
<1>4. /\ R(outbound, d) = R(outbound, d)' \cup X /\ Below(X, R(outbound, d)')
      /\ Sorted(outbound, d)'
  BY <1>1, <1>3
<1>5. /\ R(todo, d)' = R(todo, d) /\ R(events, d)' = R(events, d)
      /\ R(received[d], d)' = R(received[d], d)
  BY <1>1 DEF processorVars
<1>6. Shifts(d, 3, X)
  BY <1>4, <1>5, TracksAre DEF Shifts
<1>7. AllSorted(d)'
  BY <1>1, <1>4 DEF RoadOf, AllSorted, processorVars
<1>8. RoadOf(d)'
  BY <1>1, <1>6, <1>7, ShiftKeepsRoad DEF readerVars
<1>9. Ahead(d) = Ahead(d)' \cup X
  BY <1>4, <1>5 DEF Ahead
<1>10. Below(X, R(todo, d)) /\ Below(X, R(events, d))
  <2>1. Below(R(outbound, d), R(todo, d)) /\ Below(R(outbound, d), R(events, d))
    BY TracksAre DEF RoadOf, Chain
  <2> QED
    BY <1>4, <2>1 DEF Below
<1>11. Below(X, Ahead(d)')
  BY <1>4, <1>5, <1>10 DEF Ahead, Below
<1>12. \A i \in 1..5 : (\A j \in 1..5 : Tracks(d)[j] = {}) => Tracks(d)'[i] = {}
  BY <1>4, <1>5, TracksAre
<1> QED
  BY <1>5, <1>8, <1>9, <1>11, <1>12

\* Neither "opened" nor "closed" leaves the road of d, and d loses its route only
\* when its writer has ended.
LEMMA PassingRoad ==
  ASSUME TypeInv, NEW d \in Conn, LifeOf(d), NEW X, 0 \notin X, Last(d) \notin X,
         Ahead(d) = Ahead(d)' \cup X,
         R(events, d)' = R(events, d),
         \A i \in 1..5 : (\A j \in 1..5 : Tracks(d)[j] = {}) => Tracks(d)'[i] = {},
         UNCHANGED <<readerVars, processorVars, writer>>,
         d \in routes' => d \in routes,
         d \in routes => d \in routes' \/ writer[d] # "running"
  PROVE  LifeOf(d)'
<1>1. /\ sent'[d] = sent[d] /\ reader'[d] = reader[d] /\ writer'[d] = writer[d]
      /\ Last(d)' = Last(d) /\ session'[d] = session[d] /\ Live(d)' = Live(d)
  BY DEF readerVars, processorVars, Last, Live
<1>2. /\ Last(d) \in Ahead(d) <=> Last(d) \in Ahead(d)'
      /\ 0 \in Ahead(d) <=> 0 \in Ahead(d)'
      /\ Ahead(d)' # {} => Ahead(d) # {}
  OBVIOUS
<1> QED
  BY <1>1, <1>2 DEF LifeOf

LEMMA RouteRoad ==
  ASSUME TypeInv, InBounds, Roads, RouteOpened \/ RouteClosed \/ RouteEnvelope
  PROVE  Roads'
<1> SUFFICES ASSUME NEW d \in Conn PROVE RoadOf(d)' /\ LifeOf(d)'
  BY DEF Roads
<1>1. RoadOf(d) /\ LifeOf(d)
  BY DEF Roads
<1>2. PICK kinds : NextOutbound(kinds) /\ Head(outbound).kind \in kinds
                   /\ (RouteOpened => kinds = {"opened"})
                   /\ (RouteClosed => kinds = {"closed"})
                   /\ (RouteEnvelope =>
                         kinds = {"ok", "refused", "initialized", "started", "event"})
  <2>1. CASE RouteOpened
    <3>1. NextOutbound({"opened"}) /\ ~RouteClosed /\ ~RouteEnvelope
      BY <2>1 DEF RouteOpened, RouteClosed, RouteEnvelope, NextOutbound
    <3> QED
      BY <3>1 DEF NextOutbound
  <2>2. CASE RouteClosed
    <3>1. NextOutbound({"closed"}) /\ ~RouteOpened /\ ~RouteEnvelope
      BY <2>2 DEF RouteOpened, RouteClosed, RouteEnvelope, NextOutbound
    <3> QED
      BY <3>1 DEF NextOutbound
  <2>3. CASE RouteEnvelope
    <3>1. NextOutbound({"ok", "refused", "initialized", "started", "event"})
          /\ ~RouteOpened /\ ~RouteClosed
      BY <2>3 DEF RouteOpened, RouteClosed, RouteEnvelope, NextOutbound
    <3> QED
      BY <3>1 DEF NextOutbound
  <2> QED
    BY <2>1, <2>2, <2>3
<1>3. PICK h \in Bounded : h = Head(outbound) /\ h.kind \in kinds
  <2>1. outbound # << >> /\ outbound \in Seq(Bounded)
    BY <1>2 DEF NextOutbound, InBounds
  <2> QED
    BY <1>2, <2>1, ChannelUpdates
<1>4. PICK X : X = Own(h, d, Tracked)
  OBVIOUS
<1>5. R(queue[d], d)' \subseteq R(queue[d], d) \cup X /\ Sorted(queue[d], d)'
  <2>1. queue[d] \in Seq(Outgoing) /\ Sorted(queue[d], d)
    BY <1>1 DEF TypeInv, TypeOK, RoadOf, AllSorted
  <2>2. CASE queue'[d] = queue[d]
    BY <2>1, <2>2
  <2>3. CASE queue'[d] = Append(queue[d], h)
    <3>1. R(Append(queue[d], h), d) = R(queue[d], d) \cup X
      BY <1>4, <2>1, RanksAppend DEF R
    <3>2. Below(R(queue[d], d), X)
      <4>1. Below(R(queue[d], d), R(outbound, d))
        BY <1>1, TracksAre DEF RoadOf, Chain
      <4>2. X \subseteq R(outbound, d)
        <5>1. outbound # << >> /\ outbound \in Seq(Outgoing \cup Control)
          BY <1>2 DEF NextOutbound, TypeInv, TypeOK
        <5> QED
          BY <1>3, <1>4, <5>1, RanksTail DEF R
      <4> QED
        BY <4>1, <4>2 DEF Below
    <3>3. Sorted(Append(queue[d], h), d)
      BY <1>4, <2>1, <3>2, SortedAppend DEF R
    <3> QED
      BY <2>3, <3>1, <3>3
  <2>4. queue' = queue \/ queue' = [queue EXCEPT ![h.conn] = Append(@, h)]
    BY <1>3 DEF RouteOpened, RouteClosed, RouteEnvelope
  <2>5. queue'[d] = queue[d] \/ queue'[d] = Append(queue[d], h)
    BY <2>4 DEF TypeInv, TypeOK
  <2> QED
    BY <2>2, <2>3, <2>5
<1>6. /\ RoadOf(d)'
      /\ R(todo, d)' = R(todo, d) /\ R(events, d)' = R(events, d)
      /\ Ahead(d) = Ahead(d)' \cup X /\ Below(X, Ahead(d)')
      /\ \A i \in 1..5 : (\A j \in 1..5 : Tracks(d)[j] = {}) => Tracks(d)'[i] = {}
  BY <1>1, <1>2, <1>3, <1>4, <1>5, RouteTakes
<1>7. UNCHANGED <<readerVars, processorVars, writer>>
  BY <1>2 DEF NextOutbound, RouteOpened, RouteClosed, RouteEnvelope
<1>8. /\ Last(d) \in Nat /\ Last(d) > 0 /\ Last(d) > Len(sent[d])
      /\ Len(sent[d]) \in Nat /\ MaxRequests[d] \in Nat
  BY SizeAssumption, ChannelUpdates DEF Last, TypeInv, TypeOK
<1>9. X # {} => h.conn = d /\ X = {Rank(h)} /\ X \subseteq Tracks(d)[3]
  <2>1. outbound # << >> /\ outbound \in Seq(Outgoing \cup Control)
    BY <1>2 DEF NextOutbound, TypeInv, TypeOK
  <2>2. X \subseteq Tracks(d)[3]
    BY <1>3, <1>4, <2>1, RanksTail, TracksAre DEF R
  <2> QED
    BY <1>4, <2>2 DEF Own
<1>10. CASE RouteEnvelope \/ h.conn # d
  <2>1. 0 \notin X /\ Last(d) \notin X
    <3>1. CASE h.conn # d
      BY <1>9, <3>1
    <3>2. CASE RouteEnvelope /\ h.conn = d
      <4>1. h.kind \in {"ok", "refused", "initialized", "started", "event"}
        BY <1>2, <1>3, <3>2
      <4>2. h.kind \in {"ok", "refused"} => Rank(h) \in 1..MaxRequests[d]
        BY <3>2, RankIs
      <4>3. h.kind \notin {"ok", "refused"} => X = {}
        BY <1>4, <4>1, MethodAssumption DEF Own, Tracked
      <4> QED
        BY <1>8, <1>9, <4>2, <4>3 DEF Last
    <3> QED
      BY <1>10, <3>1, <3>2
  <2>2. /\ d \in routes' => d \in routes
        /\ d \in routes => d \in routes' \/ writer[d] # "running"
    BY <1>3, <1>10 DEF RouteOpened, RouteClosed, RouteEnvelope, Forgotten, WriterGone
  <2>3. LifeOf(d)'
    BY <1>1, <1>6, <1>7, <2>1, <2>2, PassingRoad
  <2> QED
    BY <1>6, <2>3
<1>11. CASE ~RouteEnvelope /\ h.conn = d
  <2>1. /\ sent'[d] = sent[d] /\ reader'[d] = reader[d] /\ writer'[d] = writer[d]
        /\ Last(d)' = Last(d) /\ session'[d] = session[d] /\ Live(d)' = Live(d)
    BY <1>7 DEF readerVars, processorVars, Last, Live
  <2>2. X = {Rank(h)} /\ X \subseteq Known(d)
    <3>1. h.kind \in {"opened", "closed"}
      BY <1>2, <1>3, <1>11
    <3>2. X = {Rank(h)}
      BY <1>4, <1>11, <3>1 DEF Own, Tracked
    <3>3. Tracks(d)[3] \subseteq Known(d)
      BY <1>1 DEF RoadOf
    <3> QED
      BY <1>9, <3>2, <3>3
  <2>3. reader[d] \notin {"none", "opening"}
    <3>1. Tracks(d)[3] # {}
      BY <1>9, <2>2
    <3> QED
      BY <1>1, <3>1 DEF LifeOf
  <2>4. CASE RouteOpened
    <3>1. X = {0} /\ d \in routes'
      BY <1>2, <1>3, <1>11, <2>2, <2>4, RankIs DEF RouteOpened
    <3>2. Ahead(d) # {} /\ (Last(d) \in Ahead(d) => Last(d) \in Ahead(d)')
      BY <1>6, <1>8, <3>1
    <3>3. LifeOf(d)'
      BY <1>1, <1>6, <2>1, <2>3, <3>1, <3>2 DEF LifeOf
    <3> QED
      BY <1>6, <3>3
  <2>5. CASE RouteClosed
    <3>1. X = {Last(d)} /\ d \notin routes'
      BY <1>2, <1>3, <1>11, <2>2, <2>5, RankIs DEF RouteClosed, Forgotten
    <3>2. reader[d] = "gone"
      BY <1>8, <2>2, <3>1, SMTT(30) DEF Known
    <3>3. Ahead(d)' = {}
      <4>1. Ahead(d) \subseteq Known(d)
        <5>1. /\ Tracks(d)[3] \subseteq Known(d) /\ Tracks(d)[4] \subseteq Known(d)
              /\ Tracks(d)[5] \subseteq Known(d)
          BY <1>1 DEF RoadOf
        <5> QED
          BY <5>1, TracksAre DEF Ahead
      <4>2. \A y \in Ahead(d)' : y \in Nat /\ y <= Last(d) /\ Last(d) < y
        BY <1>6, <1>8, <3>1, <4>1 DEF Below, Known
      <4> QED
        BY <1>8, <4>2
    <3>4. LifeOf(d)'
      BY <1>1, <1>6, <2>1, <2>3, <3>1, <3>2, <3>3 DEF LifeOf, Live
    <3> QED
      BY <1>6, <3>4
  <2> QED
    BY <1>11, <2>4, <2>5
<1> QED
  BY <1>10, <1>11


LEMMA InitRoads == Init => InBounds /\ Roads
<1> SUFFICES ASSUME Init PROVE InBounds /\ Roads
  OBVIOUS
<1>1. InBounds
  BY DEF Init, InBounds
<1>2. ASSUME NEW c \in Conn
      PROVE  RoadOf(c) /\ LifeOf(c)
  <2>1. R(<< >>, c) = {} /\ Sorted(<< >>, c)
    BY RanksOfFew, SortedFew DEF R
  <2>2. /\ received[c] = << >> /\ queue[c] = << >> /\ outbound = << >>
        /\ todo = << >> /\ events = << >>
        /\ reader[c] = "none" /\ session[c] = "none" /\ routes = {} /\ sent[c] = << >>
        /\ writer[c] = "none"
    BY DEF Init
  <2>3. \A i \in 1..5 : Tracks(c)[i] = {}
    BY <2>1, <2>2, TracksAre
  <2>4. RoadOf(c)
    BY <2>1, <2>2, <2>3 DEF RoadOf, Chain, AllSorted, Below
  <2>5. R(events, c) = {} /\ Ahead(c) = {}
    BY <2>1, <2>2 DEF Ahead
  <2>6. LifeOf(c)
    BY <2>2, <2>3, <2>5 DEF LifeOf, Live
  <2> QED
    BY <2>4, <2>6
<1> QED
  BY <1>1, <1>2 DEF Roads

LEMMA StepRoads ==
  ASSUME TypeInv, InBounds, Roads, [Next]_vars
  PROVE  Roads'
<1>1. ASSUME NEW c \in Conn, Reader(c)
      PROVE  Roads'
  BY <1>1, OpenRoad, RefuseRoad, CloseRoad DEF Reader
<1>2. ASSUME NEW c \in Conn, Client(c)
      PROVE  Roads'
  <2>1. CASE HangUp(c)
    <3>1. \A d \in Conn : reader'[d] = reader[d] \/ (Live(d) /\ Live(d)')
      BY <2>1 DEF HangUp, Live, TypeInv, TypeOK
    <3>2. Live(c)
      BY <2>1 DEF HangUp, Live
    <3> QED
      BY <2>1, <3>1, <3>2, WriterRoad DEF HangUp
  <2>2. CASE WriteFails(c)
    BY <2>2, WriterRoad DEF WriteFails, StopWriting, readerVars
  <2>3. CASE \E method \in Uses[c] : Forward(c, method)
    <3>1. Uses[c] \subseteq Method
      BY SizeAssumption
    <3> QED
      BY <1>2, <2>3, <3>1, ForwardRoad DEF Client
  <2> QED
    BY <1>2, <2>1, <2>2, <2>3, AcceptRoad DEF Client
<1>3. ASSUME NEW c \in Conn, Writer(c)
      PROVE  Roads'
  <2>1. CASE WriterEnds(c)
    BY <2>1, WriterRoad DEF WriterEnds, StopWriting, readerVars
  <2> QED
    BY <1>3, <2>1, WriteRoad DEF Writer
<1>4. CASE Processor
  BY <1>4, EventRoad, MessageRoad, SendRoad DEF Processor
<1>5. CASE Router
  BY <1>5, RouteRoad DEF Router
<1>6. CASE UNCHANGED <<readerVars, events, processorVars, outbound, routes, writerVars>>
  <2> SUFFICES ASSUME NEW d \in Conn PROVE RoadOf(d)' /\ LifeOf(d)'
    BY DEF Roads
  <2>1. /\ Tracks(d)' = Tracks(d) /\ AllSorted(d)' = AllSorted(d) /\ Ahead(d)' = Ahead(d)
        /\ Known(d)' = Known(d) /\ R(events, d)' = R(events, d) /\ Live(d)' = Live(d)
    BY <1>6 DEF readerVars, processorVars, writerVars, Tracks, AllSorted, Ahead, Known,
                Live
  <2>2. RoadOf(d) /\ LifeOf(d)
    BY DEF Roads
  <2>3. RoadOf(d)'
    BY <2>1, <2>2 DEF RoadOf
  <2>4. LifeOf(d)'
    BY <1>6, <2>1, <2>2 DEF LifeOf, readerVars, processorVars, writerVars, Last
  <2> QED
    BY <2>3, <2>4
<1> QED
  BY <1>1, <1>2, <1>3, <1>4, <1>5, <1>6, RunnerRoad DEF Next, Shutdown, Down, vars

\* Every connection's messages stay in order on their road, from the reader to what
\* is written, and the session and the route of a connection say truly what has
\* passed the processor and the outbound task.
RoadInv == TypeInv /\ InBounds /\ Roads

\* The roads stay in order and in step with the tasks in every reachable state.
THEOREM RoadInvariant == Spec => []RoadInv
<1>1. Init => RoadInv
  BY InitType, InitRoads DEF RoadInv
<1>2. RoadInv /\ [Next]_vars => RoadInv'
  BY StepType, StepBounded, StepRoads DEF RoadInv
<1> QED
  BY <1>1, <1>2, PTL DEF Spec

\* A rank that only "closed" can have means that "closed" is on its way.
LEMMA LastIsClosed ==
  ASSUME NEW c \in Conn, NEW channel \in Seq(Bounded), Last(c) \in R(channel, c)
  PROVE  Pending(channel, "closed", c)
<1>1. PICK i \in Of(channel, c, Tracked) : Rank(channel[i]) = Last(c)
  BY DEF R, Ranks
<1>2. channel[i] \in Bounded /\ channel[i].conn = c /\ i \in DOMAIN channel
  BY <1>1 DEF Of
<1>3. PICK m \in Bounded : m = channel[i]
  BY <1>2
<1>4. m.kind = "closed"
  <2> SUFFICES ASSUME m.kind # "closed" PROVE FALSE
    OBVIOUS
  <2>1. m.id = MaxRequests[c] + 1 /\ m.id <= MaxRequests[c] /\ MaxRequests[c] \in Nat
    BY <1>1, <1>2, <1>3, SizeAssumption DEF Rank, Last, Bounded
  <2> QED
    BY <2>1
<1> QED
  BY <1>2, <1>3, <1>4 DEF Pending

\* A connection whose reader is gone leaves nothing behind but what its "closed"
\* event, still on its way, will remove.
THEOREM GoneLeavesNothing == Spec => []NothingLeaks
<1>1. RoadInv => NothingLeaks
  <2> SUFFICES ASSUME RoadInv, NEW c \in Conn, reader[c] = "gone"
               PROVE  /\ session[c] # "none" => Pending(events, "closed", c)
                      /\ c \in routes => \E channel \in {events, todo, outbound} :
                                           Pending(channel, "closed", c)
    BY DEF NothingLeaks
  <2>1. /\ session[c] # "none" => Last(c) \in R(events, c)
        /\ c \in routes => Last(c) \in R(outbound, c) \cup R(todo, c) \cup R(events, c)
    BY DEF RoadInv, Roads, LifeOf, Ahead
  <2>2. events \in Seq(Bounded) /\ todo \in Seq(Bounded) /\ outbound \in Seq(Bounded)
    BY DEF RoadInv, InBounds
  <2>3. \A channel \in {events, todo, outbound} :
          Last(c) \in R(channel, c) => Pending(channel, "closed", c)
    BY <2>2, LastIsClosed
  <2> QED
    BY <2>1, <2>3
<1> QED
  BY <1>1, RoadInvariant, PTL

-----------------------------------------------------------------------------
(* The session gate.                                                       *)

\* What the channel of events says of a request is what the client sent.
Asked ==
  {m \in Request : m.id \in DOMAIN sent[m.conn] /\ sent[m.conn][m.id] = m.kind} \cup Control

\* A writer is given, and writes, messages of its own connection only.
Mail(c) == {m \in Outgoing : m.conn = c}

Addressed ==
  /\ events \in Seq(Asked)
  /\ \A c \in Conn : queue[c] \in Seq(Mail(c)) /\ received[c] \in Seq(Mail(c))

LEMMA StepAsked ==
  ASSUME TypeInv, events \in Seq(Asked), [Next]_vars
  PROVE  events' \in Seq(Asked)'
<1>1. ASSUME NEW c \in Conn, Open(c) \/ Close(c)
      PROVE  events' \in Seq(Asked)'
  <2>1. \A m \in Control : Append(events, m) \in Seq(Asked)
    BY DEF Asked
  <2>2. events' \in Seq(Asked)
    <3>1. CASE Open(c)
      <4>1. events' = Append(events, Signal("opened", c)) /\ Signal("opened", c) \in Control
        BY <3>1, SignalType DEF Open
      <4> QED
        BY <2>1, <4>1
    <3>2. CASE Close(c)
      <4>1. events' = Append(events, Signal("closed", c)) /\ Signal("closed", c) \in Control
        BY <3>2, SignalType DEF Close
      <4> QED
        BY <2>1, <4>1
    <3> QED
      BY <1>1, <3>1, <3>2
  <2>3. Asked' = Asked
    BY <1>1 DEF Open, Close, Asked
  <2> QED
    BY <2>2, <2>3
<1>2. ASSUME NEW c \in Conn, NEW method \in Method, Forward(c, method)
      PROVE  events' \in Seq(Asked)'
  <2>1. PICK A : A = Asked'
    OBVIOUS
  <2>2. /\ Len(sent[c]) \in Nat /\ sent' = [sent EXCEPT ![c] = Append(sent[c], method)]
        /\ sent \in [Conn -> Seq(Method)]
    BY <1>2, ChannelUpdates DEF Forward, TypeInv, TypeOK
  <2>3. \A d \in Conn : \A n \in DOMAIN sent[d] :
          n \in DOMAIN sent'[d] /\ sent'[d][n] = sent[d][n]
    BY <2>2
  <2>4. Asked \subseteq A
    <3>1. \A m \in Request : m.conn \in Conn
      BY DEF Request
    <3> QED
      BY <2>1, <2>3, <3>1 DEF Asked
  <2>5. PICK m : m = [kind |-> method, conn |-> c, id |-> Len(sent[c]) + 1]
    OBVIOUS
  <2>6. m \in A
    <3>1. m \in Request /\ m.conn = c /\ m.id = Len(sent[c]) + 1 /\ m.kind = method
      BY <2>2, <2>5 DEF Request
    <3>2. m.id \in DOMAIN sent'[c] /\ sent'[c][m.id] = method
      BY <2>2, <3>1
    <3> QED
      BY <2>1, <3>1, <3>2 DEF Asked
  <2>7. events \in Seq(A)
    BY <2>4
  <2>8. events' = events \/ events' = Append(events, m)
    BY <1>2, <2>5 DEF Forward
  <2> QED
    BY <2>1, <2>6, <2>7, <2>8
<1>3. CASE OpenConnection \/ CloseConnection \/ ProcessMessage
  <2>1. events # << >> /\ events' = Tail(events) /\ sent' = sent
    BY <1>3
       DEF OpenConnection, CloseConnection, ProcessMessage, NextEvent, readerVars
  <2> QED
    BY <2>1, ChannelUpdates DEF Asked
<1>4. CASE UNCHANGED <<sent, events>>
  BY <1>4 DEF Asked
<1> QED
  BY <1>1, <1>2, <1>3, <1>4, SizeAssumption
     DEF Next, Processor, Router, Reader, Runners, Writer, Client, Accept, Refuse, HangUp,
         WriteFails, WriterEnds, StopWriting, Shutdown, Down, vars, SendOutbound,
         RunnerNotify, RouteOpened, RouteClosed, RouteEnvelope, NextOutbound, Write,
         readerVars

LEMMA StepAddressed ==
  ASSUME TypeInv, Addressed, [Next]_vars
  PROVE  Addressed'
<1> SUFFICES ASSUME NEW d \in Conn
             PROVE  queue'[d] \in Seq(Mail(d)) /\ received'[d] \in Seq(Mail(d))
  BY StepAsked DEF Addressed, Mail
<1>1. queue[d] \in Seq(Mail(d)) /\ received[d] \in Seq(Mail(d))
  BY DEF Addressed
<1>2. ASSUME NEW c \in Conn, Refuse(c)
      PROVE  queue'[d] \in Seq(Mail(d)) /\ received'[d] \in Seq(Mail(d))
  <2>1. PICK m : m = [kind |-> "overloaded", conn |-> c, id |-> Len(sent[c])]
    OBVIOUS
  <2>2. m \in Mail(c)
    <3>1. Len(sent[c]) \in Nat \ {0}
      BY <1>2, ChannelUpdates DEF TypeInv, TypeOK, Refuse
    <3> QED
      BY <2>1, <3>1 DEF Mail, Outgoing
  <2>3. queue' = queue \/ queue' = [queue EXCEPT ![c] = Append(queue[c], m)]
    BY <1>2, <2>1 DEF Refuse
  <2>4. queue'[d] = queue[d] \/ (d = c /\ queue'[d] = Append(queue[d], m))
    BY <2>3 DEF TypeInv, TypeOK
  <2>5. d = c => Append(queue[d], m) \in Seq(Mail(d))
    BY <1>1, <2>2, ChannelUpdates
  <2> QED
    BY <1>1, <1>2, <2>4, <2>5 DEF Refuse
<1>3. CASE RouteEnvelope
  <2>1. Head(outbound) \in Outgoing \cup Control /\ received' = received
    BY <1>3, ChannelUpdates DEF RouteEnvelope, NextOutbound, TypeInv, TypeOK
  <2>2. PICK h : h = Head(outbound)
    OBVIOUS
  <2>3. h \in Mail(h.conn)
    BY <1>3, <2>1, <2>2 DEF RouteEnvelope, NextOutbound, Control, Mail
  <2>4. queue' = queue \/ queue' = [queue EXCEPT ![h.conn] = Append(queue[h.conn], h)]
    BY <1>3, <2>2 DEF RouteEnvelope
  <2>5. queue'[d] = queue[d] \/ (d = h.conn /\ queue'[d] = Append(queue[d], h))
    BY <2>4 DEF TypeInv, TypeOK
  <2>6. d = h.conn => Append(queue[d], h) \in Seq(Mail(d))
    BY <1>1, <2>3, ChannelUpdates
  <2> QED
    BY <1>1, <2>1, <2>5, <2>6
<1>4. ASSUME NEW c \in Conn, Write(c)
      PROVE  queue'[d] \in Seq(Mail(d)) /\ received'[d] \in Seq(Mail(d))
  <2>1. CASE d = c
    <3>1. /\ queue[d] # << >> /\ queue'[d] = Tail(queue[d])
          /\ received'[d] = Append(received[d], Head(queue[d]))
      BY <1>4, <2>1 DEF Write, TypeInv, TypeOK
    <3> QED
      BY <1>1, <3>1, ChannelUpdates
  <2>2. CASE d # c
    BY <1>1, <1>4, <2>2 DEF Write
  <2> QED
    BY <2>1, <2>2
<1>5. ASSUME NEW c \in Conn, HangUp(c) \/ StopWriting(c)
      PROVE  queue'[d] \in Seq(Mail(d)) /\ received'[d] \in Seq(Mail(d))
  <2>1. queue'[d] = queue[d] \/ queue'[d] = << >>
    BY <1>5 DEF HangUp, StopWriting, TypeInv, TypeOK
  <2>2. << >> \in Seq(Mail(d))
    OBVIOUS
  <2> QED
    BY <1>1, <1>5, <2>1, <2>2 DEF HangUp, StopWriting
<1>6. CASE UNCHANGED <<queue, received>>
  BY <1>1, <1>6
<1>7. ASSUME NEW c \in Conn, Reader(c) \/ Client(c)
      PROVE  queue'[d] \in Seq(Mail(d)) /\ received'[d] \in Seq(Mail(d))
  BY <1>2, <1>5, <1>6, <1>7
     DEF Reader, Client, Accept, Open, Close, Forward, WriteFails, writerVars
<1>8. CASE Processor \/ Router
  BY <1>3, <1>6, <1>8
     DEF Processor, Router, OpenConnection, CloseConnection, ProcessMessage, NextEvent,
         SendOutbound, RouteOpened, RouteClosed, NextOutbound, writerVars
<1> QED
  BY <1>4, <1>5, <1>6, <1>7, <1>8
     DEF Next, Runners, Writer, WriterEnds, RunnerNotify, Shutdown, Down, vars, writerVars

\* The answers of one kind that were given to c, wherever they are by now.
Path(c, kind) ==
  Ranks(received[c], c, {kind}) \cup Ranks(queue[c], c, {kind})
    \cup Ranks(outbound, c, {kind}) \cup Ranks(todo, c, {kind})

Granted(c) == {n \in Path(c, "ok") : sent[c][n] = "initialize"}
Heard(c) == Ranks(received[c], c, {"ok"})

\* Before a session is initialized nothing has succeeded; once it is, the answer of
\* an initialize leads all others.  A writer that ends may take that answer with it,
\* but then the client hears nothing more.
Gate(c) ==
  /\ session[c] = "open" \/ 0 \in R(events, c) => Path(c, "ok") = {}
  /\ writer[c] = "running" =>
       /\ session[c] = "initialized" => Granted(c) # {}
       /\ \A n \in Path(c, "ok") : \E m \in Granted(c) : m <= n
  /\ Below(Path(c, "refused"), Path(c, "ok"))
  /\ \A n \in Heard(c) : \E m \in Heard(c) : sent[c][m] = "initialize" /\ m <= n

Gates == \A c \in Conn : Gate(c)

LEMMA PathInOrder ==
  ASSUME RoadInv, NEW c \in Conn, NEW kind \in {"ok", "refused"}
  PROVE  /\ Path(c, kind) \subseteq 1..Len(sent[c])
         /\ Below(Path(c, kind), R(events, c))
<1>1. \A channel : Ranks(channel, c, {kind}) \subseteq R(channel, c)
  BY DEF Ranks, R, Of, Tracked
<1>2. ASSUME NEW channel \in Seq(Bounded), NEW x \in Ranks(channel, c, {kind})
      PROVE  x \in 1..MaxRequests[c]
  <2>1. PICK i \in Of(channel, c, {kind}) : x = Rank(channel[i])
    BY <1>2 DEF Ranks
  <2>2. PICK m \in Bounded : m = channel[i] /\ m.conn = c /\ m.kind = kind
    BY <2>1 DEF Of
  <2>3. m.kind \in {"ok", "refused"} => Rank(m) = m.id /\ m.id \in 1..MaxRequests[m.conn]
    BY RankIs
  <2> QED
    BY <2>1, <2>2, <2>3
<1>3. /\ received[c] \in Seq(Bounded) /\ queue[c] \in Seq(Bounded)
      /\ outbound \in Seq(Bounded) /\ todo \in Seq(Bounded)
  BY DEF RoadInv, InBounds
<1>4. Path(c, kind) \subseteq 1..MaxRequests[c]
  BY <1>2, <1>3 DEF Path
<1>5. RoadOf(c)
  BY DEF RoadInv, Roads
<1>6. Path(c, kind) \subseteq Known(c)
  <2>1. /\ Tracks(c)[1] \subseteq Known(c) /\ Tracks(c)[2] \subseteq Known(c)
        /\ Tracks(c)[3] \subseteq Known(c) /\ Tracks(c)[4] \subseteq Known(c)
    BY <1>5 DEF RoadOf
  <2>2. /\ R(received[c], c) \subseteq Known(c) /\ R(queue[c], c) \subseteq Known(c)
        /\ R(outbound, c) \subseteq Known(c) /\ R(todo, c) \subseteq Known(c)
    BY <2>1, TracksAre
  <2> QED
    BY <1>1, <2>2 DEF Path
<1>7. Path(c, kind) \subseteq 1..Len(sent[c])
  <2>1. /\ MaxRequests[c] \in Nat /\ Len(sent[c]) \in Nat
    BY SizeAssumption, ChannelUpdates DEF RoadInv, TypeInv, TypeOK
  <2> QED
    BY <1>4, <1>6, <2>1 DEF Known, Last
<1>8. Below(Path(c, kind), R(events, c))
  <2>1. /\ Below(R(received[c], c), R(events, c)) /\ Below(R(queue[c], c), R(events, c))
        /\ Below(R(outbound, c), R(events, c)) /\ Below(R(todo, c), R(events, c))
    BY <1>5, TracksAre DEF RoadOf, Chain
  <2> QED
    BY <1>1, <2>1 DEF Path, Below
<1> QED
  BY <1>7, <1>8


\* A step that adds nothing to the path of d, and takes nothing from it while the
\* writer of d runs.
LEMMA GateKept ==
  ASSUME RoadInv, RoadInv', NEW d \in Conn, Gate(d),
         \A kind \in {"ok", "refused"} : Path(d, kind)' \subseteq Path(d, kind),
         writer'[d] = "running" =>
           \/ writer[d] = "running" /\ Path(d, "ok")' = Path(d, "ok")
           \/ Path(d, "ok") = {} /\ session'[d] = "none",
         \/ session'[d] = session[d]
         \/ session'[d] = "none"
         \/ session'[d] = "open" /\ 0 \in R(events, d),
         0 \in R(events, d)' => 0 \in R(events, d) \/ Path(d, "ok") = {},
         \A n \in DOMAIN sent[d] : sent'[d][n] = sent[d][n],
         received'[d] = received[d] \/ writer'[d] = "running"
  PROVE  Gate(d)'
<1>1. Path(d, "ok") \subseteq DOMAIN sent[d]
  BY PathInOrder, SMTT(30) DEF RoadInv, TypeInv, TypeOK
<1>2. Path(d, "ok")' = Path(d, "ok") => Granted(d)' = Granted(d)
  BY <1>1 DEF Granted
<1>3. session'[d] = "open" \/ 0 \in R(events, d)' => Path(d, "ok")' = {}
  BY DEF Gate
<1>4. writer'[d] = "running" =>
        /\ session'[d] = "initialized" => Granted(d)' # {}
        /\ \A n \in Path(d, "ok")' : \E m \in Granted(d)' : m <= n
  BY <1>2 DEF Gate
<1>5. Below(Path(d, "refused")', Path(d, "ok")')
  BY DEF Gate, Below
<1>6. ASSUME NEW n \in Heard(d)'
      PROVE  \E m \in Heard(d)' : sent'[d][m] = "initialize" /\ m <= n
  <2>1. CASE received'[d] = received[d]
    <3>1. Heard(d)' = Heard(d) /\ Heard(d) \subseteq DOMAIN sent[d]
      BY <1>1, <2>1 DEF Heard, Path
    <3>2. PICK m \in Heard(d) : sent[d][m] = "initialize" /\ m <= n
      BY <1>6, <3>1 DEF Gate
    <3> QED
      BY <3>1, <3>2
  <2>2. CASE writer'[d] = "running"
    <3>1. n \in Path(d, "ok")'
      BY <1>6 DEF Heard, Path
    <3>2. PICK m \in Granted(d)' : m <= n
      BY <1>4, <2>2, <3>1
    <3>3. m \in Path(d, "ok")' /\ sent'[d][m] = "initialize"
      BY <3>2 DEF Granted
    <3>4. m \in Nat /\ n \in Nat
      BY <1>1, <3>1, <3>3, SMTT(30) DEF RoadInv, TypeInv, TypeOK
    <3>5. RoadOf(d)'
      BY DEF RoadInv, Roads
    <3>6. /\ Below(R(received[d], d)', R(queue[d], d)')
          /\ Below(R(received[d], d)', R(outbound, d)')
          /\ Below(R(received[d], d)', R(todo, d)')
      BY <3>5, TracksAre DEF RoadOf, Chain, Below
    <3>7. \A channel : Ranks(channel, d, {"ok"}) \subseteq R(channel, d)
      BY DEF Ranks, R, Of, Tracked
    <3>8. n \in R(received[d], d)'
      BY <1>6, <3>7 DEF Heard
    <3>9. m \in Heard(d)'
      <4>1. CASE m \in Ranks(queue'[d], d, {"ok"})
        <5>1. n < m
          BY <3>6, <3>7, <3>8, <4>1 DEF Below
        <5> QED
          BY <3>2, <3>4, <5>1
      <4>2. CASE m \in Ranks(outbound', d, {"ok"})
        <5>1. n < m
          BY <3>6, <3>7, <3>8, <4>2 DEF Below
        <5> QED
          BY <3>2, <3>4, <5>1
      <4>3. CASE m \in Ranks(todo', d, {"ok"})
        <5>1. n < m
          BY <3>6, <3>7, <3>8, <4>3 DEF Below
        <5> QED
          BY <3>2, <3>4, <5>1
      <4> QED
        BY <3>3, <4>1, <4>2, <4>3 DEF Path, Heard
    <3> QED
      BY <3>2, <3>3, <3>9
  <2> QED
    BY <2>1, <2>2
<1> QED
  BY <1>3, <1>4, <1>5, <1>6 DEF Gate

\* What moves along the path stays on it; what is no answer is not on it.
LEMMA PathMoves ==
  ASSUME NEW d \in Conn, TypeInv, NEW kind \in {"ok", "refused"}
  PROVE  /\ UNCHANGED <<received, queue, outbound, todo>> => Path(d, kind)' = Path(d, kind)
         /\ SendOutbound => Path(d, kind)' = Path(d, kind)
         /\ \A c \in Conn : Write(c) => Path(d, kind)' = Path(d, kind)
         /\ \A c \in Conn : RunnerNotify(c) \/ Refuse(c) => Path(d, kind)' = Path(d, kind)
         /\ \A c \in Conn : HangUp(c) \/ StopWriting(c) =>
              /\ Path(d, kind)' \subseteq Path(d, kind)
              /\ writer'[d] = "running" =>
                   writer[d] = "running" /\ Path(d, kind)' = Path(d, kind)
         /\ OpenConnection \/ CloseConnection => Path(d, kind)' = Path(d, kind)
<1> USE DEF Path
<1>1. UNCHANGED <<received, queue, outbound, todo>> => Path(d, kind)' = Path(d, kind)
  OBVIOUS
<1>2. ASSUME SendOutbound
      PROVE  Path(d, kind)' = Path(d, kind)
  <2>1. /\ todo # << >> /\ todo' = Tail(todo) /\ outbound' = Append(outbound, Head(todo))
        /\ UNCHANGED <<received, queue>>
        /\ todo \in Seq(Outgoing \cup Control) /\ outbound \in Seq(Outgoing \cup Control)
    BY <1>2 DEF SendOutbound, writerVars, TypeInv, TypeOK
  <2>2. PICK X : X = Own(Head(todo), d, {kind})
    OBVIOUS
  <2>3. /\ Ranks(todo, d, {kind}) = Ranks(Tail(todo), d, {kind}) \cup X
        /\ Ranks(Append(outbound, Head(todo)), d, {kind}) = Ranks(outbound, d, {kind}) \cup X
    BY <2>1, <2>2, RanksTail, RanksAppend
  <2> QED
    BY <2>1, <2>3
<1>3. ASSUME NEW c \in Conn, Write(c)
      PROVE  Path(d, kind)' = Path(d, kind)
  <2>1. CASE d # c
    BY <1>3, <2>1 DEF Write, processorVars
  <2>2. CASE d = c
    <3>1. /\ queue[d] # << >> /\ queue'[d] = Tail(queue[d])
          /\ received'[d] = Append(received[d], Head(queue[d]))
          /\ UNCHANGED <<outbound, todo>>
          /\ queue[d] \in Seq(Outgoing) /\ received[d] \in Seq(Outgoing)
      BY <1>3, <2>2 DEF Write, processorVars, TypeInv, TypeOK
    <3>2. PICK X : X = Own(Head(queue[d]), d, {kind})
      OBVIOUS
    <3>3. /\ Ranks(queue[d], d, {kind}) = Ranks(Tail(queue[d]), d, {kind}) \cup X
          /\ Ranks(Append(received[d], Head(queue[d])), d, {kind})
               = Ranks(received[d], d, {kind}) \cup X
      BY <3>1, <3>2, RanksTail, RanksAppend
    <3> QED
      BY <3>1, <3>3
  <2> QED
    BY <2>1, <2>2
<1>4. ASSUME NEW c \in Conn, RunnerNotify(c)
      PROVE  Path(d, kind)' = Path(d, kind)
  <2>1. /\ outbound' = Append(outbound, Signal("event", c))
        /\ UNCHANGED <<received, queue, todo>> /\ outbound \in Seq(Outgoing \cup Control)
    BY <1>4 DEF RunnerNotify, writerVars, TypeInv, TypeOK
  <2>2. PICK X : X = Own(Signal("event", c), d, {kind})
    OBVIOUS
  <2>3. X = {}
    BY <2>2, SignalType DEF Own
  <2>4. Ranks(Append(outbound, Signal("event", c)), d, {kind})
          = Ranks(outbound, d, {kind}) \cup X
    BY <2>1, <2>2, RanksAppend
  <2> QED
    BY <2>1, <2>3, <2>4
<1>5. ASSUME NEW c \in Conn, Refuse(c)
      PROVE  Path(d, kind)' = Path(d, kind)
  <2>1. PICK m : m = [kind |-> "overloaded", conn |-> c, id |-> Len(sent[c])]
    OBVIOUS
  <2>2. PICK X : X = Own(m, d, {kind})
    OBVIOUS
  <2>3. queue' = queue \/ queue' = [queue EXCEPT ![c] = Append(queue[c], m)]
    BY <1>5, <2>1 DEF Refuse
  <2>4. /\ queue'[d] = queue[d] \/ queue'[d] = Append(queue[d], m)
        /\ queue[d] \in Seq(Outgoing)
    BY <2>3 DEF TypeInv, TypeOK
  <2>5. Ranks(Append(queue[d], m), d, {kind}) = Ranks(queue[d], d, {kind}) \cup X
    BY <2>2, <2>4, RanksAppend
  <2>6. X = {}
    BY <2>1, <2>2 DEF Own
  <2> QED
    BY <1>5, <2>4, <2>5, <2>6 DEF Refuse, processorVars
<1>6. ASSUME NEW c \in Conn, HangUp(c) \/ StopWriting(c)
      PROVE  /\ Path(d, kind)' \subseteq Path(d, kind)
             /\ writer'[d] = "running" =>
                  writer[d] = "running" /\ Path(d, kind)' = Path(d, kind)
  <2>1. /\ UNCHANGED <<received, outbound, todo>>
        /\ \/ queue'[d] = queue[d] /\ writer'[d] = writer[d]
           \/ queue'[d] = << >> /\ writer'[d] = "dead"
    BY <1>6 DEF HangUp, StopWriting, processorVars, TypeInv, TypeOK
  <2>2. Ranks(<< >>, d, {kind}) = {}
    BY RanksOfFew
  <2> QED
    BY <2>1, <2>2
<1>7. ASSUME OpenConnection \/ CloseConnection
      PROVE  Path(d, kind)' = Path(d, kind)
  <2>1. /\ todo = << >> /\ todo' = <<Head(events)>>
        /\ UNCHANGED <<received, queue, outbound>>
        /\ Head(events).kind \in {"opened", "closed"}
    BY <1>7 DEF OpenConnection, CloseConnection, NextEvent, Sent, writerVars
  <2>2. PICK h : h = Head(events)
    OBVIOUS
  <2>3. Own(h, d, {kind}) = {}
    BY <2>1, <2>2 DEF Own
  <2>4. Ranks(<< >>, d, {kind}) = {} /\ Ranks(<<h>>, d, {kind}) = {}
    <3>1. \A kinds : /\ Ranks(<< >>, d, kinds) = {}
                     /\ Ranks(<<h>>, d, kinds) = Own(h, d, kinds)
      BY RanksOfFew
    <3> QED
      BY <2>3, <3>1
  <2> QED
    BY <2>1, <2>2, <2>4
<1> QED
  BY <1>1, <1>2, <1>3, <1>4, <1>5, <1>6, <1>7

\* While a writer runs, the router drops no answer of its connection.
LEMMA NothingDropped ==
  ASSUME RoadInv, NEW d \in Conn, RouteEnvelope, writer[d] = "running",
         Head(outbound).conn = d, Head(outbound).kind \in {"ok", "refused"}
  PROVE  d \in routes
<1> SUFFICES ASSUME d \notin routes PROVE FALSE
  OBVIOUS
<1>1. RoadOf(d) /\ LifeOf(d)
  BY DEF RoadInv, Roads
<1>2. outbound # << >> /\ outbound \in Seq(Bounded) /\ Sorted(outbound, d)
  BY <1>1 DEF RouteEnvelope, NextOutbound, RoadInv, InBounds, RoadOf, AllSorted
<1>3. PICK h \in Bounded : h = Head(outbound)
  BY <1>2, ChannelUpdates
<1>4. Rank(h) \in Nat \ {0} /\ Own(h, d, Tracked) = {Rank(h)}
  <2>1. Rank(h) = h.id /\ h.id \in 1..MaxRequests[d] /\ MaxRequests[d] \in Nat
    BY <1>3, RankIs
  <2> QED
    BY <1>3, <2>1 DEF Own, Tracked
<1>5. /\ R(outbound, d) = R(Tail(outbound), d) \cup {Rank(h)}
      /\ Below({Rank(h)}, R(Tail(outbound), d))
  <2>1. PICK X : X = Own(Head(outbound), d, Tracked)
    OBVIOUS
  <2>2. R(outbound, d) = R(Tail(outbound), d) \cup X /\ Below(X, R(Tail(outbound), d))
    BY <1>2, <2>1, RanksTail, SortedTail DEF R
  <2> QED
    BY <1>3, <1>4, <2>1, <2>2
<1>6. Below(R(outbound, d), R(todo, d)) /\ Below(R(outbound, d), R(events, d))
  BY <1>1, TracksAre DEF RoadOf, Chain
<1>7. 0 \in Ahead(d)
  BY <1>1, <1>5 DEF LifeOf, Ahead
<1>8. \A x \in Ahead(d) : x = Rank(h) \/ Rank(h) < x
  BY <1>5, <1>6 DEF Ahead, Below
<1> QED
  BY <1>4, <1>7, <1>8


LEMMA RoutePath ==
  ASSUME RoadInv, NEW d \in Conn, NEW kind \in {"ok", "refused"},
         RouteOpened \/ RouteClosed \/ RouteEnvelope
  PROVE  /\ Path(d, kind)' \subseteq Path(d, kind)
         /\ writer'[d] = "running" =>
              writer[d] = "running" /\ Path(d, kind)' = Path(d, kind)
<1>1. /\ outbound # << >> /\ outbound' = Tail(outbound)
      /\ UNCHANGED <<received, todo, writer>>
      /\ outbound \in Seq(Outgoing \cup Control) /\ queue[d] \in Seq(Outgoing)
  BY DEF RouteOpened, RouteClosed, RouteEnvelope, NextOutbound, processorVars, RoadInv,
         TypeInv, TypeOK
<1>2. PICK h : h = Head(outbound)
  OBVIOUS
<1>3. PICK X : X = Own(h, d, {kind})
  OBVIOUS
<1>4. /\ Ranks(outbound, d, {kind}) = Ranks(Tail(outbound), d, {kind}) \cup X
      /\ Ranks(Append(queue[d], h), d, {kind}) = Ranks(queue[d], d, {kind}) \cup X
  BY <1>1, <1>2, <1>3, RanksTail, RanksAppend
<1>5. queue'[d] = queue[d] \/ queue'[d] = Append(queue[d], h)
  <2>1. queue' = queue \/ queue' = [queue EXCEPT ![h.conn] = Append(queue[h.conn], h)]
    BY <1>2 DEF RouteOpened, RouteClosed, RouteEnvelope
  <2> QED
    BY <2>1 DEF RoadInv, TypeInv, TypeOK
<1>6. ASSUME X # {}, writer[d] = "running"
      PROVE  queue'[d] = Append(queue[d], h)
  <2>1. h.conn = d /\ h.kind \in {"ok", "refused"}
    BY <1>3, <1>6 DEF Own
  <2>2. RouteEnvelope
    BY <1>2, <2>1 DEF RouteOpened, RouteClosed, NextOutbound
  <2>3. d \in routes
    BY <1>2, <1>6, <2>1, <2>2, NothingDropped
  <2>4. queue' = [queue EXCEPT ![d] = Append(queue[d], h)]
    BY <1>2, <1>6, <2>1, <2>2, <2>3 DEF RouteEnvelope, WriterGone
  <2> QED
    BY <2>4 DEF RoadInv, TypeInv, TypeOK
<1>7. Path(d, kind)' \subseteq Path(d, kind)
  BY <1>1, <1>4, <1>5 DEF Path
<1>8. ASSUME writer'[d] = "running"
      PROVE  Path(d, kind)' = Path(d, kind)
  <2>1. CASE X = {}
    BY <1>1, <1>4, <1>5, <2>1 DEF Path
  <2>2. CASE X # {}
    <3>1. queue'[d] = Append(queue[d], h)
      BY <1>1, <1>6, <1>8, <2>2
    <3> QED
      BY <1>1, <1>4, <3>1 DEF Path
  <2> QED
    BY <2>1, <2>2
<1> QED
  BY <1>1, <1>7, <1>8

\* The processor answers what it takes: the session decides how.
LEMMA MessageGate ==
  ASSUME RoadInv, RoadInv', Addressed, NEW d \in Conn, Gate(d), ProcessMessage
  PROVE  Gate(d)'
<1>1. /\ events # << >> /\ todo = << >>
      /\ UNCHANGED <<sent, outbound, writer, queue, received>>
  BY DEF ProcessMessage, NextEvent, Sent, readerVars, writerVars
<1>2. PICK h \in Bounded : h = Head(events) /\ h \in Request /\ h \in Asked
                           /\ h.kind \in Method
  <2>1. Head(events) \in Bounded /\ Head(events) \in Asked
    BY <1>1, ChannelUpdates DEF RoadInv, InBounds, Addressed
  <2>2. Head(events) \in Request /\ Head(events).kind \in Method
    BY EventType DEF ProcessMessage, RoadInv, TypeInv, NextEvent
  <2> QED
    BY <2>1, <2>2
<1>3. /\ h.id \in 1..MaxRequests[h.conn] /\ h.conn \in Conn
      /\ h.id \in DOMAIN sent[h.conn] /\ sent[h.conn][h.id] = h.kind
  <2>1. h \notin Control
    BY <1>2, MethodAssumption DEF Control
  <2>2. h.id \in DOMAIN sent[h.conn] /\ sent[h.conn][h.id] = h.kind
    BY <1>2, <2>1 DEF Asked
  <2> QED
    BY <1>2, <2>2, RankIs
<1>4. ASSUME NEW kind \in {"ok", "refused"}
      PROVE  /\ Path(d, kind)
                  = Ranks(received[d], d, {kind}) \cup Ranks(queue[d], d, {kind})
                      \cup Ranks(outbound, d, {kind})
             /\ Path(d, kind)' = Path(d, kind) \cup Ranks(todo', d, {kind})
  <2>1. \A kinds : Ranks(<< >>, d, kinds) = {}
    BY RanksOfFew
  <2> QED
    BY <1>1, <2>1 DEF Path
<1>5. ASSUME NEW kind \in {"ok", "refused"}, NEW k \in {"ok", "refused"},
             \/ todo' = <<Answer(k)>>
             \/ \E signal \in {"started", "initialized"} :
                  todo' = <<Signal(signal, h.conn), Answer(k)>>
      PROVE  Ranks(todo', d, {kind}) = IF h.conn = d /\ kind = k THEN {h.id} ELSE {}
  <2>1. PICK a : a = Answer(k)
    OBVIOUS
  <2>2. a.kind = k /\ a.conn = h.conn /\ a.id = h.id
    BY <1>2, <2>1, AnswerType DEF Answer
  <2>3. Own(a, d, {kind}) = IF h.conn = d /\ kind = k THEN {h.id} ELSE {}
    BY <2>2 DEF Own, Rank
  <2>4. \A signal \in {"started", "initialized"} :
          Own(Signal(signal, h.conn), d, {kind}) = {}
    BY <1>3, SignalType DEF Own
  <2>5. \A kinds : /\ Ranks(<<a>>, d, kinds) = Own(a, d, kinds)
                   /\ \A m : Ranks(<<m, a>>, d, kinds) = Own(m, d, kinds) \cup Own(a, d, kinds)
    BY RanksOfFew
  <2>6. CASE todo' = <<a>>
    BY <2>3, <2>5, <2>6
  <2>7. ASSUME NEW signal \in {"started", "initialized"},
               todo' = <<Signal(signal, h.conn), a>>
        PROVE  Ranks(todo', d, {kind}) = Own(a, d, {kind})
    <3>1. PICK m : m = Signal(signal, h.conn)
      OBVIOUS
    <3>2. Own(m, d, {kind}) = {} /\ todo' = <<m, a>>
      BY <2>4, <2>7, <3>1
    <3> QED
      BY <2>5, <3>2
  <2> QED
    BY <1>5, <2>1, <2>3, <2>6, <2>7
<1>6. CASE h.conn # d \/ todo' = << >>
  <2>1. \A kind \in {"ok", "refused"} : Ranks(todo', d, {kind}) = {}
    <3>1. ASSUME NEW kind \in {"ok", "refused"}, todo' = << >>
          PROVE  Ranks(todo', d, {kind}) = {}
      <4>1. \A kinds : Ranks(<< >>, d, kinds) = {}
        BY RanksOfFew
      <4> QED
        BY <3>1, <4>1
    <3>2. \/ todo' = << >>
          \/ \E k \in {"ok", "refused"} :
               \/ todo' = <<Answer(k)>>
               \/ \E signal \in {"started", "initialized"} :
                    todo' = <<Signal(signal, h.conn), Answer(k)>>
      BY <1>2 DEF ProcessMessage, StartedFirst
    <3> QED
      BY <1>5, <1>6, <3>1, <3>2
  <2>2. \A kind \in {"ok", "refused"} : Path(d, kind)' = Path(d, kind)
    BY <1>4, <2>1
  <2>3. session'[d] = session[d]
    <3>1. CASE h.conn # d
      BY <1>2, <3>1 DEF ProcessMessage, RoadInv, TypeInv, TypeOK
    <3>2. CASE todo' = << >>
      BY <1>2, <3>2 DEF ProcessMessage, StartedFirst
    <3> QED
      BY <1>6, <3>1, <3>2
  <2>4. R(events, d)' \subseteq R(events, d)
    <3>1. events \in Seq(Bounded) /\ events' = Tail(events)
      BY DEF RoadInv, InBounds, ProcessMessage, NextEvent
    <3> QED
      BY <1>1, <3>1, RanksTail DEF R
  <2> QED
    BY <1>1, <2>2, <2>3, <2>4, GateKept
<1>7. CASE h.conn = d /\ todo' # << >>
  <2>1. /\ h.id \in R(events, d) /\ 0 \notin R(events, d) /\ 0 \notin R(events, d)'
    <3>1. PICK X : X = Own(Head(events), d, Tracked)
      OBVIOUS
    <3>2. X = {h.id}
      <4>1. Rank(h) = h.id
        BY <1>2, RankIs
      <4> QED
        BY <1>2, <1>7, <3>1, <4>1 DEF Own, Tracked
    <3>3. events \in Seq(Bounded) /\ events' = Tail(events) /\ Sorted(events, d)
      BY DEF RoadInv, InBounds, Roads, RoadOf, AllSorted, ProcessMessage, NextEvent
    <3>4. R(events, d) = R(events, d)' \cup X /\ Below(X, R(events, d)')
      BY <1>1, <3>1, <3>3, RanksTail, SortedTail DEF R
    <3>5. h.id \in Nat \ {0}
      BY <1>2 DEF Request
    <3> QED
      BY <3>2, <3>4, <3>5 DEF Below
  <2>2. session[d] # "none"
    BY <2>1 DEF RoadInv, Roads, LifeOf
  <2>3. \A kind \in {"ok", "refused"} : Below(Path(d, kind), {h.id})
    BY <2>1, PathInOrder DEF Below
  <2>4. Heard(d)' = Heard(d) /\ Heard(d) \subseteq Path(d, "ok")
    BY <1>1 DEF Heard, Path
  <2>5. \/ /\ \/ todo' = <<Answer("ok")>>
              \/ \E signal \in {"started", "initialized"} :
                   todo' = <<Signal(signal, h.conn), Answer("ok")>>
           /\ \/ h.kind = "initialize" /\ session'[d] = "initialized"
              \/ session[d] = "initialized" /\ session'[d] = "initialized"
        \/ /\ todo' = <<Answer("refused")>>
           /\ session[d] # "initialized" /\ session'[d] = session[d]
    <3>1. session \in [Conn -> {"none", "open", "initialized"}]
      BY DEF RoadInv, TypeInv, TypeOK
    <3>2. CASE h.kind = "initialize"
      <4>1. /\ session' = [session EXCEPT ![d] = "initialized"]
            /\ todo' = <<Signal("initialized", h.conn), Answer("ok")>>
        BY <1>2, <1>7, <2>2, <3>2 DEF ProcessMessage
      <4> QED
        BY <3>1, <3>2, <4>1
    <3>3. CASE h.kind # "initialize" /\ session[d] = "initialized"
      <4>1. session' = session
        BY <1>2, <3>3 DEF ProcessMessage
      <4>2. \/ todo' = <<Answer("ok")>>
            \/ todo' = <<Signal("started", h.conn), Answer("ok")>>
        BY <1>2, <1>7, <3>3, MethodAssumption
           DEF ProcessMessage, StartedFirst, Initialized
      <4> QED
        BY <3>3, <4>1, <4>2
    <3>4. CASE h.kind # "initialize" /\ session[d] # "initialized"
      <4>1. session' = session /\ todo' = <<Answer("refused")>>
        BY <1>2, <1>7, <3>4 DEF ProcessMessage, StartedFirst, Initialized
      <4> QED
        BY <3>4, <4>1
    <3> QED
      BY <3>2, <3>3, <3>4
  <2>6. CASE /\ \/ todo' = <<Answer("ok")>>
                \/ \E signal \in {"started", "initialized"} :
                     todo' = <<Signal(signal, h.conn), Answer("ok")>>
             /\ \/ h.kind = "initialize" /\ session'[d] = "initialized"
                \/ session[d] = "initialized" /\ session'[d] = "initialized"
    <3>1. /\ Path(d, "ok")' = Path(d, "ok") \cup {h.id}
          /\ Path(d, "refused")' = Path(d, "refused")
      BY <1>4, <1>5, <1>7, <2>6
    <3>2. Granted(d) \subseteq Granted(d)'
      BY <1>1, <3>1 DEF Granted
    <3>3. ASSUME writer[d] = "running"
          PROVE  \E m \in Granted(d)' : m <= h.id
      <4>1. CASE h.kind = "initialize"
        BY <1>1, <1>3, <1>7, <3>1, <4>1 DEF Granted
      <4>2. CASE session[d] = "initialized"
        <5>1. PICK m \in Granted(d) : TRUE
          BY <3>3, <4>2 DEF Gate
        <5>2. m < h.id /\ m \in Nat /\ h.id \in Nat
          BY <1>3, <2>3, <5>1, PathInOrder DEF Granted, Below
        <5> QED
          BY <3>2, <5>1, <5>2
      <4> QED
        BY <2>6, <4>1, <4>2
    <3>4. writer'[d] = "running" =>
            \A n \in Path(d, "ok")' : \E m \in Granted(d)' : m <= n
      BY <1>1, <3>1, <3>2, <3>3 DEF Gate
    <3>5. Below(Path(d, "refused")', Path(d, "ok")')
      BY <2>3, <3>1 DEF Gate, Below
    <3>6. session'[d] = "initialized"
      BY <2>6
    <3> QED
      BY <1>1, <2>1, <2>4, <3>3, <3>4, <3>5, <3>6 DEF Gate
  <2>7. CASE /\ todo' = <<Answer("refused")>>
             /\ session[d] # "initialized" /\ session'[d] = session[d]
    <3>1. session[d] = "open"
      BY <2>2, <2>7 DEF RoadInv, TypeInv, TypeOK
    <3>2. Path(d, "ok")' = {} /\ Path(d, "ok") = {}
      BY <1>4, <1>5, <2>7, <3>1 DEF Gate
    <3> QED
      BY <2>4, <2>7, <3>1, <3>2 DEF Gate, Below
  <2> QED
    BY <2>5, <2>6, <2>7
<1> QED
  BY <1>6, <1>7


LEMMA StepGates ==
  ASSUME RoadInv, RoadInv', Addressed, Gates, [Next]_vars
  PROVE  Gates'
<1> SUFFICES ASSUME NEW d \in Conn PROVE Gate(d)'
  BY DEF Gates
<1>1. Gate(d) /\ TypeInv /\ RoadOf(d) /\ LifeOf(d)
  BY DEF Gates, RoadInv, Roads
<1>2. ASSUME UNCHANGED <<sent, session, received>>, R(events, d)' \subseteq R(events, d),
             \A kind \in {"ok", "refused"} :
               /\ Path(d, kind)' \subseteq Path(d, kind)
               /\ writer'[d] = "running" =>
                    writer[d] = "running" /\ Path(d, kind)' = Path(d, kind)
      PROVE  Gate(d)'
  BY <1>1, <1>2, GateKept
<1>3. ASSUME NEW c \in Conn, Open(c)
      PROVE  Gate(d)'
  <2>1. \A kind \in {"ok", "refused"} : Path(d, kind)' = Path(d, kind)
    BY <1>1, <1>3, PathMoves DEF Open, processorVars
  <2>2. UNCHANGED <<sent, session, received>>
    BY <1>3 DEF Open, processorVars
  <2>3. CASE d = c
    <3>1. /\ session[d] = "none" /\ R(received[d], d) = {} /\ R(queue[d], d) = {}
          /\ R(outbound, d) = {} /\ R(todo, d) = {}
      BY <1>1, <1>3, <2>3, TracksAre DEF Open, LifeOf
    <3>2. \A channel : Ranks(channel, d, {"ok"}) \subseteq R(channel, d)
      BY DEF Ranks, R, Of, Tracked
    <3>3. Path(d, "ok") = {}
      BY <3>1, <3>2 DEF Path
    <3> QED
      BY <1>1, <2>1, <2>2, <3>1, <3>3, GateKept
  <2>4. CASE d # c
    <3>1. writer'[d] = writer[d]
      BY <1>3, <2>4 DEF Open, TypeInv, TypeOK
    <3>2. R(events, d)' = R(events, d)
      <4>1. PICK X : X = Own(Signal("opened", c), d, Tracked)
        OBVIOUS
      <4>2. X = {}
        BY <2>4, <4>1, SignalType DEF Own
      <4>3. events' = Append(events, Signal("opened", c))
            /\ events \in Seq(Request \cup Control)
        BY <1>1, <1>3 DEF Open, TypeInv, TypeOK
      <4>4. R(events, d)' = R(events, d) \cup X
        BY <4>1, <4>3, RanksAppend DEF R
      <4> QED
        BY <4>2, <4>4
    <3> QED
      BY <1>2, <2>1, <2>2, <3>1, <3>2
  <2> QED
    BY <2>3, <2>4
<1>4. ASSUME NEW c \in Conn, Close(c) \/ \E method \in Method : Forward(c, method)
      PROVE  Gate(d)'
  <2>1. UNCHANGED <<session, received, writer, queue, outbound, todo>>
    BY <1>4 DEF Close, Forward, processorVars, writerVars
  <2>2. \A kind \in {"ok", "refused"} : Path(d, kind)' = Path(d, kind)
    BY <1>1, <2>1, PathMoves
  <2>3. \A n \in DOMAIN sent[d] : sent'[d][n] = sent[d][n]
    <3>1. CASE sent' = sent
      BY <3>1
    <3>2. ASSUME NEW method \in Method, sent' = [sent EXCEPT ![c] = Append(@, method)]
          PROVE  \A n \in DOMAIN sent[d] : sent'[d][n] = sent[d][n]
      <4>1. sent[d] \in Seq(Method) /\ (sent'[d] = sent[d] \/ sent'[d] = Append(sent[d], method))
        BY <1>1, <3>2 DEF TypeInv, TypeOK
      <4> QED
        BY <4>1
    <3> QED
      BY <1>4, <3>1, <3>2 DEF Close, Forward
  <2>4. 0 \in R(events, d)' => 0 \in R(events, d)
    <3>1. PICK m : /\ events' = events \/ events' = Append(events, m)
                   /\ m \in Bounded
                   /\ m.kind = "closed" \/ m.kind \in Method
      <4>1. CASE Close(c)
        <5>1. events' = Append(events, Signal("closed", c))
          BY <4>1 DEF Close
        <5>2. Signal("closed", c) \in Bounded
          BY SignalBounded
        <5> QED
          BY <5>1, <5>2, SignalType
      <4>2. ASSUME NEW method \in Method, Forward(c, method)
            PROVE  \E m \in Bounded : /\ events' = events \/ events' = Append(events, m)
                                      /\ m.kind \in Method
        <5>1. PICK m : m = [kind |-> method, conn |-> c, id |-> Len(sent[c]) + 1]
          OBVIOUS
        <5>2. Len(sent[c]) \in Nat /\ Len(sent[c]) < MaxRequests[c] /\ MaxRequests[c] \in Nat
          BY <1>1, <4>2, ChannelUpdates, SizeAssumption DEF TypeInv, TypeOK, Forward
        <5>3. m \in Bounded /\ m.kind = method
          BY <5>1, <5>2 DEF Bounded, Message, Request
        <5> QED
          BY <4>2, <5>1, <5>3 DEF Forward
      <4> QED
        BY <1>4, <4>1, <4>2
    <3>2. Rank(m) # 0
      <4>1. /\ m.kind = "closed" => Rank(m) = MaxRequests[m.conn] + 1
            /\ m.kind \in Method => Rank(m) \in 1..MaxRequests[m.conn]
            /\ MaxRequests[m.conn] \in Nat
        BY <3>1, RankIs DEF Last
      <4> QED
        BY <3>1, <4>1
    <3>3. PICK X : X = Own(m, d, Tracked)
      OBVIOUS
    <3>4. 0 \notin X /\ events \in Seq(Request \cup Control)
      BY <1>1, <3>2, <3>3 DEF Own, TypeInv, TypeOK
    <3>5. R(Append(events, m), d) = R(events, d) \cup X
      BY <3>3, <3>4, RanksAppend DEF R
    <3>6. R(events, d)' = R(events, d) \/ R(events, d)' = R(Append(events, m), d)
      BY <3>1
    <3> QED
      BY <3>4, <3>5, <3>6
  <2> QED
    BY <1>1, <2>1, <2>2, <2>3, <2>4, GateKept
<1>5. ASSUME NEW c \in Conn, Write(c)
      PROVE  Gate(d)'
  <2>1. \A kind \in {"ok", "refused"} : Path(d, kind)' = Path(d, kind)
    BY <1>1, <1>5, PathMoves
  <2>2. /\ UNCHANGED <<sent, session, events, writer>>
        /\ received'[d] = received[d] \/ writer'[d] = "running"
    BY <1>1, <1>5 DEF Write, readerVars, processorVars, TypeInv, TypeOK
  <2>3. R(events, d)' = R(events, d)
    BY <2>2
  <2> QED
    BY <1>1, <2>1, <2>2, <2>3, GateKept
<1>6. ASSUME OpenConnection \/ CloseConnection
      PROVE  Gate(d)'
  <2>1. \A kind \in {"ok", "refused"} : Path(d, kind)' = Path(d, kind)
    BY <1>1, <1>6, PathMoves
  <2>2. /\ UNCHANGED <<sent, writer, received>> /\ events # << >> /\ events' = Tail(events)
        /\ events \in Seq(Bounded)
    BY <1>6 DEF OpenConnection, CloseConnection, NextEvent, readerVars, writerVars,
                RoadInv, InBounds
  <2>3. PICK X : X = Own(Head(events), d, Tracked)
    OBVIOUS
  <2>4. R(events, d) = R(events, d)' \cup X
    BY <2>2, <2>3, RanksTail DEF R
  <2>5. PICK h \in Bounded : h = Head(events)
    BY <2>2, ChannelUpdates
  <2>6. \/ session'[d] = session[d] \/ session'[d] = "none"
        \/ session'[d] = "open" /\ h.conn = d /\ h.kind = "opened"
    BY <1>1, <1>6, <2>5 DEF OpenConnection, CloseConnection, NextEvent, TypeInv, TypeOK
  <2>7. h.conn = d /\ h.kind = "opened" => 0 \in X
    BY <2>3, <2>5, RankIs DEF Own, Tracked
  <2>8. writer'[d] = "running" => writer[d] = "running"
    BY <2>2
  <2> QED
    BY <1>1, <2>1, <2>2, <2>4, <2>6, <2>7, <2>8, GateKept
<1>7. ASSUME UNCHANGED <<sent, session, received, events>>,
             \/ UNCHANGED <<queue, outbound, todo, writer>>
             \/ UNCHANGED writer /\ SendOutbound
             \/ UNCHANGED writer /\ \E c \in Conn : RunnerNotify(c) \/ Refuse(c)
             \/ \E c \in Conn : HangUp(c) \/ StopWriting(c)
             \/ RouteOpened \/ RouteClosed \/ RouteEnvelope
      PROVE  Gate(d)'
  <2>1. \A kind \in {"ok", "refused"} :
          /\ Path(d, kind)' \subseteq Path(d, kind)
          /\ writer'[d] = "running" =>
               writer[d] = "running" /\ Path(d, kind)' = Path(d, kind)
    <3>1. CASE UNCHANGED <<queue, outbound, todo, writer>>
      BY <1>1, <1>7, <3>1, PathMoves
    <3>2. CASE UNCHANGED writer /\ SendOutbound
      BY <1>1, <3>2, PathMoves
    <3>3. CASE UNCHANGED writer /\ \E c \in Conn : RunnerNotify(c) \/ Refuse(c)
      BY <1>1, <3>3, PathMoves
    <3>4. CASE \E c \in Conn : HangUp(c) \/ StopWriting(c)
      BY <1>1, <3>4, PathMoves
    <3>5. CASE RouteOpened \/ RouteClosed \/ RouteEnvelope
      BY <3>5, RoutePath
    <3> QED
      BY <1>7, <3>1, <3>2, <3>3, <3>4, <3>5
  <2>2. R(events, d)' = R(events, d)
    BY <1>7
  <2> QED
    BY <1>2, <1>7, <2>1, <2>2
<1>8. ASSUME NEW c \in Conn, Reader(c) \/ Client(c)
      PROVE  Gate(d)'
  <2>1. CASE Refuse(c) \/ Accept(c) \/ HangUp(c) \/ WriteFails(c)
    BY <1>7, <2>1
       DEF Refuse, Accept, HangUp, WriteFails, StopWriting, readerVars, processorVars,
           writerVars
  <2>2. CASE \E method \in Uses[c] : Forward(c, method)
    <3>1. Uses[c] \subseteq Method
      BY SizeAssumption
    <3> QED
      BY <1>4, <2>2, <3>1
  <2> QED
    BY <1>3, <1>4, <1>8, <2>1, <2>2 DEF Reader, Client
<1>9. ASSUME Processor \/ Router \/ \E c \in Conn : Runners(c)
      PROVE  Gate(d)'
  <2>1. CASE ProcessMessage
    BY <1>1, <2>1, MessageGate
  <2>2. CASE SendOutbound \/ \E c \in Conn : RunnerNotify(c)
    BY <1>7, <2>2 DEF SendOutbound, RunnerNotify, readerVars, writerVars
  <2>3. CASE RouteOpened \/ RouteClosed \/ RouteEnvelope
    <3>1. UNCHANGED <<sent, session, received, events>>
      BY <2>3 DEF RouteOpened, RouteClosed, RouteEnvelope, NextOutbound, readerVars,
                  processorVars
    <3> QED
      BY <1>7, <2>3, <3>1
  <2> QED
    BY <1>6, <1>9, <2>1, <2>2, <2>3 DEF Processor, Router, Runners
<1>10. ASSUME NEW c \in Conn, Writer(c)
       PROVE  Gate(d)'
  <2>1. CASE WriterEnds(c)
    BY <1>7, <2>1 DEF WriterEnds, StopWriting, readerVars, processorVars
  <2> QED
    BY <1>5, <1>10, <2>1 DEF Writer
<1>11. CASE Shutdown \/ Down \/ UNCHANGED vars
  BY <1>7, <1>11 DEF Shutdown, Down, vars, readerVars, processorVars, writerVars
<1> QED
  BY <1>8, <1>9, <1>10, <1>11 DEF Next

\* The inductive invariant of the gate: order on the road, messages that say what
\* was asked and go where they should, and the gate on the path.
GateInv == RoadInv /\ Addressed /\ Gates

LEMMA InitGates == Init => Addressed /\ Gates
<1> SUFFICES ASSUME Init PROVE Addressed /\ Gates
  OBVIOUS
<1>1. Addressed
  BY DEF Init, Addressed
<1>2. ASSUME NEW c \in Conn
      PROVE  Gate(c)
  <2>1. \A kinds : Ranks(<< >>, c, kinds) = {}
    BY RanksOfFew
  <2>2. /\ received[c] = << >> /\ queue[c] = << >> /\ outbound = << >> /\ todo = << >>
        /\ events = << >> /\ session[c] = "none" /\ writer[c] = "none"
    BY DEF Init
  <2>3. /\ \A kind \in {"ok", "refused"} : Path(c, kind) = {}
        /\ Heard(c) = {}
    BY <2>1, <2>2 DEF Path, Heard
  <2> QED
    BY <2>2, <2>3 DEF Gate, Below
<1> QED
  BY <1>1, <1>2 DEF Gates

\* In every reachable state the requests on their way are what was asked, a writer has
\* only its own client's messages, no answer succeeds ahead of that of an initialize,
\* and none refuses behind it.
THEOREM GateInvariant == Spec => []GateInv
<1>1. Init => GateInv
  BY InitType, InitRoads, InitGates DEF GateInv, RoadInv
<1>2. GateInv /\ [Next]_vars => GateInv'
  <2> SUFFICES ASSUME GateInv, [Next]_vars PROVE GateInv'
    OBVIOUS
  <2>1. RoadInv'
    BY StepType, StepBounded, StepRoads DEF GateInv, RoadInv
  <2>2. Addressed'
    BY StepAddressed DEF GateInv, RoadInv
  <2>3. Gates'
    BY <2>1, StepGates DEF GateInv
  <2> QED
    BY <2>1, <2>2, <2>3 DEF GateInv
<1> QED
  BY <1>1, <1>2, PTL DEF Spec

\* Nothing but initialize succeeds on a connection before an initialize of that
\* very connection; and once that was answered nothing is refused any more.
THEOREM GateHolds == Spec => []SessionGate
<1>1. GateInv => SessionGate
  <2> SUFFICES ASSUME GateInv, NEW c \in Conn
               PROVE  LET granted == {n \in AnswersOf(c, "ok") : sent[c][n] = "initialize"} IN
                        /\ \A n \in AnswersOf(c, "ok") : \E m \in granted : m <= n
                        /\ \A n \in AnswersOf(c, "refused") : \A m \in granted : n < m
    BY DEF SessionGate
  <2>1. \A kind \in {"ok", "refused"} : AnswersOf(c, kind) = Ranks(received[c], c, {kind})
    <3>1. received[c] \in Seq(Mail(c))
      BY DEF GateInv, Addressed
    <3>2. \A i \in DOMAIN received[c] : received[c][i].conn = c
      BY <3>1 DEF Mail
    <3> QED
      BY <3>2 DEF AnswersOf, Ranks, Of, Rank
  <2>2. /\ AnswersOf(c, "ok") = Heard(c) /\ AnswersOf(c, "ok") \subseteq Path(c, "ok")
        /\ AnswersOf(c, "refused") \subseteq Path(c, "refused")
    BY <2>1 DEF Heard, Path
  <2>3. Gate(c)
    BY DEF GateInv, Gates
  <2>4. \A n \in AnswersOf(c, "ok") :
          \E m \in AnswersOf(c, "ok") : sent[c][m] = "initialize" /\ m <= n
    BY <2>2, <2>3 DEF Gate
  <2>5. \A n \in AnswersOf(c, "refused") : \A m \in AnswersOf(c, "ok") : n < m
    BY <2>2, <2>3 DEF Gate, Below
  <2> QED
    BY <2>4, <2>5
<1> QED
  BY <1>1, GateInvariant, PTL

-----------------------------------------------------------------------------
(* Each request exists once.                                               *)

Where(channel, S) == {i \in DOMAIN channel : channel[i] \in S}
Count(channel, S) == Cardinality(Where(channel, S))
One(m, S) == IF m \in S THEN 1 ELSE 0

LEMMA WhereFinite ==
  ASSUME NEW T, NEW channel \in Seq(T), NEW S
  PROVE  IsFiniteSet(Where(channel, S)) /\ Count(channel, S) \in Nat
<1>1. Len(channel) \in Nat /\ Where(channel, S) \in SUBSET (1..Len(channel))
  BY DEF Where
<1>2. IsFiniteSet(1..Len(channel))
  BY <1>1, FS_Interval
<1>3. IsFiniteSet(Where(channel, S))
  BY <1>1, <1>2, FS_Subset
<1> QED
  BY <1>3, FS_CardinalityType DEF Count

LEMMA CountAppend ==
  ASSUME NEW T, NEW channel \in Seq(T), NEW m, NEW S
  PROVE  Count(Append(channel, m), S) = Count(channel, S) + One(m, S)
<1>1. /\ DOMAIN Append(channel, m) = DOMAIN channel \cup {Len(channel) + 1}
      /\ Append(channel, m)[Len(channel) + 1] = m
      /\ \A i \in DOMAIN channel : Append(channel, m)[i] = channel[i]
      /\ Len(channel) + 1 \notin DOMAIN channel
  OBVIOUS
<1>2. IsFiniteSet(Where(channel, S)) /\ Count(channel, S) \in Nat
  BY WhereFinite
<1>3. CASE m \in S
  <2>1. Where(Append(channel, m), S) = Where(channel, S) \cup {Len(channel) + 1}
    BY <1>1, <1>3 DEF Where
  <2>2. Len(channel) + 1 \notin Where(channel, S)
    BY <1>1 DEF Where
  <2>3. Cardinality(Where(channel, S) \cup {Len(channel) + 1})
          = Cardinality(Where(channel, S)) + 1
    BY <1>2, <2>2, FS_AddElement
  <2> QED
    BY <1>3, <2>1, <2>3 DEF Count, One
<1>4. CASE m \notin S
  <2>1. Where(Append(channel, m), S) = Where(channel, S)
    BY <1>1, <1>4 DEF Where
  <2> QED
    BY <1>2, <1>4, <2>1 DEF Count, One
<1> QED
  BY <1>3, <1>4

LEMMA CountTail ==
  ASSUME NEW T, NEW channel \in Seq(T), channel # << >>, NEW S
  PROVE  Count(channel, S) = Count(Tail(channel), S) + One(Head(channel), S)
<1>1. /\ Head(channel) = channel[1] /\ 1 \in DOMAIN channel
      /\ DOMAIN channel \subseteq Nat \ {0}
      /\ \A i \in DOMAIN Tail(channel) : /\ i \in Nat /\ i >= 1 /\ i + 1 \in DOMAIN channel
                                         /\ Tail(channel)[i] = channel[i + 1]
      /\ \A i \in DOMAIN channel :
           i # 1 => i - 1 \in DOMAIN Tail(channel) /\ Tail(channel)[i - 1] = channel[i]
  OBVIOUS
<1> DEFINE rest == Where(channel, S) \ {1}
           f == [i \in Where(Tail(channel), S) |-> i + 1]
<1>2. f \in Bijection(Where(Tail(channel), S), rest)
  <2>1. f \in [Where(Tail(channel), S) -> rest]
    BY <1>1 DEF Where
  <2>2. \A i, j \in Where(Tail(channel), S) : f[i] = f[j] => i = j
    BY <1>1 DEF Where
  <2>3. \A j \in rest : \E i \in Where(Tail(channel), S) : f[i] = j
    <3> SUFFICES ASSUME NEW j \in rest
                 PROVE  \E i \in Where(Tail(channel), S) : f[i] = j
      OBVIOUS
    <3>1. /\ j - 1 \in DOMAIN Tail(channel) /\ Tail(channel)[j - 1] = channel[j]
          /\ j \in Nat /\ channel[j] \in S
      BY <1>1 DEF Where
    <3>2. j - 1 \in Where(Tail(channel), S)
      BY <3>1 DEF Where
    <3> QED
      BY <3>1, <3>2
  <2> QED
    BY <2>1, <2>2, <2>3 DEF Bijection, Injection, Surjection, IsInjective
<1>3. IsFiniteSet(Where(Tail(channel), S)) /\ Count(Tail(channel), S) \in Nat
  <2>1. Tail(channel) \in Seq(T)
    OBVIOUS
  <2> QED
    BY <2>1, WhereFinite
<1>4. IsFiniteSet(rest) /\ Cardinality(rest) = Count(Tail(channel), S)
  <2>1. ExistsBijection(Where(Tail(channel), S), rest)
    BY <1>2 DEF ExistsBijection
  <2> QED
    BY <1>3, <2>1, FS_Bijection DEF Count
<1>5. CASE Head(channel) \in S
  <2>1. Where(channel, S) = rest \cup {1} /\ 1 \notin rest
    BY <1>1, <1>5 DEF Where
  <2>2. Cardinality(rest \cup {1}) = Cardinality(rest) + 1
    BY <1>4, <2>1, FS_AddElement
  <2> QED
    BY <1>4, <1>5, <2>1, <2>2 DEF Count, One
<1>6. CASE Head(channel) \notin S
  <2>1. Where(channel, S) = rest
    BY <1>1, <1>6 DEF Where
  <2>2. Count(channel, S) = Cardinality(rest)
    BY <2>1 DEF Count
  <2>3. Count(channel, S) = Count(Tail(channel), S) /\ Count(Tail(channel), S) \in Nat
    BY <1>3, <1>4, <2>2
  <2> QED
    BY <1>6, <2>3 DEF One
<1> QED
  BY <1>5, <1>6

LEMMA CountFew ==
  ASSUME NEW S
  PROVE  /\ Count(<< >>, S) = 0
         /\ \A m : Count(<<m>>, S) = One(m, S)
         /\ \A m, n : Count(<<m, n>>, S) = One(m, S) + One(n, S)
<1>1. Count(<< >>, S) = 0
  <2>1. Where(<< >>, S) = {}
    BY DEF Where
  <2> QED
    BY <2>1, FS_EmptySet DEF Count
<1>2. ASSUME NEW m
      PROVE  Count(<<m>>, S) = One(m, S)
  <2>1. << >> \in Seq({m}) /\ <<m>> = Append(<< >>, m)
    OBVIOUS
  <2>2. Count(Append(<< >>, m), S) = Count(<< >>, S) + One(m, S)
    BY <2>1, CountAppend
  <2> QED
    BY <1>1, <2>1, <2>2 DEF One
<1>3. ASSUME NEW m, NEW n
      PROVE  Count(<<m, n>>, S) = One(m, S) + One(n, S)
  <2>1. <<m>> \in Seq({m}) /\ <<m, n>> = Append(<<m>>, n)
    OBVIOUS
  <2>2. Count(Append(<<m>>, n), S) = Count(<<m>>, S) + One(n, S)
    BY <2>1, CountAppend
  <2> QED
    BY <1>2, <2>1, <2>2
<1> QED
  BY <1>1, <1>2, <1>3

Req(c, n) == {m \in Message : m.kind \in Method /\ m.conn = c /\ m.id = n}
Ans(c, n) == {m \in Message : m.kind \in AnswerKind /\ m.conn = c /\ m.id = n}
Door(c, n) == IF reader[c] = "refusing" /\ n = Len(sent[c]) THEN 1 ELSE 0
AtEvents(c, n) == Count(events, Req(c, n))
AtTodo(c, n) == Count(todo, Ans(c, n))
AtOutbound(c, n) == Count(outbound, Ans(c, n))
AtQueue(c, n) == Count(queue[c], Ans(c, n))
AtReceived(c, n) == Count(received[c], Ans(c, n))

Parts(c, n) ==
  /\ Instances(c, n) = AtEvents(c, n) + AtTodo(c, n) + AtOutbound(c, n) + AtQueue(c, n)
                         + AtReceived(c, n) + Door(c, n)
  /\ AtEvents(c, n) \in Nat /\ AtTodo(c, n) \in Nat /\ AtOutbound(c, n) \in Nat
  /\ AtQueue(c, n) \in Nat /\ AtReceived(c, n) \in Nat /\ Door(c, n) \in {0, 1}
  /\ Instances(c, n) \in Nat

LEMMA InstancesAre == \A c \in Conn : \A n : TypeOK => Parts(c, n)
<1> SUFFICES ASSUME TypeOK, NEW c \in Conn, NEW n PROVE Parts(c, n)
  OBVIOUS
<1>1. \A S \in SUBSET Message : \A channel \in Seq(S) : channel \in Seq(Message)
  OBVIOUS
<1>2. /\ Request \cup Control \in SUBSET Message /\ Outgoing \cup Control \in SUBSET Message
      /\ Outgoing \in SUBSET Message
  BY DEF Message
<1>3. /\ events \in Seq(Request \cup Control) /\ todo \in Seq(Outgoing \cup Control)
      /\ outbound \in Seq(Outgoing \cup Control)
      /\ queue[c] \in Seq(Outgoing) /\ received[c] \in Seq(Outgoing)
  BY DEF TypeOK
<1>4. events \in Seq(Message)
  BY <1>1, <1>2, <1>3
<1>5. todo \in Seq(Message) /\ outbound \in Seq(Message)
  BY <1>1, <1>2, <1>3
<1>6. queue[c] \in Seq(Message) /\ received[c] \in Seq(Message)
  BY <1>1, <1>2, <1>3
<1>7. \A channel \in Seq(Message) : AnswersIn(channel, c, n) = Where(channel, Ans(c, n))
  BY DEF AnswersIn, Where, Ans
<1>8. {i \in DOMAIN events : events[i].kind \in Method
                               /\ events[i].conn = c /\ events[i].id = n}
        = Where(events, Req(c, n))
  BY <1>4 DEF Where, Req
<1>9. /\ AtEvents(c, n) \in Nat /\ AtTodo(c, n) \in Nat /\ AtOutbound(c, n) \in Nat
      /\ AtQueue(c, n) \in Nat /\ AtReceived(c, n) \in Nat
  BY <1>4, <1>5, <1>6, WhereFinite
     DEF AtEvents, AtTodo, AtOutbound, AtQueue, AtReceived
<1>10. Instances(c, n) = AtEvents(c, n) + AtTodo(c, n) + AtOutbound(c, n) + AtQueue(c, n)
                           + AtReceived(c, n) + Door(c, n)
  BY <1>5, <1>6, <1>7, <1>8
     DEF Instances, Count, Door, AtEvents, AtTodo, AtOutbound, AtQueue, AtReceived
<1>11. Door(c, n) \in Nat /\ Door(c, n) \in {0, 1}
  BY DEF Door
<1>12. Instances(c, n) \in Nat
  BY <1>9, <1>10, <1>11
<1> QED
  BY <1>9, <1>10, <1>11, <1>12 DEF Parts

LEMMA InstancesWillBe == \A c \in Conn : \A n : TypeOK' => Parts(c, n)'
<1>1. (\A c \in Conn : \A n : TypeOK => Parts(c, n))'
  BY InstancesAre, PTL
<1> QED
  BY <1>1

\* No more than one instance, none of what was not asked; none is lost while the
\* writer runs.
OnceFor(c, n) ==
  /\ n > Len(sent[c]) => Instances(c, n) = 0
  /\ n <= Len(sent[c]) /\ sent[c][n] # "notice" =>
       /\ Instances(c, n) <= 1
       /\ writer[c] = "running" => Instances(c, n) = 1

Once == \A c \in Conn : \A n \in Nat \ {0} : OnceFor(c, n)

\* A step that makes no instance of n, and loses one only with the writer.
LEMMA OnceKept ==
  ASSUME TypeOK, TypeOK', NEW c \in Conn, NEW n \in Nat \ {0}, OnceFor(c, n),
         sent'[c] = sent[c],
         Instances(c, n)' <= Instances(c, n),
         writer'[c] = "running" /\ n <= Len(sent[c]) /\ sent[c][n] # "notice" =>
           writer[c] = "running" /\ Instances(c, n)' = Instances(c, n)
  PROVE  OnceFor(c, n)'
<1>1. Parts(c, n) /\ Parts(c, n)'
  BY InstancesAre, InstancesWillBe
<1>2. Instances(c, n) \in Nat /\ Instances(c, n)' \in Nat
  BY <1>1 DEF Parts
<1> QED
  BY <1>2 DEF OnceFor

LEMMA OnceSame ==
  ASSUME TypeOK, NEW c \in Conn, NEW n \in Nat \ {0}, OnceFor(c, n),
         sent'[c] = sent[c], Instances(c, n)' = Instances(c, n),
         writer'[c] = "running" => writer[c] = "running" \/ n > Len(sent[c])
  PROVE  OnceFor(c, n)'
<1>1. Len(sent[c]) \in Nat
  BY ChannelUpdates DEF TypeOK
<1> QED
  BY <1>1 DEF OnceFor

LEMMA ForwardOnce ==
  ASSUME TypeOK, TypeOK', Once, NEW e \in Conn, NEW method \in Method, Forward(e, method)
  PROVE  Once'
<1> SUFFICES ASSUME NEW c \in Conn, NEW n \in Nat \ {0} PROVE OnceFor(c, n)'
  BY DEF Once
<1>1. PICK m : m = [kind |-> method, conn |-> e, id |-> Len(sent[e]) + 1]
  OBVIOUS
<1>2. /\ UNCHANGED <<todo, outbound, queue, received, writer>>
      /\ reader[e] = "reading"
      /\ sent'[c] = IF c = e THEN Append(sent[c], method) ELSE sent[c]
      /\ \/ events' = Append(events, m) /\ reader'[c] = reader[c]
         \/ /\ events' = events
            /\ reader'[c] = IF c = e /\ method # "notice" THEN "refusing" ELSE reader[c]
  BY <1>1 DEF Forward, processorVars, writerVars, TypeOK
<1>3. /\ sent[c] \in Seq(Method) /\ Len(sent[c]) \in Nat
      /\ events \in Seq(Request \cup Control)
      /\ c = e => Len(sent'[c]) = Len(sent[c]) + 1
  BY <1>2, ChannelUpdates DEF TypeOK
<1>4. One(m, Req(c, n)) = IF c = e /\ n = Len(sent[c]) + 1 THEN 1 ELSE 0
  <2>1. m.kind = method /\ m.conn = e /\ m.id = Len(sent[e]) + 1
    BY <1>1
  <2>2. m \in Request
    <3>1. Len(sent[e]) \in Nat
      BY ChannelUpdates DEF TypeOK
    <3> QED
      BY <1>1, <3>1 DEF Request
  <2> QED
    BY <2>1, <2>2 DEF One, Req, Message
<1>5. events' = Append(events, m) =>
        AtEvents(c, n)' = AtEvents(c, n) + One(m, Req(c, n))
  <2>1. Count(Append(events, m), Req(c, n)) = Count(events, Req(c, n)) + One(m, Req(c, n))
    BY <1>3, CountAppend
  <2> QED
    BY <2>1 DEF AtEvents
<1>6. events' = events => AtEvents(c, n)' = AtEvents(c, n)
  BY DEF AtEvents
<1>7. /\ AtTodo(c, n)' = AtTodo(c, n) /\ AtOutbound(c, n)' = AtOutbound(c, n)
      /\ AtQueue(c, n)' = AtQueue(c, n) /\ AtReceived(c, n)' = AtReceived(c, n)
  BY <1>2 DEF AtTodo, AtOutbound, AtQueue, AtReceived
<1>8. Parts(c, n) /\ Parts(c, n)' /\ OnceFor(c, n)
  BY InstancesAre, InstancesWillBe DEF Once
<1>9. CASE c = e /\ n = Len(sent[c]) + 1
  <2>1. Instances(c, n) = 0 /\ Door(c, n) = 0
    BY <1>2, <1>3, <1>8, <1>9 DEF OnceFor, Door
  <2>2. sent'[c][n] = method /\ n = Len(sent'[c])
    BY <1>2, <1>3, <1>9
  <2>3. CASE events' = Append(events, m) /\ reader'[c] = reader[c]
    <3>1. Door(c, n)' = 0
      BY <1>2, <1>9, <2>3 DEF Door
    <3>2. AtEvents(c, n)' = AtEvents(c, n) + 1
      BY <1>4, <1>5, <1>9, <2>3
    <3>3. Instances(c, n)' = Instances(c, n) + 1
      BY <1>7, <1>8, <2>1, <3>1, <3>2 DEF Parts
    <3> QED
      BY <2>1, <2>2, <3>3 DEF OnceFor
  <2>4. CASE /\ events' = events
             /\ reader'[c] = IF c = e /\ method # "notice" THEN "refusing" ELSE reader[c]
    <3>1. method # "notice" => Door(c, n)' = 1
      BY <1>9, <2>2, <2>4 DEF Door
    <3>2. method # "notice" => Instances(c, n)' = 1
      BY <1>6, <1>7, <1>8, <2>1, <2>4, <3>1 DEF Parts
    <3> QED
      BY <2>2, <3>2 DEF OnceFor
  <2> QED
    BY <1>2, <2>3, <2>4
<1>10. CASE ~(c = e /\ n = Len(sent[c]) + 1)
  <2>1. Door(c, n)' = Door(c, n)
    BY <1>2, <1>3, <1>10 DEF Door
  <2>2. Instances(c, n)' = Instances(c, n)
    BY <1>2, <1>4, <1>5, <1>6, <1>7, <1>8, <1>10, <2>1, SMTT(30) DEF Parts
  <2>3. /\ n > Len(sent'[c]) => n > Len(sent[c])
        /\ n <= Len(sent'[c]) => n <= Len(sent[c]) /\ sent'[c][n] = sent[c][n]
    BY <1>2, <1>3, <1>10
  <2> QED
    BY <1>2, <1>8, <2>2, <2>3 DEF OnceFor
<1> QED
  BY <1>9, <1>10


\* Steps of the reader and of who closes a writer.
LEMMA ReaderOnce ==
  ASSUME TypeInv, TypeInv', Roads, Once, NEW e \in Conn,
         \/ Accept(e) \/ Open(e) \/ Close(e) \/ Refuse(e) \/ HangUp(e) \/ StopWriting(e)
         \/ UNCHANGED <<readerVars, events, todo, outbound, writerVars>>
  PROVE  Once'
<1> SUFFICES ASSUME NEW c \in Conn, NEW n \in Nat \ {0} PROVE OnceFor(c, n)'
  BY DEF Once
<1>1. /\ TypeOK /\ TypeOK' /\ OnceFor(c, n) /\ Parts(c, n) /\ Parts(c, n)'
      /\ LifeOf(c)
  BY InstancesAre, InstancesWillBe DEF Once, TypeInv, Roads
<1>2. ASSUME NEW m, m.kind \in {"opened", "closed"}, events' = Append(events, m)
      PROVE  AtEvents(c, n)' = AtEvents(c, n)
  <2>1. events \in Seq(Request \cup Control)
    BY <1>1 DEF TypeOK
  <2>2. Count(Append(events, m), Req(c, n)) = Count(events, Req(c, n)) + One(m, Req(c, n))
    BY <2>1, CountAppend
  <2>3. One(m, Req(c, n)) = 0
    BY <1>2, MethodAssumption DEF One, Req
  <2> QED
    BY <1>1, <1>2, <2>2, <2>3 DEF AtEvents, Parts
<1>3. ASSUME UNCHANGED <<sent, todo, outbound, queue, received>>,
             AtEvents(c, n)' = AtEvents(c, n),
             reader'[c] = "refusing" <=> reader[c] = "refusing"
      PROVE  Instances(c, n)' = Instances(c, n)
  <2>1. /\ AtTodo(c, n)' = AtTodo(c, n) /\ AtOutbound(c, n)' = AtOutbound(c, n)
        /\ AtQueue(c, n)' = AtQueue(c, n) /\ AtReceived(c, n)' = AtReceived(c, n)
    BY <1>3 DEF AtTodo, AtOutbound, AtQueue, AtReceived
  <2>2. Door(c, n)' = Door(c, n)
    BY <1>3 DEF Door
  <2> QED
    BY <1>1, <1>3, <2>1, <2>2 DEF Parts
<1>4. CASE \/ Accept(e)
           \/ UNCHANGED <<readerVars, events, todo, outbound, writerVars>>
  <2>1. /\ UNCHANGED <<sent, events, todo, outbound, queue, received, writer>>
        /\ reader'[c] = "refusing" <=> reader[c] = "refusing"
    BY <1>1, <1>4 DEF Accept, readerVars, processorVars, writerVars, TypeOK
  <2>2. AtEvents(c, n)' = AtEvents(c, n)
    BY <2>1 DEF AtEvents
  <2>3. Instances(c, n)' = Instances(c, n)
    BY <1>3, <2>1, <2>2
  <2> QED
    BY <1>1, <2>1, <2>3, OnceSame
<1>5. CASE Close(e)
  <2>1. /\ UNCHANGED <<sent, todo, outbound, queue, received, writer>>
        /\ reader'[c] = "refusing" <=> reader[c] = "refusing"
        /\ events' = Append(events, Signal("closed", e))
    BY <1>1, <1>5 DEF Close, processorVars, writerVars, TypeOK
  <2>2. AtEvents(c, n)' = AtEvents(c, n)
    BY <1>2, <2>1, SignalType
  <2>3. Instances(c, n)' = Instances(c, n)
    BY <1>3, <2>1, <2>2
  <2> QED
    BY <1>1, <2>1, <2>3, OnceSame
<1>6. CASE Open(e)
  <2>1. /\ UNCHANGED <<sent, todo, outbound, queue, received>>
        /\ reader'[c] = "refusing" <=> reader[c] = "refusing"
        /\ events' = Append(events, Signal("opened", e))
        /\ writer'[c] = IF c = e THEN "running" ELSE writer[c]
    BY <1>1, <1>6 DEF Open, processorVars, TypeOK
  <2>2. AtEvents(c, n)' = AtEvents(c, n)
    BY <1>2, <2>1, SignalType
  <2>3. Instances(c, n)' = Instances(c, n)
    BY <1>3, <2>1, <2>2
  <2>4. c = e => n > Len(sent[c])
    BY <1>1, <1>6 DEF Open, LifeOf
  <2> QED
    BY <1>1, <2>1, <2>3, <2>4, OnceSame
<1>7. CASE Refuse(e)
  <2>1. PICK m : m = [kind |-> "overloaded", conn |-> e, id |-> Len(sent[e])]
    OBVIOUS
  <2>2. /\ UNCHANGED <<sent, events, todo, outbound, writer, received>>
        /\ reader[e] = "refusing" /\ reader'[c] = IF c = e THEN "reading" ELSE reader[c]
        /\ \/ queue' = queue /\ writer[e] = "dead"
           \/ queue' = [queue EXCEPT ![e] = Append(queue[e], m)]
    BY <1>1, <1>7, <2>1 DEF Refuse, processorVars, TypeOK
  <2>3. /\ AtTodo(c, n)' = AtTodo(c, n) /\ AtOutbound(c, n)' = AtOutbound(c, n)
        /\ AtEvents(c, n)' = AtEvents(c, n) /\ AtReceived(c, n)' = AtReceived(c, n)
    BY <2>2 DEF AtTodo, AtOutbound, AtEvents, AtReceived
  <2>4. CASE c # e
    <3>1. queue'[c] = queue[c]
      BY <1>1, <2>2, <2>4 DEF TypeOK
    <3>2. AtQueue(c, n)' = AtQueue(c, n) /\ Door(c, n)' = Door(c, n)
      BY <2>2, <2>4, <3>1 DEF AtQueue, Door
    <3>3. Instances(c, n)' = Instances(c, n)
      BY <1>1, <2>3, <3>2 DEF Parts
    <3> QED
      BY <1>1, <2>2, <3>3, OnceSame
  <2>5. CASE c = e
    <3>1. One(m, Ans(c, n)) = Door(c, n) /\ Door(c, n)' = 0
      <4>1. m \in Message
        <5>1. Len(sent[e]) \in Nat \ {0}
          BY <2>2, ChannelUpdates DEF TypeInv, TypeOK
        <5> QED
          BY <2>1, <5>1 DEF Message, Outgoing
      <4> QED
        BY <2>1, <2>2, <2>5, <4>1 DEF One, Ans, AnswerKind, Door
    <3>2. CASE queue' = queue /\ writer[e] = "dead"
      <4>1. AtQueue(c, n)' = AtQueue(c, n)
        BY <3>2 DEF AtQueue
      <4>2. Instances(c, n)' <= Instances(c, n)
        BY <1>1, <2>3, <3>1, <4>1 DEF Parts
      <4> QED
        BY <1>1, <2>2, <2>5, <3>2, <4>2, OnceKept
    <3>3. CASE queue' = [queue EXCEPT ![e] = Append(queue[e], m)]
      <4>1. queue'[c] = Append(queue[c], m) /\ queue[c] \in Seq(Outgoing)
        BY <1>1, <2>5, <3>3 DEF TypeOK
      <4>2. Count(Append(queue[c], m), Ans(c, n))
              = Count(queue[c], Ans(c, n)) + One(m, Ans(c, n))
        BY <4>1, CountAppend
      <4>3. AtQueue(c, n)' = AtQueue(c, n) + Door(c, n)
        BY <3>1, <4>1, <4>2 DEF AtQueue
      <4>4. Instances(c, n)' = Instances(c, n)
        BY <1>1, <2>3, <3>1, <4>3 DEF Parts
      <4> QED
        BY <1>1, <2>2, <4>4, OnceSame
    <3> QED
      BY <2>2, <3>2, <3>3
  <2> QED
    BY <2>4, <2>5
<1>8. CASE HangUp(e) \/ StopWriting(e)
  <2>1. /\ UNCHANGED <<sent, events, todo, outbound, received>>
        /\ reader'[c] = "refusing" <=> reader[c] = "refusing"
        /\ \/ queue'[c] = queue[c] /\ writer'[c] = writer[c]
           \/ queue'[c] = << >> /\ writer'[c] = "dead"
    BY <1>1, <1>8, SMTT(30) DEF HangUp, StopWriting, readerVars, processorVars, TypeOK
  <2>2. /\ AtTodo(c, n)' = AtTodo(c, n) /\ AtOutbound(c, n)' = AtOutbound(c, n)
        /\ AtEvents(c, n)' = AtEvents(c, n) /\ AtReceived(c, n)' = AtReceived(c, n)
        /\ Door(c, n)' = Door(c, n)
    BY <2>1 DEF AtTodo, AtOutbound, AtEvents, AtReceived, Door
  <2>3. CASE queue'[c] = queue[c] /\ writer'[c] = writer[c]
    <3>1. AtQueue(c, n)' = AtQueue(c, n)
      BY <2>3 DEF AtQueue
    <3>2. Instances(c, n)' = Instances(c, n)
      BY <1>1, <2>2, <3>1 DEF Parts
    <3> QED
      BY <1>1, <2>1, <2>3, <3>2, OnceSame
  <2>4. CASE queue'[c] = << >> /\ writer'[c] = "dead"
    <3>1. AtQueue(c, n)' = 0
      BY <2>4, CountFew DEF AtQueue
    <3>2. Instances(c, n)' <= Instances(c, n)
      BY <1>1, <2>2, <3>1 DEF Parts
    <3> QED
      BY <1>1, <2>1, <2>4, <3>2, OnceKept
  <2> QED
    BY <2>1, <2>3, <2>4
<1> QED
  BY <1>4, <1>5, <1>6, <1>7, <1>8


\* Steps of the processor and of the runners.
LEMMA ProcessorOnce ==
  ASSUME GateInv, TypeOK', Once,
         \/ OpenConnection \/ CloseConnection \/ ProcessMessage \/ SendOutbound
         \/ \E e \in Conn : RunnerNotify(e)
  PROVE  Once'
<1> SUFFICES ASSUME NEW c \in Conn, NEW n \in Nat \ {0} PROVE OnceFor(c, n)'
  BY DEF Once
<1>1. /\ TypeInv /\ TypeOK /\ InBounds /\ OnceFor(c, n) /\ Parts(c, n) /\ Parts(c, n)'
      /\ events \in Seq(Asked)
  BY InstancesAre, InstancesWillBe DEF Once, GateInv, RoadInv, TypeInv, Addressed
<1>2. UNCHANGED <<sent, reader, queue, received, writer>>
  BY DEF OpenConnection, CloseConnection, ProcessMessage, NextEvent, SendOutbound,
         RunnerNotify, readerVars, writerVars
<1>3. /\ AtQueue(c, n)' = AtQueue(c, n) /\ AtReceived(c, n)' = AtReceived(c, n)
      /\ Door(c, n)' = Door(c, n)
  BY <1>2 DEF AtQueue, AtReceived, Door
<1>4. /\ outbound' = outbound => AtOutbound(c, n)' = AtOutbound(c, n)
      /\ events' = events => AtEvents(c, n)' = AtEvents(c, n)
      /\ todo' = todo => AtTodo(c, n)' = AtTodo(c, n)
  BY DEF AtOutbound, AtEvents, AtTodo
<1>5. CASE OpenConnection \/ CloseConnection \/ ProcessMessage
  <2>1. /\ todo = << >> /\ events # << >> /\ events' = Tail(events)
        /\ outbound' = outbound
    BY <1>5
       DEF OpenConnection, CloseConnection, ProcessMessage, NextEvent, Sent
  <2>2. PICK h \in Bounded : h = Head(events) /\ h \in Asked
    BY <1>1, <2>1, ChannelUpdates DEF InBounds
  <2>3. AtEvents(c, n) = AtEvents(c, n)' + One(h, Req(c, n))
    <3>1. Count(events, Req(c, n)) = Count(Tail(events), Req(c, n))
                                      + One(Head(events), Req(c, n))
      BY <1>1, <2>1, CountTail
    <3> QED
      BY <2>1, <2>2, <3>1 DEF AtEvents
  <2>4. AtTodo(c, n) = 0
    BY <2>1, CountFew DEF AtTodo
  <2>5. CASE OpenConnection \/ CloseConnection
    <3>1. h.kind \in {"opened", "closed"} /\ todo' = <<h>>
      BY <2>2, <2>5 DEF OpenConnection, CloseConnection, NextEvent
    <3>2. One(h, Req(c, n)) = 0 /\ One(h, Ans(c, n)) = 0
      BY <3>1, MethodAssumption DEF One, Req, Ans, AnswerKind
    <3>3. AtTodo(c, n)' = 0
      BY <3>1, <3>2, CountFew DEF AtTodo
    <3>4. Instances(c, n)' = Instances(c, n)
      BY <1>1, <1>3, <1>4, <2>1, <2>3, <2>4, <3>2, <3>3 DEF Parts
    <3> QED
      BY <1>1, <1>2, <3>4, OnceSame
  <2>6. CASE ProcessMessage
    <3>1. h.kind \in Method /\ h \in Request /\ h.conn \in Conn
      BY <1>1, <2>2, <2>6, EventType DEF ProcessMessage, NextEvent
    <3>2. \A kind \in {"ok", "refused"} : One(Answer(kind), Ans(c, n)) = One(h, Req(c, n))
      <4> SUFFICES ASSUME NEW kind \in {"ok", "refused"}
                   PROVE  One(Answer(kind), Ans(c, n)) = One(h, Req(c, n))
        OBVIOUS
      <4>1. PICK a : a = Answer(kind)
        OBVIOUS
      <4>2. /\ a \in Outgoing /\ a.kind = kind /\ a.conn = h.conn /\ a.id = h.id
        BY <2>2, <3>1, <4>1, AnswerType DEF Answer
      <4>3. a \in Ans(c, n) <=> h \in Req(c, n)
        BY <3>1, <4>2 DEF Ans, Req, AnswerKind, Message
      <4> QED
        BY <4>1, <4>3 DEF One
    <3>3. \A kind \in {"started", "initialized"} : One(Signal(kind, h.conn), Ans(c, n)) = 0
      BY <3>1, SignalType DEF One, Ans, AnswerKind
    <3>4. CASE h.kind # "notice"
      <4>1. \E kind \in {"ok", "refused"} :
              \/ todo' = <<Answer(kind)>>
              \/ \E signal \in {"started", "initialized"} :
                   todo' = <<Signal(signal, h.conn), Answer(kind)>>
        BY <2>2, <2>6, <3>4 DEF ProcessMessage, StartedFirst
      <4>2. AtTodo(c, n)' = One(h, Req(c, n))
        <5>1. PICK kind \in {"ok", "refused"} :
                \/ todo' = <<Answer(kind)>>
                \/ \E signal \in {"started", "initialized"} :
                     todo' = <<Signal(signal, h.conn), Answer(kind)>>
          BY <4>1
        <5>2. PICK a : a = Answer(kind)
          OBVIOUS
        <5>3. One(a, Ans(c, n)) = One(h, Req(c, n))
          BY <3>2, <5>2
        <5>4. CASE todo' = <<a>>
          BY <5>3, <5>4, CountFew DEF AtTodo
        <5>5. ASSUME NEW signal \in {"started", "initialized"},
                     todo' = <<Signal(signal, h.conn), a>>
              PROVE  AtTodo(c, n)' = One(h, Req(c, n))
          <6>1. PICK m : m = Signal(signal, h.conn)
            OBVIOUS
          <6>2. One(m, Ans(c, n)) = 0 /\ todo' = <<m, a>>
            BY <3>3, <5>5, <6>1
          <6>3. Count(<<m, a>>, Ans(c, n)) = One(m, Ans(c, n)) + One(a, Ans(c, n))
            BY CountFew
          <6>4. AtTodo(c, n)' = 0 + One(a, Ans(c, n))
            BY <6>2, <6>3 DEF AtTodo
          <6> QED
            BY <5>3, <6>4 DEF One
        <5> QED
          BY <5>1, <5>2, <5>4, <5>5
      <4>3. Instances(c, n)' = Instances(c, n)
        BY <1>1, <1>3, <1>4, <2>1, <2>3, <2>4, <4>2 DEF Parts
      <4> QED
        BY <1>1, <1>2, <4>3, OnceSame
    <3>5. CASE h.kind = "notice"
      <4>1. todo' = << >>
        BY <2>2, <2>6, <3>5 DEF ProcessMessage
      <4>2. AtTodo(c, n)' = 0
        BY <4>1, CountFew DEF AtTodo
      <4>3. CASE h \in Req(c, n)
        <5>1. n \in DOMAIN sent[c] /\ sent[c][n] = "notice"
          BY <2>2, <3>1, <3>5, <4>3, MethodAssumption DEF Asked, Req, Control
        <5>2. Len(sent[c]) \in Nat /\ n <= Len(sent[c])
          BY <1>1, <5>1, ChannelUpdates, SMTT(30) DEF TypeOK
        <5> QED
          BY <1>2, <5>1, <5>2 DEF OnceFor
      <4>4. CASE h \notin Req(c, n)
        <5>1. One(h, Req(c, n)) = 0
          BY <4>4 DEF One
        <5>2. Instances(c, n)' = Instances(c, n)
          BY <1>1, <1>3, <1>4, <2>1, <2>3, <2>4, <4>2, <5>1 DEF Parts
        <5> QED
          BY <1>1, <1>2, <5>2, OnceSame
      <4> QED
        BY <4>3, <4>4
    <3> QED
      BY <3>4, <3>5
  <2> QED
    BY <1>5, <2>5, <2>6
<1>6. CASE SendOutbound
  <2>1. /\ todo # << >> /\ todo' = Tail(todo) /\ outbound' = Append(outbound, Head(todo))
        /\ events' = events
        /\ todo \in Seq(Outgoing \cup Control) /\ outbound \in Seq(Outgoing \cup Control)
    BY <1>1, <1>6 DEF SendOutbound, TypeOK
  <2>2. PICK m : m = Head(todo)
    OBVIOUS
  <2>3. /\ Count(todo, Ans(c, n)) = Count(Tail(todo), Ans(c, n)) + One(m, Ans(c, n))
        /\ Count(Append(outbound, m), Ans(c, n))
             = Count(outbound, Ans(c, n)) + One(m, Ans(c, n))
    BY <2>1, <2>2, CountTail, CountAppend
  <2>4. /\ AtTodo(c, n) = AtTodo(c, n)' + One(m, Ans(c, n))
        /\ AtOutbound(c, n)' = AtOutbound(c, n) + One(m, Ans(c, n))
    BY <2>1, <2>2, <2>3 DEF AtTodo, AtOutbound
  <2>5. One(m, Ans(c, n)) = 0 \/ One(m, Ans(c, n)) = 1
    BY DEF One
  <2>6. AtEvents(c, n)' = AtEvents(c, n)
    BY <1>4, <2>1
  <2>7. Instances(c, n)' = Instances(c, n)
    <3>1. CASE One(m, Ans(c, n)) = 0
      <4>1. AtTodo(c, n)' = AtTodo(c, n) /\ AtOutbound(c, n)' = AtOutbound(c, n)
        BY <1>1, <2>4, <3>1 DEF Parts
      <4> QED
        BY <1>1, <1>3, <2>6, <4>1 DEF Parts
    <3>2. CASE One(m, Ans(c, n)) = 1
      <4>1. /\ AtTodo(c, n)' = AtTodo(c, n) - 1
            /\ AtOutbound(c, n)' = AtOutbound(c, n) + 1
        BY <1>1, <2>4, <3>2 DEF Parts
      <4> QED
        BY <1>1, <1>3, <2>6, <4>1 DEF Parts
    <3> QED
      BY <2>5, <3>1, <3>2
  <2> QED
    BY <1>1, <1>2, <2>7, OnceSame
<1>7. ASSUME NEW e \in Conn, RunnerNotify(e)
      PROVE  OnceFor(c, n)'
  <2>1. /\ outbound' = Append(outbound, Signal("event", e)) /\ UNCHANGED <<events, todo>>
        /\ outbound \in Seq(Outgoing \cup Control)
    BY <1>1, <1>7 DEF RunnerNotify, TypeOK
  <2>2. PICK m : m = Signal("event", e)
    OBVIOUS
  <2>3. Count(Append(outbound, m), Ans(c, n)) = Count(outbound, Ans(c, n)) + One(m, Ans(c, n))
    BY <2>1, CountAppend
  <2>4. One(m, Ans(c, n)) = 0
    BY <2>2, SignalType DEF One, Ans, AnswerKind
  <2>5. AtOutbound(c, n)' = AtOutbound(c, n)
    BY <1>1, <2>1, <2>2, <2>3, <2>4 DEF AtOutbound, Parts
  <2>6. Instances(c, n)' = Instances(c, n)
    BY <1>1, <1>3, <1>4, <2>1, <2>5 DEF Parts
  <2> QED
    BY <1>1, <1>2, <2>6, OnceSame
<1> QED
  BY <1>5, <1>6, <1>7

\* Steps of the outbound task.
LEMMA RouterOnce ==
  ASSUME GateInv, TypeOK', Once, RouteOpened \/ RouteClosed \/ RouteEnvelope
  PROVE  Once'
<1> SUFFICES ASSUME NEW c \in Conn, NEW n \in Nat \ {0} PROVE OnceFor(c, n)'
  BY DEF Once
<1>1. RoadInv /\ TypeInv /\ TypeOK /\ OnceFor(c, n) /\ Parts(c, n) /\ Parts(c, n)'
  BY InstancesAre, InstancesWillBe DEF Once, GateInv, RoadInv, TypeInv
<1>2. /\ UNCHANGED <<sent, reader, events, todo, received, writer>>
      /\ outbound # << >> /\ outbound' = Tail(outbound)
      /\ outbound \in Seq(Outgoing \cup Control) /\ queue[c] \in Seq(Outgoing)
  BY <1>1 DEF RouteOpened, RouteClosed, RouteEnvelope, NextOutbound, readerVars,
              processorVars, TypeOK
<1>3. /\ AtEvents(c, n)' = AtEvents(c, n) /\ AtReceived(c, n)' = AtReceived(c, n)
      /\ Door(c, n)' = Door(c, n) /\ AtTodo(c, n)' = AtTodo(c, n)
  BY <1>2 DEF AtEvents, AtReceived, Door, AtTodo
<1>4. PICK h : h = Head(outbound)
  OBVIOUS
<1>5. /\ AtOutbound(c, n) = AtOutbound(c, n)' + One(h, Ans(c, n))
      /\ One(h, Ans(c, n)) \in {0, 1}
  <2>1. Count(outbound, Ans(c, n)) = Count(Tail(outbound), Ans(c, n)) + One(h, Ans(c, n))
    BY <1>2, <1>4, CountTail
  <2> QED
    BY <1>2, <1>4, <2>1 DEF AtOutbound, One
<1>6. /\ queue'[c] = queue[c] => AtQueue(c, n)' = AtQueue(c, n)
      /\ queue'[c] = Append(queue[c], h) =>
           AtQueue(c, n)' = AtQueue(c, n) + One(h, Ans(c, n))
  <2>1. Count(Append(queue[c], h), Ans(c, n)) = Count(queue[c], Ans(c, n)) + One(h, Ans(c, n))
    BY <1>2, CountAppend
  <2> QED
    BY <2>1 DEF AtQueue
<1>7. queue'[c] = queue[c] \/ (h.conn = c /\ queue'[c] = Append(queue[c], h))
  <2>1. queue' = queue \/ queue' = [queue EXCEPT ![h.conn] = Append(queue[h.conn], h)]
    BY <1>4 DEF RouteOpened, RouteClosed, RouteEnvelope
  <2>2. queue \in [Conn -> Seq(Outgoing)]
    BY <1>1 DEF TypeOK
  <2>3. ASSUME queue' = [queue EXCEPT ![h.conn] = Append(queue[h.conn], h)]
        PROVE  queue'[c] = queue[c] \/ (h.conn = c /\ queue'[c] = Append(queue[c], h))
    <3>1. PICK d, q : d = h.conn /\ q = Append(queue[h.conn], h)
      OBVIOUS
    <3>2. queue' = [queue EXCEPT ![d] = q]
      BY <2>3, <3>1
    <3>3. queue'[c] = IF d = c THEN q ELSE queue[c]
      BY <2>2, <3>2
    <3> QED
      BY <3>1, <3>3
  <2> QED
    BY <2>1, <2>3
<1>8. CASE One(h, Ans(c, n)) = 0
  <2>1. Instances(c, n)' = Instances(c, n)
    BY <1>1, <1>3, <1>5, <1>6, <1>7, <1>8 DEF Parts
  <2> QED
    BY <1>1, <1>2, <2>1, OnceSame
<1>9. CASE One(h, Ans(c, n)) = 1
  <2>1. h.conn = c /\ h.kind \in AnswerKind
    BY <1>9 DEF One, Ans
  <2>2. RouteEnvelope /\ h.kind \in {"ok", "refused"}
    BY <1>4, <2>1 DEF RouteOpened, RouteClosed, RouteEnvelope, NextOutbound, AnswerKind
  <2>3. writer[c] = "running" => queue'[c] = Append(queue[c], h)
    <3> SUFFICES ASSUME writer[c] = "running" PROVE queue'[c] = Append(queue[c], h)
      OBVIOUS
    <3>1. c \in routes
      BY <1>1, <1>4, <2>1, <2>2, NothingDropped
    <3>2. queue' = [queue EXCEPT ![c] = Append(queue[c], h)]
      BY <1>4, <2>1, <2>2, <3>1 DEF RouteEnvelope, WriterGone
    <3> QED
      BY <1>1, <3>2 DEF TypeOK
  <2>4. CASE queue'[c] = Append(queue[c], h)
    <3>1. /\ AtOutbound(c, n)' = AtOutbound(c, n) - 1
          /\ AtQueue(c, n)' = AtQueue(c, n) + 1
      BY <1>1, <1>5, <1>6, <1>9, <2>4 DEF Parts
    <3>2. Instances(c, n)' = Instances(c, n)
      BY <1>1, <1>3, <3>1 DEF Parts
    <3> QED
      BY <1>1, <1>2, <3>2, OnceSame
  <2>5. CASE queue'[c] = queue[c] /\ writer[c] # "running"
    <3>1. /\ AtOutbound(c, n)' = AtOutbound(c, n) - 1
          /\ AtQueue(c, n)' = AtQueue(c, n)
      BY <1>1, <1>5, <1>6, <1>9, <2>5 DEF Parts
    <3>2. Instances(c, n)' <= Instances(c, n)
      BY <1>1, <1>3, <3>1 DEF Parts
    <3> QED
      BY <1>1, <1>2, <2>5, <3>2, OnceKept
  <2> QED
    BY <1>7, <2>3, <2>4, <2>5
<1> QED
  BY <1>5, <1>8, <1>9

LEMMA WriteOnce ==
  ASSUME TypeOK, TypeOK', Once, NEW e \in Conn, Write(e)
  PROVE  Once'
<1> SUFFICES ASSUME NEW c \in Conn, NEW n \in Nat \ {0} PROVE OnceFor(c, n)'
  BY DEF Once
<1>1. OnceFor(c, n) /\ Parts(c, n) /\ Parts(c, n)'
  BY InstancesAre, InstancesWillBe DEF Once
<1>2. /\ UNCHANGED <<sent, reader, events, todo, outbound, writer>>
      /\ queue[e] # << >>
      /\ queue'[c] = IF c = e THEN Tail(queue[c]) ELSE queue[c]
      /\ received'[c] = IF c = e THEN Append(received[c], Head(queue[c])) ELSE received[c]
      /\ queue[c] \in Seq(Outgoing) /\ received[c] \in Seq(Outgoing)
  BY DEF Write, readerVars, processorVars, TypeOK
<1>3. /\ AtEvents(c, n)' = AtEvents(c, n) /\ AtOutbound(c, n)' = AtOutbound(c, n)
      /\ Door(c, n)' = Door(c, n) /\ AtTodo(c, n)' = AtTodo(c, n)
  BY <1>2 DEF AtEvents, AtOutbound, Door, AtTodo
<1>4. CASE c # e
  <2>1. AtQueue(c, n)' = AtQueue(c, n) /\ AtReceived(c, n)' = AtReceived(c, n)
    BY <1>2, <1>4 DEF AtQueue, AtReceived
  <2>2. Instances(c, n)' = Instances(c, n)
    BY <1>1, <1>3, <2>1 DEF Parts
  <2> QED
    BY <1>1, <1>2, <2>2, OnceSame
<1>5. CASE c = e
  <2>1. PICK m : m = Head(queue[c])
    OBVIOUS
  <2>2. /\ Count(queue[c], Ans(c, n)) = Count(Tail(queue[c]), Ans(c, n)) + One(m, Ans(c, n))
        /\ Count(Append(received[c], m), Ans(c, n))
             = Count(received[c], Ans(c, n)) + One(m, Ans(c, n))
    BY <1>2, <1>5, <2>1, CountTail, CountAppend
  <2>3. /\ AtQueue(c, n) = AtQueue(c, n)' + One(m, Ans(c, n))
        /\ AtReceived(c, n)' = AtReceived(c, n) + One(m, Ans(c, n))
        /\ One(m, Ans(c, n)) \in {0, 1}
    BY <1>2, <1>5, <2>1, <2>2 DEF AtQueue, AtReceived, One
  <2>4. Instances(c, n)' = Instances(c, n)
    BY <1>1, <1>3, <2>3 DEF Parts
  <2> QED
    BY <1>1, <1>2, <2>4, OnceSame
<1> QED
  BY <1>4, <1>5

LEMMA InitOnce == Init => Once
<1> SUFFICES ASSUME Init, NEW c \in Conn, NEW n \in Nat \ {0} PROVE OnceFor(c, n)
  BY DEF Once
<1>1. Parts(c, n)
  BY InitType, InstancesAre DEF TypeInv
<1>2. /\ received[c] = << >> /\ queue[c] = << >> /\ outbound = << >> /\ todo = << >>
      /\ events = << >> /\ reader[c] = "none" /\ sent[c] = << >>
  BY DEF Init
<1>3. /\ AtEvents(c, n) = 0 /\ AtTodo(c, n) = 0 /\ AtOutbound(c, n) = 0
      /\ AtQueue(c, n) = 0 /\ AtReceived(c, n) = 0 /\ Door(c, n) = 0
  BY <1>2, CountFew DEF AtEvents, AtTodo, AtOutbound, AtQueue, AtReceived, Door
<1>4. Instances(c, n) = 0
  BY <1>1, <1>3 DEF Parts
<1> QED
  BY <1>2, <1>4 DEF OnceFor

LEMMA StepOnce ==
  ASSUME GateInv, GateInv', Once, [Next]_vars
  PROVE  Once'
<1>1. TypeInv /\ TypeOK /\ TypeInv' /\ TypeOK' /\ Roads
  BY DEF GateInv, RoadInv, TypeInv
<1>2. ASSUME NEW c \in Conn, Reader(c) \/ Client(c)
      PROVE  Once'
  <2>1. CASE \E method \in Uses[c] : Forward(c, method)
    <3>1. Uses[c] \subseteq Method
      BY SizeAssumption
    <3> QED
      BY <1>1, <2>1, <3>1, ForwardOnce
  <2>2. CASE WriteFails(c)
    BY <1>1, <2>2, ReaderOnce DEF WriteFails
  <2> QED
    BY <1>1, <1>2, <2>1, <2>2, ReaderOnce DEF Reader, Client
<1>3. ASSUME NEW c \in Conn, Writer(c)
      PROVE  Once'
  <2>1. CASE WriterEnds(c)
    BY <1>1, <2>1, ReaderOnce DEF WriterEnds
  <2> QED
    BY <1>1, <1>3, <2>1, WriteOnce DEF Writer
<1>4. CASE Processor \/ Router \/ \E c \in Conn : Runners(c)
  BY <1>1, <1>4, ProcessorOnce, RouterOnce DEF Processor, Router, Runners
<1>5. CASE Shutdown \/ Down \/ UNCHANGED vars
  <2>1. UNCHANGED <<readerVars, events, todo, outbound, writerVars>>
    BY <1>5 DEF Shutdown, Down, vars, processorVars
  <2> QED
    BY <1>1, <2>1, ReaderOnce DEF Once
<1> QED
  BY <1>2, <1>3, <1>4, <1>5 DEF Next

\* A request is answered at most once, by the processor or by the overloaded
\* reader; and while the connection's writer runs, it is never lost.
THEOREM RequestsExistOnce == Spec => []EveryRequestOnce
<1>1. Init => GateInv /\ Once
  BY InitType, InitRoads, InitGates, InitOnce DEF GateInv, RoadInv
<1>2. GateInv /\ GateInv' /\ Once /\ [Next]_vars => Once'
  BY StepOnce
<1>3. GateInv /\ Once => EveryRequestOnce
  <2> SUFFICES ASSUME GateInv, Once, NEW c \in Conn, NEW n \in DOMAIN sent[c],
                      sent[c][n] # "notice"
               PROVE  /\ Instances(c, n) <= 1
                      /\ writer[c] = "running" => Instances(c, n) = 1
    BY DEF EveryRequestOnce
  <2>1. n \in Nat \ {0} /\ n <= Len(sent[c])
    BY ChannelUpdates DEF GateInv, RoadInv, TypeInv, TypeOK
  <2> QED
    BY <2>1 DEF Once, OnceFor
<1> QED
  BY <1>1, <1>2, <1>3, GateInvariant, PTL DEF Spec


=============================================================================

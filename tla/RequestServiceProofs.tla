------------------------ MODULE RequestServiceProofs ------------------------
(***************************************************************************)
(* Connections implements RequestService, for any connections, transports, *)
(* capacities and bounds: the client of a connection cannot tell the tasks *)
(* and channels from one server that answers in order.                     *)
(***************************************************************************)
EXTENDS ConnectionsProofs

-----------------------------------------------------------------------------
(* Books.  Some messages of a connection raise a balance, others lower it, *)
(* and the client may see no balance out of range: an "initialized" and    *)
(* then the answer it announces, a turn's start and then its events.       *)

Balance(channel, book) ==
  book.worth * Count(channel, book.plus) - Count(channel, book.minus)
Value(m, book) == book.worth * One(m, book.plus) - One(m, book.minus)

\* The balance stays in range all along the channel.
Steady(channel, base, book) ==
  \A k \in 0..Len(channel) : base + Balance(SubSeq(channel, 1, k), book) \in book.range

LEMMA BalanceType ==
  ASSUME NEW T, NEW channel \in Seq(T), NEW book, book.worth \in Nat
  PROVE  Balance(channel, book) \in Int
<1>1. Count(channel, book.plus) \in Nat /\ Count(channel, book.minus) \in Nat
  BY WhereFinite
<1> QED
  BY <1>1 DEF Balance

LEMMA ValueType ==
  ASSUME NEW book, book.worth \in Nat
  PROVE  \A m : Value(m, book) \in Int
BY DEF Value, One

LEMMA BalanceAppend ==
  ASSUME NEW T, NEW channel \in Seq(T), NEW book, book.worth \in Nat, NEW m
  PROVE  Balance(Append(channel, m), book) = Balance(channel, book) + Value(m, book)
<1>1. /\ Count(Append(channel, m), book.plus) = Count(channel, book.plus) + One(m, book.plus)
      /\ Count(Append(channel, m), book.minus)
           = Count(channel, book.minus) + One(m, book.minus)
  BY CountAppend
<1>2. PICK p, q, w \in Nat : /\ p = Count(channel, book.plus)
                             /\ q = Count(channel, book.minus) /\ w = book.worth
  BY WhereFinite
<1>3. PICK a, b \in 0..1 : a = One(m, book.plus) /\ b = One(m, book.minus)
  BY DEF One
<1>4. w * (p + a) - (q + b) = (w * p - q) + (w * a - b)
  OBVIOUS
<1> QED
  BY <1>1, <1>2, <1>3, <1>4 DEF Balance, Value

LEMMA BalanceTail ==
  ASSUME NEW T, NEW channel \in Seq(T), channel # << >>, NEW book, book.worth \in Nat
  PROVE  Balance(channel, book) = Value(Head(channel), book) + Balance(Tail(channel), book)
<1>1. PICK m : m = Head(channel)
  OBVIOUS
<1>2. /\ Count(channel, book.plus) = Count(Tail(channel), book.plus) + One(m, book.plus)
      /\ Count(channel, book.minus) = Count(Tail(channel), book.minus) + One(m, book.minus)
  BY <1>1, CountTail
<1>3. PICK p, q, w \in Nat : /\ p = Count(Tail(channel), book.plus)
                             /\ q = Count(Tail(channel), book.minus) /\ w = book.worth
  <2>1. Tail(channel) \in Seq(T)
    OBVIOUS
  <2> QED
    BY <2>1, WhereFinite
<1>4. PICK a, b \in 0..1 : a = One(m, book.plus) /\ b = One(m, book.minus)
  BY DEF One
<1>5. w * (p + a) - (q + b) = (w * a - b) + (w * p - q)
  OBVIOUS
<1> QED
  BY <1>1, <1>2, <1>3, <1>4, <1>5 DEF Balance, Value

LEMMA BalanceFew ==
  ASSUME NEW book, book.worth \in Nat
  PROVE  /\ Balance(<< >>, book) = 0
         /\ \A m : Balance(<<m>>, book) = Value(m, book)
         /\ \A m, n : Balance(<<m, n>>, book) = Value(m, book) + Value(n, book)
<1>1. Balance(<< >>, book) = 0
  BY CountFew DEF Balance
<1>2. ASSUME NEW m
      PROVE  Balance(<<m>>, book) = Value(m, book)
  BY CountFew DEF Balance, Value
<1>3. ASSUME NEW m, NEW n
      PROVE  Balance(<<m, n>>, book) = Value(m, book) + Value(n, book)
  <2>1. <<m>> \in Seq({m}) /\ <<m, n>> = Append(<<m>>, n)
    OBVIOUS
  <2>2. Balance(Append(<<m>>, n), book) = Balance(<<m>>, book) + Value(n, book)
    BY <2>1, BalanceAppend
  <2> QED
    BY <1>2, <2>1, <2>2
<1> QED
  BY <1>1, <1>2, <1>3

LEMMA SteadyEmpty ==
  ASSUME NEW book, book.worth \in Nat, NEW base \in Int
  PROVE  Steady(<< >>, base, book) <=> base \in book.range
<1>1. 0..Len(<< >>) = {0} /\ SubSeq(<< >>, 1, 0) = << >>
  OBVIOUS
<1>2. base + Balance(<< >>, book) = base
  BY BalanceFew
<1>3. base + Balance(SubSeq(<< >>, 1, 0), book) = base
  BY <1>1, <1>2
<1> QED
  BY <1>1, <1>3 DEF Steady

\* Where it starts and where it ends are in range as well.
LEMMA SteadyEnds ==
  ASSUME NEW T, NEW channel \in Seq(T), NEW book, book.worth \in Nat,
         NEW base \in Int, Steady(channel, base, book)
  PROVE  base \in book.range /\ base + Balance(channel, book) \in book.range
<1>1. /\ Len(channel) \in Nat /\ 0 \in 0..Len(channel) /\ Len(channel) \in 0..Len(channel)
      /\ SubSeq(channel, 1, 0) = << >> /\ SubSeq(channel, 1, Len(channel)) = channel
  OBVIOUS
<1>2. base + Balance(<< >>, book) = base
  BY BalanceFew
<1>3. /\ base + Balance(SubSeq(channel, 1, 0), book) \in book.range
      /\ base + Balance(SubSeq(channel, 1, Len(channel)), book) \in book.range
  BY <1>1 DEF Steady
<1> QED
  BY <1>1, <1>2, <1>3

LEMMA SteadyAppend ==
  ASSUME NEW T, NEW channel \in Seq(T), NEW book, book.worth \in Nat, NEW m,
         NEW base \in Int, Steady(channel, base, book),
         base + Balance(channel, book) + Value(m, book) \in book.range
  PROVE  Steady(Append(channel, m), base, book)
<1>1. PICK new : new = Append(channel, m)
  OBVIOUS
<1>2. /\ Len(channel) \in Nat /\ Len(new) = Len(channel) + 1
      /\ \A k \in 0..Len(channel) : SubSeq(new, 1, k) = SubSeq(channel, 1, k)
      /\ SubSeq(new, 1, Len(channel) + 1) = new
  BY <1>1
<1>3. Balance(new, book) = Balance(channel, book) + Value(m, book)
  BY <1>1, BalanceAppend
<1>4. base + Balance(new, book) \in book.range
  BY <1>3, BalanceType, ValueType
<1>5. \A k \in 0..Len(new) : k \in 0..Len(channel) \/ k = Len(channel) + 1
  BY <1>2
<1> QED
  BY <1>1, <1>2, <1>4, <1>5 DEF Steady

LEMMA SteadyTail ==
  ASSUME NEW T, NEW channel \in Seq(T), channel # << >>, NEW book, book.worth \in Nat,
         NEW base \in Int, Steady(channel, base, book)
  PROVE  /\ Steady(Tail(channel), base + Value(Head(channel), book), book)
         /\ base + Value(Head(channel), book) \in book.range
<1>1. PICK v \in Int : v = Value(Head(channel), book)
  BY ValueType
<1>2. /\ Len(channel) \in Nat \ {0} /\ Len(Tail(channel)) = Len(channel) - 1
      /\ Tail(channel) \in Seq(T)
  OBVIOUS
<1>3. ASSUME NEW k \in 0..Len(Tail(channel))
      PROVE  (base + v) + Balance(SubSeq(Tail(channel), 1, k), book) \in book.range
  <2>1. PICK s : s = SubSeq(channel, 1, k + 1)
    OBVIOUS
  <2>2. /\ s \in Seq(T) /\ s # << >> /\ Head(s) = Head(channel)
        /\ Tail(s) = SubSeq(Tail(channel), 1, k)
    BY <1>2, <2>1
  <2>3. Balance(s, book) = v + Balance(Tail(s), book) /\ Balance(Tail(s), book) \in Int
    <3>1. Tail(s) \in Seq(T)
      BY <2>2
    <3> QED
      BY <1>1, <2>2, <3>1, BalanceTail, BalanceType
  <2>4. base + Balance(s, book) \in book.range
    BY <1>2, <2>1 DEF Steady
  <2>5. base + Balance(s, book) = (base + v) + Balance(Tail(s), book)
    BY <2>3
  <2> QED
    BY <2>2, <2>4, <2>5
<1>4. Steady(Tail(channel), base + v, book)
  BY <1>3 DEF Steady
<1>5. base + v \in book.range
  <2>1. PICK b \in Int : b = base + v
    OBVIOUS
  <2> QED
    BY <1>2, <1>4, <2>1, SteadyEnds
<1> QED
  BY <1>1, <1>4, <1>5

\* What the client was told and what is on the way to it, up to what is due.
Balanced(rec, que, out, due, book) ==
  /\ Steady(que, Balance(rec, book), book)
  /\ Steady(out, Balance(rec, book) + Balance(que, book), book)
  /\ Balance(rec, book) + Balance(que, book) + Balance(out, book) = due

LEMMA BalancedWrite ==
  ASSUME NEW T, NEW rec \in Seq(T), NEW que \in Seq(T), NEW out, NEW due \in Int,
         NEW book, book.worth \in Nat, que # << >>, Balanced(rec, que, out, due, book)
  PROVE  Balanced(Append(rec, Head(que)), Tail(que), out, due, book)
<1>1. PICK r, v, q \in Int : /\ r = Balance(rec, book) /\ v = Value(Head(que), book)
                             /\ q = Balance(Tail(que), book)
  <2>1. Tail(que) \in Seq(T)
    OBVIOUS
  <2> QED
    BY <2>1, BalanceType, ValueType
<1>2. /\ Balance(Append(rec, Head(que)), book) = r + v
      /\ Balance(que, book) = v + q
  BY <1>1, BalanceAppend, BalanceTail
<1>3. Steady(Tail(que), r + v, book)
  BY <1>1, SteadyTail DEF Balanced
<1>4. r + (v + q) = (r + v) + q
  OBVIOUS
<1> QED
  BY <1>1, <1>2, <1>3, <1>4 DEF Balanced

LEMMA BalancedRoute ==
  ASSUME NEW T, NEW rec \in Seq(T), NEW que \in Seq(T), NEW out \in Seq(T),
         NEW due \in Int, NEW book, book.worth \in Nat, out # << >>,
         Balanced(rec, que, out, due, book)
  PROVE  Balanced(rec, Append(que, Head(out)), Tail(out), due, book)
<1>1. PICK r, q, v, o \in Int :
        /\ r = Balance(rec, book) /\ q = Balance(que, book)
        /\ v = Value(Head(out), book) /\ o = Balance(Tail(out), book)
  <2>1. Tail(out) \in Seq(T)
    OBVIOUS
  <2> QED
    BY <2>1, BalanceType, ValueType
<1>2. PICK b \in Int : b = r + q
  OBVIOUS
<1>3. /\ Balance(Append(que, Head(out)), book) = q + v
      /\ Balance(out, book) = v + o
  BY <1>1, BalanceAppend, BalanceTail
<1>4. /\ Steady(Tail(out), b + v, book) /\ b + v \in book.range
  BY <1>1, <1>2, SteadyTail DEF Balanced
<1>5. Steady(Append(que, Head(out)), r, book)
  BY <1>1, <1>2, <1>4, SteadyAppend DEF Balanced
<1>6. b + v = r + (q + v) /\ b + (v + o) = r + (q + v) + o
  BY <1>2
<1> QED
  BY <1>1, <1>2, <1>3, <1>4, <1>5, <1>6 DEF Balanced

LEMMA BalancedDrop ==
  ASSUME NEW T, NEW rec \in Seq(T), NEW que \in Seq(T), NEW out \in Seq(T),
         NEW due \in Int, NEW book, book.worth \in Nat, out # << >>,
         Balanced(rec, que, out, due, book), Value(Head(out), book) = 0
  PROVE  Balanced(rec, que, Tail(out), due, book)
<1>1. PICK r, q, o \in Int :
        r = Balance(rec, book) /\ q = Balance(que, book) /\ o = Balance(Tail(out), book)
  <2>1. Tail(out) \in Seq(T)
    OBVIOUS
  <2> QED
    BY <2>1, BalanceType
<1>2. PICK b \in Int : b = r + q
  OBVIOUS
<1>3. Balance(out, book) = 0 + o
  BY <1>1, BalanceTail
<1>4. Steady(Tail(out), b + 0, book)
  BY <1>1, <1>2, SteadyTail DEF Balanced
<1> QED
  BY <1>1, <1>2, <1>3, <1>4 DEF Balanced

LEMMA BalancedSend ==
  ASSUME NEW T, NEW rec \in Seq(T), NEW que \in Seq(T), NEW out \in Seq(T),
         NEW due \in Int, NEW book, book.worth \in Nat, NEW m,
         Balanced(rec, que, out, due, book), due + Value(m, book) \in book.range
  PROVE  Balanced(rec, que, Append(out, m), due + Value(m, book), book)
<1>1. PICK r, q, o, v \in Int :
        /\ r = Balance(rec, book) /\ q = Balance(que, book)
        /\ o = Balance(out, book) /\ v = Value(m, book)
  BY BalanceType, ValueType
<1>2. PICK b \in Int : b = r + q
  OBVIOUS
<1>3. due = b + o
  BY <1>1, <1>2 DEF Balanced
<1>4. Balance(Append(out, m), book) = o + v
  BY <1>1, BalanceAppend
<1>5. Steady(Append(out, m), b, book)
  BY <1>1, <1>2, <1>3, SteadyAppend DEF Balanced
<1>6. b + (o + v) = due + v
  BY <1>3
<1> QED
  BY <1>1, <1>2, <1>4, <1>5, <1>6 DEF Balanced

LEMMA BalancedRefuse ==
  ASSUME NEW T, NEW rec \in Seq(T), NEW que \in Seq(T), NEW out, NEW due,
         NEW book, book.worth \in Nat, NEW m, Value(m, book) = 0,
         Balanced(rec, que, out, due, book)
  PROVE  Balanced(rec, Append(que, m), out, due, book)
<1>1. PICK r, q \in Int : r = Balance(rec, book) /\ q = Balance(que, book)
  BY BalanceType
<1>2. Balance(Append(que, m), book) = q
  BY <1>1, BalanceAppend
<1>3. r + q + 0 \in book.range
  BY <1>1, SteadyEnds DEF Balanced
<1>4. Steady(Append(que, m), r, book)
  BY <1>1, <1>3, SteadyAppend DEF Balanced
<1> QED
  BY <1>1, <1>2, <1>4 DEF Balanced

-----------------------------------------------------------------------------
(* Answers are about what was asked.                                       *)

Truth ==
  {m \in Message : m.kind \in AnswerKind =>
     /\ m.id \in DOMAIN sent[m.conn]
     /\ sent[m.conn][m.id] # "notice"
     /\ m.kind = "refused" => sent[m.conn][m.id] # "initialize"}

\* No notification is answered, and no initialize is refused.
Truthful ==
  /\ todo \in Seq(Truth) /\ outbound \in Seq(Truth)
  /\ \A c \in Conn : queue[c] \in Seq(Truth) /\ received[c] \in Seq(Truth)
  /\ \A c \in Conn : reader[c] = "refusing" => sent[c][Len(sent[c])] # "notice"

LEMMA ForwardSends ==
  ASSUME TypeOK, NEW c \in Conn, NEW method \in Method, Forward(c, method), NEW d \in Conn
  PROVE  /\ sent[d] \in Seq(Method) /\ Len(sent[d]) \in Nat
         /\ sent'[d] = IF d = c THEN Append(sent[d], method) ELSE sent[d]
         /\ \A n \in DOMAIN sent[d] : n \in DOMAIN sent'[d] /\ sent'[d][n] = sent[d][n]
<1>1. sent[d] \in Seq(Method) /\ Len(sent[d]) \in Nat
  BY ChannelUpdates DEF TypeOK
<1>2. sent'[d] = IF d = c THEN Append(sent[d], method) ELSE sent[d]
  BY DEF Forward, TypeOK
<1> QED
  BY <1>1, <1>2

\* Only reading a message changes what was asked.
LEMMA OnlyForwardSends ==
  ASSUME [Next]_vars
  PROVE  sent' = sent \/ \E c \in Conn : \E method \in Method : Up /\ Forward(c, method)
BY SizeAssumption
   DEF Next, Processor, Router, Reader, Runners, Writer, Client, Accept, Open, Refuse, Close,
       HangUp, WriteFails, WriterEnds, StopWriting, Shutdown, Down, vars, SendOutbound,
       OpenConnection, CloseConnection, ProcessMessage, NextEvent, RunnerNotify,
       RouteOpened, RouteClosed, RouteEnvelope, NextOutbound, Write, readerVars

LEMMA TruthGrows ==
  ASSUME TypeOK, [Next]_vars
  PROVE  Truth \subseteq Truth'
<1>1. CASE sent' = sent
  BY <1>1 DEF Truth
<1>2. ASSUME NEW c \in Conn, NEW method \in Method, Forward(c, method)
      PROVE  Truth \subseteq Truth'
  <2>1. \A d \in Conn : \A n \in DOMAIN sent[d] :
          n \in DOMAIN sent'[d] /\ sent'[d][n] = sent[d][n]
    BY <1>2, ForwardSends
  <2>2. \A m \in Message : m.conn \in Conn
    BY MessageFields
  <2> QED
    BY <2>1, <2>2 DEF Truth
<1> QED
  BY <1>1, <1>2, OnlyForwardSends

LEMMA SignalTrue ==
  ASSUME NEW c \in Conn,
         NEW kind \in {"opened", "closed", "initialized", "started", "event"}
  PROVE  Signal(kind, c) \in Truth
BY SignalType DEF Truth, Message, AnswerKind

\* What the processor makes of an event.
LEMMA TodoIs ==
  ASSUME TypeOK, events \in Seq(Asked), NEW h, h = Head(events),
         OpenConnection \/ CloseConnection \/ ProcessMessage
  PROVE  /\ h \in Asked /\ h \in Request \cup Control /\ h.conn \in Conn
         /\ h.kind \in Method => h \in Request /\ sent[h.conn][h.id] = h.kind
                                 /\ h.id \in DOMAIN sent[h.conn]
         /\ \/ h \in Control /\ todo' = <<h>>
            \/ h.kind = "notice" /\ todo' = << >>
            \/ /\ h.kind = "initialize"
               /\ todo' = <<Signal("initialized", h.conn), Answer("ok")>>
            \/ h.kind = "turn" /\ todo' = <<Signal("started", h.conn), Answer("ok")>>
            \/ h.kind = "call" /\ todo' = <<Answer("ok")>>
            \/ h.kind \in {"call", "turn"} /\ todo' = <<Answer("refused")>>
<1>1. events # << >>
  BY DEF OpenConnection, CloseConnection, ProcessMessage, NextEvent
<1>2. h \in Asked /\ h \in Request \cup Control /\ h.conn \in Conn
  <2>1. h \in Asked
    BY <1>1, ChannelUpdates
  <2> QED
    BY <2>1 DEF Asked, Request, Control
<1>3. h.kind \in Method => h \in Request /\ sent[h.conn][h.id] = h.kind
                            /\ h.id \in DOMAIN sent[h.conn]
  <2> SUFFICES ASSUME h.kind \in Method
               PROVE  h \in Request /\ sent[h.conn][h.id] = h.kind
                        /\ h.id \in DOMAIN sent[h.conn]
    OBVIOUS
  <2>1. h \notin Control
    BY MethodAssumption DEF Control
  <2> QED
    BY <1>2, <2>1 DEF Asked
<1>4. CASE OpenConnection \/ CloseConnection
  <2>1. todo' = <<h>> /\ h.kind \in {"opened", "closed"}
    BY <1>4 DEF OpenConnection, CloseConnection, NextEvent
  <2>2. h \in Control
    BY <1>2, <2>1, MethodAssumption DEF Request
  <2> QED
    BY <1>2, <1>3, <2>1, <2>2
<1>5. CASE ProcessMessage
  <2>1. h.kind \in {"initialize", "call", "turn", "notice"}
    BY <1>5, MethodAssumption DEF ProcessMessage, NextEvent
  <2>2. CASE h.kind = "notice"
    <3>1. todo' = << >>
      BY <1>5, <2>2 DEF ProcessMessage
    <3> QED
      BY <1>2, <1>3, <2>2, <3>1
  <2>3. CASE h.kind = "initialize"
    <3>1. todo' = <<Signal("initialized", h.conn), Answer("ok")>>
      BY <1>5, <2>3 DEF ProcessMessage
    <3> QED
      BY <1>2, <1>3, <2>3, <3>1
  <2>4. CASE h.kind = "call"
    <3>1. todo' = <<Answer("ok")>> \/ todo' = <<Answer("refused")>>
      BY <1>5, <2>4 DEF ProcessMessage
    <3> QED
      BY <1>2, <1>3, <2>4, <3>1
  <2>5. CASE h.kind = "turn"
    <3>1. \/ todo' = <<Signal("started", h.conn), Answer("ok")>>
          \/ todo' = <<Answer("refused")>>
      BY <1>5, <2>5 DEF ProcessMessage, StartedFirst
    <3> QED
      BY <1>2, <1>3, <2>5, <3>1
  <2> QED
    BY <2>1, <2>2, <2>3, <2>4, <2>5
<1> QED
  BY <1>4, <1>5

LEMMA TakeTrue ==
  ASSUME TypeInv, events \in Seq(Asked), OpenConnection \/ CloseConnection \/ ProcessMessage
  PROVE  todo' \in Seq(Truth)
<1>1. TypeOK
  BY DEF TypeInv
<1>2. PICK h : h = Head(events)
  OBVIOUS
<1>3. /\ << >> \in Seq(Truth)
      /\ \A m \in Truth : <<m>> \in Seq(Truth)
      /\ \A m, n \in Truth : <<m, n>> \in Seq(Truth)
  OBVIOUS
<1>4. h \in Control => h \in Truth
  BY DEF Control, Truth, Message, AnswerKind
<1>5. ASSUME h.kind \in {"initialize", "call", "turn"}, h \in Request,
             sent[h.conn][h.id] = h.kind, h.id \in DOMAIN sent[h.conn],
             NEW kind \in {"ok", "refused"}, kind = "refused" => h.kind # "initialize"
      PROVE  Answer(kind) \in Truth
  <2>1. PICK a : a = Answer(kind)
    OBVIOUS
  <2>2. a \in Outgoing /\ a.kind = kind /\ a.conn = h.conn /\ a.id = h.id
    BY <1>2, <1>5, <2>1, AnswerType DEF Answer
  <2> QED
    BY <1>5, <2>1, <2>2 DEF Truth, Message
<1>6. \A kind \in {"initialized", "started"} : h.conn \in Conn => Signal(kind, h.conn) \in Truth
  BY SignalTrue
<1>7. /\ h.conn \in Conn
      /\ h.kind \in Method => h \in Request /\ sent[h.conn][h.id] = h.kind
                                 /\ h.id \in DOMAIN sent[h.conn]
      /\ \/ h \in Control /\ todo' = <<h>>
         \/ h.kind = "notice" /\ todo' = << >>
         \/ /\ h.kind = "initialize"
            /\ todo' = <<Signal("initialized", h.conn), Answer("ok")>>
         \/ h.kind = "turn" /\ todo' = <<Signal("started", h.conn), Answer("ok")>>
         \/ h.kind = "call" /\ todo' = <<Answer("ok")>>
         \/ h.kind \in {"call", "turn"} /\ todo' = <<Answer("refused")>>
  BY <1>1, <1>2, TodoIs
<1>8. CASE ProcessMessage
  <2>1. h.kind \in Method
    BY <1>2, <1>8 DEF ProcessMessage, NextEvent
  <2> QED
    BY <1>3, <1>4, <1>5, <1>6, <1>7, <2>1
<1>9. CASE OpenConnection \/ CloseConnection
  <2>1. todo' = <<h>> /\ h.kind \in {"opened", "closed"}
    BY <1>2, <1>9 DEF OpenConnection, CloseConnection, NextEvent
  <2>2. h.kind \notin Method
    BY <2>1, MethodAssumption
  <2>3. h \in Control
    BY <1>7, <2>1
  <2> QED
    BY <1>3, <1>4, <2>1, <2>3
<1> QED
  BY <1>8, <1>9

LEMMA StepTruthful ==
  ASSUME TypeInv, events \in Seq(Asked), Truthful, [Next]_vars
  PROVE  Truthful'
<1>1. TypeOK
  BY DEF TypeInv
<1>2. PICK S : S = Truth'
  OBVIOUS
<1>3. /\ todo \in Seq(S) /\ outbound \in Seq(S)
      /\ \A c \in Conn : queue[c] \in Seq(S) /\ received[c] \in Seq(S)
      /\ \A m \in Truth : m \in S
  <2>1. Truth \subseteq S
    BY <1>1, <1>2, TruthGrows
  <2>2. \A channel \in Seq(Truth) : channel \in Seq(S)
    BY <2>1
  <2> QED
    BY <2>1, <2>2 DEF Truthful
<1> DEFINE Channels == /\ todo' \in Seq(S) /\ outbound' \in Seq(S)
                       /\ \A c \in Conn : queue'[c] \in Seq(S) /\ received'[c] \in Seq(S)
           Refusable == \A c \in Conn : reader'[c] = "refusing" => sent'[c][Len(sent'[c])] # "notice"
<1> SUFFICES Channels /\ Refusable
  BY <1>2 DEF Truthful
<1>4. UNCHANGED <<todo, outbound, queue, received>> => Channels
  BY <1>3
<1>5. (sent' = sent /\ \A c \in Conn : reader'[c] = "refusing" => reader[c] = "refusing") => Refusable
  BY DEF Truthful
<1> HIDE DEF Channels, Refusable
<1>6. ASSUME NEW c \in Conn, Refuse(c)
      PROVE  Channels /\ Refusable
  <2>1. PICK m : m = [kind |-> "overloaded", conn |-> c, id |-> Len(sent[c])]
    OBVIOUS
  <2>2. m \in S
    <3>1. /\ Len(sent[c]) \in Nat \ {0} /\ Len(sent[c]) \in DOMAIN sent[c]
          /\ sent[c][Len(sent[c])] # "notice"
      BY <1>6, ChannelUpdates DEF TypeInv, TypeOK, Refuse, Truthful
    <3>2. m \in Message /\ m.kind = "overloaded" /\ m.conn = c /\ m.id = Len(sent[c])
      BY <2>1, <3>1 DEF Message, Outgoing
    <3>3. m \in Truth
      BY <3>1, <3>2 DEF Truth
    <3> QED
      BY <1>3, <3>3
  <2>3. \A d \in Conn : queue'[d] = queue[d] \/ queue'[d] = Append(queue[d], m)
    BY <1>1, <1>6, <2>1 DEF Refuse, TypeOK
  <2>4. \A d \in Conn : Append(queue[d], m) \in Seq(S)
    BY <1>3, <2>2, ChannelUpdates
  <2>5. Channels
    BY <1>3, <1>6, <2>3, <2>4 DEF Channels, Refuse, processorVars
  <2>6. sent' = sent /\ \A d \in Conn : reader'[d] = "refusing" => reader[d] = "refusing"
    BY <1>1, <1>6 DEF Refuse, TypeOK
  <2> QED
    BY <1>5, <2>5, <2>6
<1>7. ASSUME NEW c \in Conn, NEW method \in Method, Forward(c, method)
      PROVE  Channels /\ Refusable
  <2>1. Channels
    BY <1>4, <1>7 DEF Forward, processorVars, writerVars
  <2>2. ASSUME NEW d \in Conn, reader'[d] = "refusing"
        PROVE  sent'[d][Len(sent'[d])] # "notice"
    <3>1. /\ sent[d] \in Seq(Method) /\ Len(sent[d]) \in Nat
          /\ sent'[d] = IF d = c THEN Append(sent[d], method) ELSE sent[d]
      BY <1>1, <1>7, ForwardSends
    <3>2. CASE d = c
      <4>1. method # "notice"
        BY <1>1, <1>7, <2>2, <3>2 DEF Forward, TypeOK
      <4> QED
        BY <3>1, <3>2, <4>1
    <3>3. CASE d # c
      <4>1. reader[d] = "refusing"
        BY <1>1, <1>7, <2>2, <3>3 DEF Forward, TypeOK
      <4> QED
        BY <3>1, <3>3, <4>1 DEF Truthful
    <3> QED
      BY <3>2, <3>3
  <2> QED
    BY <2>1, <2>2 DEF Refusable
<1>8. ASSUME NEW c \in Conn, Write(c)
      PROVE  Channels /\ Refusable
  <2>1. PICK m : m = Head(queue[c])
    OBVIOUS
  <2>2. /\ \A d \in Conn : queue'[d] = queue[d] \/ (d = c /\ queue'[d] = Tail(queue[d]))
        /\ \A d \in Conn : received'[d] = received[d]
                             \/ (d = c /\ received'[d] = Append(received[d], m))
        /\ queue[c] # << >>
    BY <1>1, <1>8, <2>1 DEF Write, TypeOK
  <2>3. m \in S /\ Tail(queue[c]) \in Seq(S)
    BY <1>3, <2>1, <2>2, ChannelUpdates
  <2>4. Append(received[c], m) \in Seq(S)
    BY <1>3, <2>3, ChannelUpdates
  <2>5. Channels
    BY <1>3, <1>8, <2>2, <2>3, <2>4 DEF Channels, Write, processorVars
  <2> QED
    BY <1>5, <1>8, <2>5 DEF Write, readerVars
<1>9. ASSUME NEW c \in Conn, HangUp(c) \/ StopWriting(c)
      PROVE  Channels /\ Refusable
  <2>1. \A d \in Conn : queue'[d] = queue[d] \/ queue'[d] = << >>
    BY <1>1, <1>9 DEF HangUp, StopWriting, TypeOK
  <2>2. << >> \in Seq(S)
    OBVIOUS
  <2>3. Channels
    BY <1>3, <1>9, <2>1, <2>2 DEF Channels, HangUp, StopWriting, processorVars
  <2>4. sent' = sent /\ \A d \in Conn : reader'[d] = "refusing" => reader[d] = "refusing"
    BY <1>1, <1>9 DEF HangUp, StopWriting, readerVars, TypeOK
  <2> QED
    BY <1>5, <2>3, <2>4
<1>10. ASSUME NEW c \in Conn, Accept(c) \/ Open(c) \/ Close(c)
       PROVE  Channels /\ Refusable
  <2>1. sent' = sent /\ \A d \in Conn : reader'[d] = "refusing" => reader[d] = "refusing"
    BY <1>1, <1>10 DEF Accept, Open, Close, TypeOK
  <2> QED
    BY <1>4, <1>5, <1>10, <2>1 DEF Accept, Open, Close, processorVars, writerVars
<1>11. CASE OpenConnection \/ CloseConnection \/ ProcessMessage
  <2>1. UNCHANGED <<sent, reader, outbound, queue, received>>
    BY <1>11 DEF OpenConnection, CloseConnection, ProcessMessage, NextEvent, readerVars,
                 writerVars
  <2>2. todo' \in Seq(S)
    <3>1. todo' \in Seq(Truth)
      BY <1>11, TakeTrue
    <3> QED
      BY <1>3, <3>1
  <2> QED
    BY <1>3, <1>5, <2>1, <2>2 DEF Channels
<1>12. CASE SendOutbound
  <2>1. PICK m : m = Head(todo)
    OBVIOUS
  <2>2. m \in S /\ Tail(todo) \in Seq(S)
    BY <1>3, <1>12, <2>1, ChannelUpdates DEF SendOutbound
  <2>3. Append(outbound, m) \in Seq(S)
    BY <1>3, <2>2, ChannelUpdates
  <2>4. Channels
    BY <1>3, <1>12, <2>1, <2>2, <2>3 DEF Channels, SendOutbound, writerVars
  <2> QED
    BY <1>5, <1>12, <2>4 DEF SendOutbound, readerVars
<1>13. ASSUME NEW c \in Conn, RunnerNotify(c)
       PROVE  Channels /\ Refusable
  <2>1. Signal("event", c) \in S
    BY <1>3, SignalTrue
  <2>2. Append(outbound, Signal("event", c)) \in Seq(S)
    BY <1>3, <2>1, ChannelUpdates
  <2>3. Channels
    BY <1>3, <1>13, <2>2 DEF Channels, RunnerNotify, writerVars
  <2> QED
    BY <1>5, <1>13, <2>3 DEF RunnerNotify, readerVars
<1>14. CASE RouteOpened \/ RouteClosed \/ RouteEnvelope
  <2>1. PICK m : m = Head(outbound)
    OBVIOUS
  <2>2. /\ outbound # << >> /\ outbound' = Tail(outbound)
        /\ UNCHANGED <<sent, reader, todo, received>>
    BY <1>14 DEF RouteOpened, RouteClosed, RouteEnvelope, NextOutbound, readerVars,
                 processorVars
  <2>3. m \in S /\ Tail(outbound) \in Seq(S)
    BY <1>3, <2>1, <2>2, ChannelUpdates
  <2>4. \A d \in Conn : queue'[d] = queue[d] \/ queue'[d] = Append(queue[d], m)
    <3>1. CASE RouteOpened \/ RouteClosed
      BY <3>1 DEF RouteOpened, RouteClosed
    <3>2. CASE RouteEnvelope
      BY <1>1, <2>1, <3>2 DEF RouteEnvelope, TypeOK
    <3> QED
      BY <1>14, <3>1, <3>2
  <2>5. \A d \in Conn : Append(queue[d], m) \in Seq(S)
    BY <1>3, <2>3, ChannelUpdates
  <2>6. Channels
    BY <1>3, <2>2, <2>3, <2>4, <2>5 DEF Channels
  <2> QED
    BY <1>5, <2>2, <2>6
<1>15. CASE Shutdown \/ Down \/ UNCHANGED vars
  BY <1>4, <1>5, <1>15 DEF Shutdown, Down, vars, readerVars, processorVars, writerVars
<1> QED
  BY <1>6, <1>7, <1>8, <1>9, <1>10, <1>11, <1>12, <1>13, <1>14, <1>15, SizeAssumption
     DEF Next, Processor, Router, Reader, Runners, Writer, Client, WriteFails, WriterEnds

-----------------------------------------------------------------------------
(* Nothing is told to a connection before it was opened.                   *)

Foreign(channel, c) == \A i \in DOMAIN channel : channel[i].conn # c

\* What c is told comes after its "opened".
Led(channel, c) ==
  \A i \in DOMAIN channel : channel[i].conn = c =>
    \E j \in 1..i : channel[j] = Signal("opened", c)

Unheard(c) == writer[c] = "none" \/ 0 \in R(events, c)

\* A connection whose "opened" has not reached the processor is told nothing; while
\* it is on its way to the outbound task, nothing overtakes it.
OpenedOf(c) ==
  /\ writer[c] = "none" =>
       reader[c] \in {"none", "opening"} /\ queue[c] = << >> /\ received[c] = << >>
  /\ Unheard(c) => Foreign(todo, c)
  /\ 0 \in R(todo, c) => todo = <<Signal("opened", c)>>
  /\ Unheard(c) \/ 0 \in R(todo, c) => Foreign(outbound, c) /\ chatter[c] = 0
  /\ 0 \in R(outbound, c) => Led(outbound, c)

AllOpened == \A c \in Conn : OpenedOf(c)

LEMMA RankOfOpened ==
  ASSUME NEW m \in Bounded, NEW c \in Conn
  PROVE  0 \in Own(m, c, Tracked) <=> m = Signal("opened", c)
<1>1. ASSUME m = Signal("opened", c)
      PROVE  0 \in Own(m, c, Tracked)
  <2>1. m.kind = "opened" /\ m.conn = c
    BY <1>1, SignalType
  <2> QED
    BY <2>1, RankIs DEF Own, Tracked
<1>2. ASSUME 0 \in Own(m, c, Tracked)
      PROVE  m = Signal("opened", c)
  <2>1. m.conn = c /\ m.kind \in Tracked /\ Rank(m) = 0
    BY <1>2 DEF Own
  <2>2. m.kind = "opened"
    <3>1. m.kind # "closed"
      <4> SUFFICES ASSUME m.kind = "closed" PROVE FALSE
        OBVIOUS
      <4>1. Rank(m) = MaxRequests[m.conn] + 1 /\ MaxRequests[m.conn] \in Nat
        BY RankIs DEF Last
      <4> QED
        BY <2>1, <4>1
    <3>2. m.kind \notin Method \cup {"ok", "refused"}
      <4> SUFFICES ASSUME m.kind \in Method \cup {"ok", "refused"} PROVE FALSE
        OBVIOUS
      <4>1. Rank(m) = m.id /\ m.id \in 1..MaxRequests[m.conn]
        BY RankIs
      <4> QED
        BY <2>1, <4>1
    <3> QED
      BY <2>1, <3>1, <3>2 DEF Tracked
  <2>3. m \in Control
    BY <2>2, MethodAssumption DEF Bounded, Message, Request, Outgoing
  <2> QED
    BY <2>1, <2>2, <2>3 DEF Control, Signal
<1> QED
  BY <1>1, <1>2

LEMMA OpenedIn ==
  ASSUME NEW channel \in Seq(Bounded), NEW c \in Conn
  PROVE  0 \in R(channel, c) <=> \E i \in DOMAIN channel : channel[i] = Signal("opened", c)
<1>1. \A i \in DOMAIN channel : channel[i] \in Bounded
  OBVIOUS
<1>2. 0 \in R(channel, c) <=> \E i \in DOMAIN channel : 0 \in Own(channel[i], c, Tracked)
  BY DEF R, Ranks, Of, Own
<1> QED
  BY <1>1, <1>2, RankOfOpened

LEMMA ForeignSteps ==
  ASSUME NEW T, NEW channel \in Seq(T), NEW c
  PROVE  /\ Foreign(<< >>, c)
         /\ \A m : Foreign(<<m>>, c) <=> m.conn # c
         /\ \A m, n : Foreign(<<m, n>>, c) <=> m.conn # c /\ n.conn # c
         /\ \A m : Foreign(Append(channel, m), c) <=> Foreign(channel, c) /\ m.conn # c
         /\ channel # << >> /\ Foreign(channel, c) =>
              Foreign(Tail(channel), c) /\ Head(channel).conn # c
<1>1. Foreign(<< >>, c)
  BY DEF Foreign
<1>2. ASSUME NEW m
      PROVE  Foreign(<<m>>, c) <=> m.conn # c
  <2>1. DOMAIN <<m>> = {1} /\ <<m>>[1] = m
    OBVIOUS
  <2> QED
    BY <2>1 DEF Foreign
<1>3. ASSUME NEW m, NEW n
      PROVE  Foreign(<<m, n>>, c) <=> m.conn # c /\ n.conn # c
  <2>1. DOMAIN <<m, n>> = {1, 2} /\ <<m, n>>[1] = m /\ <<m, n>>[2] = n
    OBVIOUS
  <2> QED
    BY <2>1 DEF Foreign
<1>4. ASSUME NEW m
      PROVE  Foreign(Append(channel, m), c) <=> Foreign(channel, c) /\ m.conn # c
  <2>1. /\ DOMAIN Append(channel, m) = DOMAIN channel \cup {Len(channel) + 1}
        /\ Append(channel, m)[Len(channel) + 1] = m
        /\ \A i \in DOMAIN channel : Append(channel, m)[i] = channel[i]
    OBVIOUS
  <2> QED
    BY <2>1 DEF Foreign
<1>5. ASSUME channel # << >>, Foreign(channel, c)
      PROVE  Foreign(Tail(channel), c) /\ Head(channel).conn # c
  <2>1. /\ Head(channel) = channel[1] /\ 1 \in DOMAIN channel
        /\ \A i \in DOMAIN Tail(channel) : i + 1 \in DOMAIN channel
                                             /\ Tail(channel)[i] = channel[i + 1]
    BY <1>5
  <2> QED
    BY <1>5, <2>1 DEF Foreign
<1> QED
  BY <1>1, <1>2, <1>3, <1>4, <1>5

LEMMA LedSteps ==
  ASSUME NEW channel \in Seq(Bounded), NEW c \in Conn
  PROVE  /\ \A m : Foreign(channel, c) /\ m = Signal("opened", c) => Led(Append(channel, m), c)
         /\ \A m : Led(channel, c) /\ 0 \in R(channel, c) => Led(Append(channel, m), c)
         /\ channel # << >> /\ Led(channel, c) /\ Head(channel) # Signal("opened", c) =>
              Led(Tail(channel), c) /\ Head(channel).conn # c
<1>1. ASSUME NEW m, Foreign(channel, c), m = Signal("opened", c)
      PROVE  Led(Append(channel, m), c)
  <2>1. /\ DOMAIN Append(channel, m) = DOMAIN channel \cup {Len(channel) + 1}
        /\ Append(channel, m)[Len(channel) + 1] = m
        /\ \A i \in DOMAIN channel : Append(channel, m)[i] = channel[i]
        /\ Len(channel) + 1 \in 1..(Len(channel) + 1)
    OBVIOUS
  <2> QED
    BY <1>1, <2>1 DEF Foreign, Led
<1>2. ASSUME NEW m, Led(channel, c), 0 \in R(channel, c)
      PROVE  Led(Append(channel, m), c)
  <2>1. PICK k \in DOMAIN channel : channel[k] = Signal("opened", c)
    BY <1>2, OpenedIn
  <2>2. /\ DOMAIN Append(channel, m) = DOMAIN channel \cup {Len(channel) + 1}
        /\ \A i \in DOMAIN channel : /\ Append(channel, m)[i] = channel[i]
                                     /\ \A j \in 1..i : j \in DOMAIN channel
                                     /\ i \in 1..(Len(channel) + 1)
    OBVIOUS
  <2> QED
    BY <1>2, <2>1, <2>2 DEF Led
<1>3. ASSUME channel # << >>, Led(channel, c), Head(channel) # Signal("opened", c)
      PROVE  Led(Tail(channel), c) /\ Head(channel).conn # c
  <2>1. /\ Head(channel) = channel[1] /\ 1 \in DOMAIN channel
        /\ \A i \in DOMAIN Tail(channel) : /\ i \in Nat /\ i + 1 \in DOMAIN channel
                                           /\ Tail(channel)[i] = channel[i + 1]
                                           /\ \A j \in 1..i : j \in DOMAIN Tail(channel)
    BY <1>3
  <2>2. Head(channel).conn # c
    BY <1>3, <2>1 DEF Led
  <2>3. ASSUME NEW i \in DOMAIN Tail(channel), Tail(channel)[i].conn = c
        PROVE  \E j \in 1..i : Tail(channel)[j] = Signal("opened", c)
    <3>1. PICK j \in 1..(i + 1) : channel[j] = Signal("opened", c)
      BY <1>3, <2>1, <2>3 DEF Led
    <3>2. j # 1 /\ j - 1 \in 1..i
      BY <1>3, <2>1, <3>1
    <3>3. Tail(channel)[j - 1] = channel[(j - 1) + 1] /\ (j - 1) + 1 = j
      BY <2>1, <2>3, <3>2
    <3> QED
      BY <3>1, <3>2, <3>3
  <2> QED
    BY <2>2, <2>3 DEF Led
<1> QED
  BY <1>1, <1>2, <1>3

\* A step that moves nothing between the processor and the outbound task.
LEMMA FrameOpened ==
  ASSUME NEW d \in Conn, OpenedOf(d),
         todo' = todo, outbound' = outbound, chatter'[d] = chatter[d],
         0 \in R(events, d)' => Unheard(d),
         writer'[d] = "none" => /\ writer[d] = "none"
                                /\ reader'[d] \in {"none", "opening"}
                                /\ queue'[d] = queue[d] /\ received'[d] = received[d]
  PROVE  OpenedOf(d)'
<1>1. R(todo, d)' = R(todo, d) /\ R(outbound, d)' = R(outbound, d)
  BY DEF R, Ranks, Of, Rank, Last
<1>2. Unheard(d)' => Unheard(d)
  BY DEF Unheard
<1> QED
  BY <1>1, <1>2 DEF OpenedOf, Foreign, Led

\* A message with a number, or one of another connection, is no "opened".
LEMMA AppendUnopened ==
  ASSUME NEW channel \in Seq(Bounded), NEW m \in Bounded, NEW d \in Conn,
         m # Signal("opened", d)
  PROVE  0 \in R(Append(channel, m), d) => 0 \in R(channel, d)
<1>1. R(Append(channel, m), d) = R(channel, d) \cup Own(m, d, Tracked)
  BY RanksAppend DEF R
<1>2. 0 \notin Own(m, d, Tracked)
  BY RankOfOpened
<1> QED
  BY <1>1, <1>2

LEMMA ReaderOpened ==
  ASSUME RoadInv, RoadInv', AllOpened, NEW c \in Conn, Reader(c) \/ Client(c) \/ Writer(c)
  PROVE  AllOpened'
<1> SUFFICES ASSUME NEW d \in Conn PROVE OpenedOf(d)'
  BY DEF AllOpened
<1>1. /\ OpenedOf(d) /\ OpenedOf(c) /\ TypeOK /\ LifeOf(d)
      /\ events \in Seq(Bounded) /\ events' \in Seq(Bounded)
  BY DEF AllOpened, RoadInv, Roads, InBounds, TypeInv
<1>2. CASE Accept(c)
  <2>1. /\ todo' = todo /\ outbound' = outbound /\ chatter'[d] = chatter[d]
        /\ events' = events /\ writer' = writer /\ queue' = queue /\ received' = received
        /\ reader'[d] = reader[d] \/ reader'[d] = "opening"
    BY <1>1, <1>2 DEF Accept, processorVars, writerVars, TypeOK
  <2>2. R(events, d)' = R(events, d)
    BY <2>1 DEF R, Ranks, Of, Rank, Last
  <2>3. writer[d] = "none" => reader[d] \in {"none", "opening"}
    BY <1>1 DEF OpenedOf
  <2> QED
    BY <1>1, <2>1, <2>2, <2>3, FrameOpened DEF Unheard
<1>3. CASE Open(c)
  <2>1. PICK m : m = Signal("opened", c)
    OBVIOUS
  <2>2. /\ todo' = todo /\ outbound' = outbound /\ chatter'[d] = chatter[d]
        /\ events' = Append(events, m) /\ queue' = queue /\ received' = received
        /\ reader[c] = "opening"
        /\ d # c => writer'[d] = writer[d] /\ reader'[d] = reader[d]
        /\ writer'[c] = "running"
    BY <1>1, <1>3, <2>1 DEF Open, processorVars, TypeOK
  <2>3. m \in Bounded
    BY <2>1, SignalBounded
  <2>4. CASE d = c
    <3>1. Unheard(d)
      BY <1>1, <2>2, <2>4 DEF LifeOf, Unheard
    <3> QED
      BY <1>1, <2>2, <2>4, <3>1, FrameOpened
  <2>5. CASE d # c
    <3>1. m # Signal("opened", d)
      BY <2>1, <2>5, SignalType
    <3>2. 0 \in R(events, d)' => 0 \in R(events, d)
      <4>1. 0 \in R(Append(events, m), d) => 0 \in R(events, d)
        BY <1>1, <2>3, <3>1, AppendUnopened
      <4> QED
        BY <2>2, <4>1 DEF R, Ranks, Of, Rank, Last
    <3>3. writer[d] = "none" => reader[d] \in {"none", "opening"}
      BY <1>1 DEF OpenedOf
    <3> QED
      BY <1>1, <2>2, <2>5, <3>2, <3>3, FrameOpened DEF Unheard
  <2> QED
    BY <2>4, <2>5
<1>4. ASSUME NEW method \in Method, Forward(c, method)
      PROVE  OpenedOf(d)'
  <2>1. PICK m : m = [kind |-> method, conn |-> c, id |-> Len(sent[c]) + 1]
    OBVIOUS
  <2>2. /\ todo' = todo /\ outbound' = outbound /\ chatter'[d] = chatter[d]
        /\ events' = Append(events, m) \/ events' = events
        /\ writer' = writer /\ queue' = queue /\ received' = received
        /\ reader[c] = "reading"
        /\ d # c => reader'[d] = reader[d]
    BY <1>1, <1>4, <2>1 DEF Forward, processorVars, writerVars, TypeOK
  <2>3. m # Signal("opened", d)
    <3>1. m.kind = method /\ method # "opened"
      BY <2>1, MethodAssumption
    <3> QED
      BY <3>1, SignalType
  <2>4. 0 \in R(events, d)' => 0 \in R(events, d)
    <3>1. CASE events' = Append(events, m)
      <4>1. m \in Bounded
        <5>1. /\ DOMAIN Append(events, m) = DOMAIN events \cup {Len(events) + 1}
              /\ Append(events, m)[Len(events) + 1] = m
          BY <1>1
        <5>2. \A i \in DOMAIN events' : events'[i] \in Bounded
          BY <1>1
        <5> QED
          BY <3>1, <5>1, <5>2
      <4>2. 0 \in R(Append(events, m), d) => 0 \in R(events, d)
        BY <1>1, <2>3, <4>1, AppendUnopened
      <4> QED
        BY <3>1, <4>2 DEF R, Ranks, Of, Rank, Last
    <3>2. CASE events' = events
      BY <3>2 DEF R, Ranks, Of, Rank, Last
    <3> QED
      BY <2>2, <3>1, <3>2
  <2>5. writer[d] = "none" => reader[d] \in {"none", "opening"} /\ d # c
    BY <1>1, <2>2 DEF OpenedOf
  <2> QED
    BY <1>1, <2>2, <2>4, <2>5, FrameOpened DEF Unheard
<1>5. CASE Close(c)
  <2>1. PICK m : m = Signal("closed", c)
    OBVIOUS
  <2>2. /\ todo' = todo /\ outbound' = outbound /\ chatter'[d] = chatter[d]
        /\ events' = Append(events, m)
        /\ writer' = writer /\ queue' = queue /\ received' = received
        /\ reader[c] = "closing"
        /\ d # c => reader'[d] = reader[d]
    BY <1>1, <1>5, <2>1 DEF Close, processorVars, writerVars, TypeOK
  <2>3. m # Signal("opened", d) /\ m \in Bounded
    <3>1. m.kind = "closed" /\ Signal("opened", d).kind = "opened"
      BY <2>1, SignalType
    <3> QED
      BY <2>1, <3>1, SignalBounded
  <2>4. 0 \in R(events, d)' => 0 \in R(events, d)
    <3>1. 0 \in R(Append(events, m), d) => 0 \in R(events, d)
      BY <1>1, <2>3, AppendUnopened
    <3> QED
      BY <2>2, <3>1 DEF R, Ranks, Of, Rank, Last
  <2>5. writer[d] = "none" => reader[d] \in {"none", "opening"} /\ d # c
    BY <1>1, <2>2 DEF OpenedOf
  <2> QED
    BY <1>1, <2>2, <2>4, <2>5, FrameOpened DEF Unheard
<1>6. CASE Refuse(c) \/ HangUp(c) \/ StopWriting(c) \/ Write(c)
  <2>1. /\ todo' = todo /\ outbound' = outbound /\ chatter'[d] = chatter[d]
        /\ events' = events
    BY <1>6 DEF Refuse, HangUp, StopWriting, Write, processorVars
  <2>2. R(events, d)' = R(events, d)
    BY <2>1 DEF R, Ranks, Of, Rank, Last
  <2>3. writer'[d] = "none" => writer[d] = "none"
    BY <1>1, <1>6 DEF Refuse, HangUp, StopWriting, Write, TypeOK
  <2>4. writer'[d] = "none" => reader'[d] \in {"none", "opening"}
    <3>1. writer[d] = "none" => reader[d] \in {"none", "opening"}
      BY <1>1 DEF OpenedOf
    <3>2. d # c => reader'[d] = reader[d]
      BY <1>1, <1>6 DEF Refuse, HangUp, StopWriting, Write, TypeOK, readerVars
    <3>3. reader[c] \in {"none", "opening"} => reader' = reader
      BY <1>6 DEF Refuse, HangUp, StopWriting, Write, readerVars
    <3> QED
      BY <2>3, <3>1, <3>2, <3>3
  <2>5. writer'[d] = "none" => queue'[d] = queue[d] /\ received'[d] = received[d]
    BY <1>1, <1>6, <2>3 DEF Refuse, HangUp, StopWriting, Write, TypeOK
  <2> QED
    BY <1>1, <2>1, <2>2, <2>3, <2>4, <2>5, FrameOpened DEF Unheard
<1> QED
  BY <1>2, <1>3, <1>4, <1>5, <1>6, SizeAssumption
     DEF Reader, Client, Writer, WriteFails, WriterEnds

LEMMA EventsOnlyOpen ==
  ASSUME TypeOK, events \in Seq(Asked), NEW kinds, NextEvent(kinds), NEW h, h = Head(events)
  PROVE  h \in Asked /\ h.conn \in Conn /\ h.kind \in Tracked
<1>1. h \in Asked
  BY ChannelUpdates DEF NextEvent
<1> QED
  BY <1>1 DEF Asked, Request, Control, Tracked

LEMMA TakeOpened ==
  ASSUME RoadInv, RoadInv', events \in Seq(Asked), AllOpened,
         OpenConnection \/ CloseConnection \/ ProcessMessage
  PROVE  AllOpened'
<1> SUFFICES ASSUME NEW d \in Conn PROVE OpenedOf(d)'
  BY DEF AllOpened
<1>1. /\ OpenedOf(d) /\ TypeOK /\ LifeOf(d) /\ RoadOf(d)
      /\ events \in Seq(Bounded) /\ events # << >>
      /\ todo' \in Seq(Bounded) /\ events' \in Seq(Bounded)
  BY DEF AllOpened, RoadInv, Roads, InBounds, TypeInv, OpenConnection, CloseConnection,
         ProcessMessage, NextEvent
<1>2. PICK h : h = Head(events)
  OBVIOUS
<1>3. /\ UNCHANGED <<reader, chatter, outbound, writer, queue, received>>
      /\ events' = Tail(events)
  BY DEF OpenConnection, CloseConnection, ProcessMessage, NextEvent, readerVars, writerVars
<1>4. h \in Bounded /\ h.conn \in Conn /\ h.kind \in Tracked
  <2>1. \E kinds : NextEvent(kinds)
    BY DEF OpenConnection, CloseConnection, ProcessMessage
  <2> QED
    BY <1>1, <1>2, <2>1, EventsOnlyOpen, ChannelUpdates
<1>5. /\ R(events, d) = R(events, d)' \cup Own(h, d, Tracked)
      /\ Below(Own(h, d, Tracked), R(events, d)')
  <2>1. R(events, d)' = R(Tail(events), d)
    BY <1>3 DEF R, Ranks, Of, Rank, Last
  <2> QED
    BY <1>1, <1>2, <2>1, RanksTail, SortedTail DEF R, RoadOf, AllSorted
<1>6. R(outbound, d)' = R(outbound, d) /\ R(todo, d)' = R(todo', d)
  BY <1>3 DEF R, Ranks, Of, Rank, Last
<1>7. /\ h.kind \in Method => h \in Request
      /\ \/ todo' = <<h>>
         \/ todo' = << >>
         \/ todo' = <<Signal("initialized", h.conn), Answer("ok")>> /\ h.kind \in Method
         \/ todo' = <<Signal("started", h.conn), Answer("ok")>> /\ h.kind \in Method
         \/ todo' = <<Answer("ok")>> /\ h.kind \in Method
         \/ todo' = <<Answer("refused")>> /\ h.kind \in Method
  <2>1. h.kind \in {"initialize", "turn", "call"} => h.kind \in Method
    BY <1>4 DEF Tracked
  <2> QED
    BY <1>1, <1>2, <2>1, TodoIs
<1>8. \A kind \in {"ok", "refused"} : h \in Request =>
        Answer(kind).conn = h.conn /\ Answer(kind).kind = kind
  BY <1>2, AnswerType DEF Answer
<1>9. \A kind \in {"initialized", "started"} :
        Signal(kind, h.conn).conn = h.conn /\ Signal(kind, h.conn).kind = kind
  BY <1>4, SignalType
<1>10. CASE h.conn # d
  <2>1. Foreign(todo', d)
    BY <1>7, <1>8, <1>9, <1>10 DEF Foreign
  <2>2. 0 \notin R(todo', d)
    BY <2>1 DEF Foreign, R, Ranks, Of
  <2>3. R(events, d)' = R(events, d)
    BY <1>5, <1>10 DEF Own
  <2>4. Unheard(d)' <=> Unheard(d)
    BY <1>3, <2>3 DEF Unheard
  <2> QED
    BY <1>1, <1>3, <1>6, <2>1, <2>2, <2>4 DEF OpenedOf, Foreign, Led
<1>11. CASE h.conn = d
  <2>1. Own(h, d, Tracked) = {Rank(h)} /\ Rank(h) \in Nat
    BY <1>4, <1>11, RankIs DEF Own, Tracked, Last
  <2>2. writer[d] # "none"
    <3> SUFFICES ASSUME writer[d] = "none" PROVE FALSE
      OBVIOUS
    <3>1. reader[d] \in {"none", "opening"}
      BY <1>1 DEF OpenedOf
    <3>2. R(events, d) = {}
      BY <1>1, <3>1, TracksAre DEF LifeOf
    <3> QED
      BY <1>5, <2>1, <3>2
  <2>3. 0 \notin R(events, d)'
    BY <1>5, <2>1 DEF Below
  <2>4. ~Unheard(d)'
    BY <1>3, <2>2, <2>3 DEF Unheard
  <2>5. ASSUME 0 \in R(todo', d)
        PROVE  /\ todo' = <<Signal("opened", d)>>
               /\ Foreign(outbound, d) /\ chatter[d] = 0
    <3>1. PICK i \in DOMAIN todo' : todo'[i] = Signal("opened", d)
      BY <1>1, <2>5, OpenedIn
    <3>2. Signal("opened", d).kind = "opened"
      BY SignalType
    <3>3. todo' = <<h>>
      BY <1>7, <1>8, <1>9, <3>1, <3>2
    <3>4. h = Signal("opened", d)
      BY <3>1, <3>3
    <3>5. 0 \in R(events, d)
      <4>1. events[1] = h /\ 1 \in DOMAIN events
        BY <1>1, <1>2
      <4> QED
        BY <1>1, <3>4, <4>1, OpenedIn
    <3> QED
      BY <1>1, <3>3, <3>4, <3>5 DEF OpenedOf, Unheard
  <2> QED
    BY <1>1, <1>3, <1>6, <2>2, <2>4, <2>5 DEF OpenedOf, Foreign, Led
<1> QED
  BY <1>10, <1>11

LEMMA SendOpened ==
  ASSUME RoadInv, AllOpened, SendOutbound
  PROVE  AllOpened'
<1> SUFFICES ASSUME NEW d \in Conn PROVE OpenedOf(d)'
  BY DEF AllOpened
<1>1. /\ OpenedOf(d) /\ TypeOK /\ todo \in Seq(Bounded) /\ outbound \in Seq(Bounded)
  BY DEF AllOpened, RoadInv, InBounds, TypeInv
<1>2. PICK m : m = Head(todo)
  OBVIOUS
<1>3. /\ todo # << >> /\ todo' = Tail(todo) /\ outbound' = Append(outbound, m)
      /\ UNCHANGED <<events, reader, writer, queue, received>>
      /\ m.conn # d => chatter'[d] = chatter[d]
  BY <1>1, <1>2 DEF SendOutbound, readerVars, writerVars, TypeOK
<1>4. m \in Bounded /\ Tail(todo) \in Seq(Bounded)
  BY <1>1, <1>2, <1>3, ChannelUpdates
<1>5. Unheard(d)' <=> Unheard(d)
  <2>1. R(events, d)' = R(events, d)
    BY <1>3 DEF R, Ranks, Of, Rank, Last
  <2> QED
    BY <1>3, <2>1 DEF Unheard
<1>6. 0 \notin R(todo, d)'
  <2> SUFFICES ASSUME 0 \in R(Tail(todo), d) PROVE FALSE
    BY <1>3 DEF R, Ranks, Of, Rank, Last
  <2>1. R(todo, d) = R(Tail(todo), d) \cup Own(Head(todo), d, Tracked)
    BY <1>1, <1>3, RanksTail DEF R
  <2>2. todo = <<Signal("opened", d)>>
    BY <1>1, <2>1 DEF OpenedOf
  <2>3. Tail(todo) = << >>
    BY <2>2
  <2> QED
    BY <2>3, RanksOfFew DEF R
<1>7. Unheard(d) => /\ Foreign(todo', d)
                    /\ Foreign(outbound', d) /\ chatter'[d] = 0
  <2> SUFFICES ASSUME Unheard(d)
               PROVE  Foreign(todo', d) /\ Foreign(outbound', d) /\ chatter'[d] = 0
    OBVIOUS
  <2>1. Foreign(todo, d) /\ Foreign(outbound, d) /\ chatter[d] = 0
    BY <1>1 DEF OpenedOf
  <2>2. Foreign(Tail(todo), d) /\ m.conn # d
    BY <1>1, <1>2, <1>3, <2>1, ForeignSteps
  <2>3. Foreign(Append(outbound, m), d)
    BY <1>1, <2>1, <2>2, ForeignSteps
  <2> QED
    BY <1>3, <2>1, <2>2, <2>3
<1>8. 0 \in R(outbound', d) => Led(outbound', d)
  <2>1. CASE m = Signal("opened", d)
    <3>1. 0 \in R(todo, d)
      <4>1. todo[1] = m /\ 1 \in DOMAIN todo
        BY <1>1, <1>2, <1>3
      <4> QED
        BY <1>1, <2>1, <4>1, OpenedIn
    <3>2. Foreign(outbound, d)
      BY <1>1, <3>1 DEF OpenedOf
    <3> QED
      BY <1>1, <1>3, <2>1, <3>2, LedSteps
  <2>2. CASE m # Signal("opened", d)
    <3>1. 0 \in R(Append(outbound, m), d) => 0 \in R(outbound, d)
      BY <1>1, <1>4, <2>2, AppendUnopened
    <3>2. 0 \in R(outbound, d) => Led(outbound, d)
      BY <1>1 DEF OpenedOf
    <3>3. 0 \in R(outbound, d) => Led(Append(outbound, m), d)
      BY <1>1, <3>2, LedSteps
    <3> QED
      BY <1>3, <3>1, <3>3
  <2> QED
    BY <2>1, <2>2
<1>9. R(outbound, d)' = R(outbound', d)
  BY DEF R, Ranks, Of, Rank, Last
<1> QED
  BY <1>1, <1>3, <1>5, <1>6, <1>7, <1>8, <1>9 DEF OpenedOf, Foreign, Led

LEMMA NotifyOpened ==
  ASSUME RoadInv, AllOpened, NEW c \in Conn, RunnerNotify(c)
  PROVE  AllOpened'
<1> SUFFICES ASSUME NEW d \in Conn PROVE OpenedOf(d)'
  BY DEF AllOpened
<1>1. /\ OpenedOf(d) /\ TypeOK /\ outbound \in Seq(Bounded)
  BY DEF AllOpened, RoadInv, InBounds, TypeInv
<1>2. PICK m : m = Signal("event", c)
  OBVIOUS
<1>3. /\ outbound' = Append(outbound, m) /\ chatter[c] # 0
      /\ UNCHANGED <<events, todo, reader, writer, queue, received>>
      /\ c # d => chatter'[d] = chatter[d]
  BY <1>1, <1>2 DEF RunnerNotify, readerVars, writerVars, TypeOK
<1>4. m \in Bounded /\ m.conn = c /\ m # Signal("opened", d)
  <2>1. m.kind = "event" /\ m.conn = c /\ Signal("opened", d).kind = "opened"
    BY <1>2, SignalType
  <2> QED
    BY <1>2, <2>1, SignalBounded
<1>5. /\ Unheard(d)' <=> Unheard(d)
      /\ R(todo, d)' = R(todo, d) /\ R(outbound, d)' = R(outbound', d)
  <2>1. R(events, d)' = R(events, d)
    BY <1>3 DEF R, Ranks, Of, Rank, Last
  <2> QED
    BY <1>3, <2>1 DEF Unheard, R, Ranks, Of, Rank, Last
<1>6. Unheard(d) \/ 0 \in R(todo, d) => Foreign(outbound', d) /\ chatter'[d] = 0
  <2> SUFFICES ASSUME Unheard(d) \/ 0 \in R(todo, d)
               PROVE  Foreign(outbound', d) /\ chatter'[d] = 0
    OBVIOUS
  <2>1. Foreign(outbound, d) /\ chatter[d] = 0
    BY <1>1 DEF OpenedOf
  <2>2. c # d
    BY <1>3, <2>1
  <2>3. Foreign(Append(outbound, m), d)
    BY <1>1, <1>4, <2>1, <2>2, ForeignSteps
  <2> QED
    BY <1>3, <2>1, <2>2, <2>3
<1>7. 0 \in R(outbound', d) => Led(outbound', d)
  <2>1. 0 \in R(Append(outbound, m), d) => 0 \in R(outbound, d)
    BY <1>1, <1>4, AppendUnopened
  <2>2. 0 \in R(outbound, d) => Led(outbound, d)
    BY <1>1 DEF OpenedOf
  <2>3. 0 \in R(outbound, d) => Led(Append(outbound, m), d)
    BY <1>1, <2>2, LedSteps
  <2> QED
    BY <1>3, <2>1, <2>3
<1> QED
  BY <1>1, <1>3, <1>5, <1>6, <1>7 DEF OpenedOf, Foreign, Led

\* What leaves outbound is not the "opened" of a connection that has one there still.
LEMMA PassesOpened ==
  ASSUME RoadInv, AllOpened, NEW kinds, NextOutbound(kinds), NEW d \in Conn,
         0 \in R(Tail(outbound), d)
  PROVE  Led(Tail(outbound), d) /\ Head(outbound).conn # d
<1>1. /\ OpenedOf(d) /\ RoadOf(d) /\ outbound \in Seq(Bounded) /\ outbound # << >>
  BY DEF AllOpened, RoadInv, Roads, InBounds, NextOutbound
<1>2. PICK m : m = Head(outbound)
  OBVIOUS
<1>3. m \in Bounded
  BY <1>1, <1>2, ChannelUpdates
<1>4. Below(Own(m, d, Tracked), R(Tail(outbound), d))
  BY <1>1, <1>2, SortedTail DEF R, RoadOf, AllSorted
<1>5. 0 \notin Own(m, d, Tracked)
  BY <1>4 DEF Below
<1>6. m # Signal("opened", d)
  BY <1>3, <1>5, RankOfOpened
<1>7. 0 \in R(outbound, d)
  BY <1>1, RanksTail DEF R
<1>8. Led(outbound, d)
  BY <1>1, <1>7 DEF OpenedOf
<1> QED
  BY <1>1, <1>2, <1>6, <1>8, LedSteps

LEMMA RouterOpened ==
  ASSUME RoadInv, AllOpened, RouteOpened \/ RouteClosed \/ RouteEnvelope
  PROVE  AllOpened'
<1> SUFFICES ASSUME NEW d \in Conn PROVE OpenedOf(d)'
  BY DEF AllOpened
<1>1. /\ OpenedOf(d) /\ TypeOK /\ outbound \in Seq(Bounded) /\ outbound # << >>
  BY DEF AllOpened, RoadInv, InBounds, TypeInv, RouteOpened, RouteClosed, RouteEnvelope,
         NextOutbound
<1>2. /\ outbound' = Tail(outbound)
      /\ UNCHANGED <<events, todo, chatter, reader, writer, received>>
      /\ writer[d] = "none" => queue'[d] = queue[d]
  BY <1>1 DEF RouteOpened, RouteClosed, RouteEnvelope, NextOutbound, readerVars,
              processorVars, TypeOK
<1>3. /\ Unheard(d)' <=> Unheard(d)
      /\ R(todo, d)' = R(todo, d) /\ R(outbound, d)' = R(Tail(outbound), d)
  <2>1. R(events, d)' = R(events, d)
    BY <1>2 DEF R, Ranks, Of, Rank, Last
  <2> QED
    BY <1>2, <2>1 DEF Unheard, R, Ranks, Of, Rank, Last
<1>4. Foreign(outbound, d) => Foreign(Tail(outbound), d)
  BY <1>1, ForeignSteps
<1>5. 0 \in R(Tail(outbound), d) => Led(Tail(outbound), d)
  BY PassesOpened DEF RouteOpened, RouteClosed, RouteEnvelope
<1> QED
  BY <1>1, <1>2, <1>3, <1>4, <1>5 DEF OpenedOf, Foreign, Led

LEMMA InitOpened == Init => Truthful /\ AllOpened
<1> SUFFICES ASSUME Init PROVE Truthful /\ AllOpened
  OBVIOUS
<1>1. /\ todo = << >> /\ outbound = << >> /\ events = << >>
      /\ \A c \in Conn : /\ queue[c] = << >> /\ received[c] = << >> /\ reader[c] = "none"
                         /\ chatter[c] = 0
  BY DEF Init
<1>2. << >> \in Seq(Truth)
  OBVIOUS
<1>3. \A c : R(<< >>, c) = {} /\ Foreign(<< >>, c)
  BY RanksOfFew, ForeignSteps DEF R, Foreign
<1> QED
  BY <1>1, <1>2, <1>3 DEF Truthful, AllOpened, OpenedOf

LEMMA StepOpened ==
  ASSUME RoadInv, RoadInv', events \in Seq(Asked), AllOpened, [Next]_vars
  PROVE  AllOpened'
<1>1. ASSUME UNCHANGED <<readerVars, events, processorVars, outbound, writerVars>>
      PROVE  AllOpened'
  <2>1. \A d \in Conn : /\ R(todo, d)' = R(todo, d) /\ R(outbound, d)' = R(outbound, d)
                        /\ R(events, d)' = R(events, d)
    BY <1>1 DEF R, Ranks, Of, Rank, Last, processorVars
  <2> QED
    BY <1>1, <2>1 DEF AllOpened, OpenedOf, Unheard, Foreign, Led, readerVars, processorVars,
                      writerVars
<1>2. CASE Shutdown \/ Down \/ UNCHANGED vars
  BY <1>1, <1>2 DEF Shutdown, Down, vars
<1> QED
  BY <1>2, ReaderOpened, TakeOpened, SendOpened, NotifyOpened, RouterOpened
     DEF Next, Processor, Router, Runners

-----------------------------------------------------------------------------
(* The books of a connection: the code announces an initialize before it   *)
(* is answered, a turn likewise, and a turn's start owes Chatter events.   *)

Done(c, method) ==
  {m \in Message : m.kind = "ok" /\ m.conn = c /\ m.id \in DOMAIN sent[c]
                     /\ sent[c][m.id] = method}

Initializing(c) ==
  [plus |-> {Signal("initialized", c)}, minus |-> Done(c, "initialize"),
   worth |-> 1, range |-> 0..1]
Starting(c) ==
  [plus |-> {Signal("started", c)}, minus |-> Done(c, "turn"), worth |-> 1, range |-> 0..1]
Telling(c) ==
  [plus |-> {Signal("started", c)}, minus |-> {Signal("event", c)},
   worth |-> Chatter, range |-> Nat]

Pairs(c) == {Initializing(c), Starting(c)}

\* Does what is sent to c reach its writer, now or once its "opened" was routed?
Linked(c) == writer[c] = "running" /\ (c \in routes \/ 0 \in Ahead(c))

\* The balance of what c was told, of its queue and of what outbound holds is due.
Fair(c, due, book) ==
  /\ writer[c] = "running" => Steady(queue[c], Balance(received[c], book), book)
  /\ Linked(c) => Balanced(received[c], queue[c], outbound, due, book)

\* A message and its answer are sent together.
Ready(book) ==
  /\ 0 - Balance(todo, book) \in 0..1
  /\ todo # << >> => 0 - Balance(Tail(todo), book) \in 0..1

Settled(c, book) ==
  writer[c] = "running" /\ ~Linked(c) =>
    Balance(received[c], book) + Balance(queue[c], book) = 0

InOrder(c, book) ==
  Ready(book) /\ Fair(c, 0 - Balance(todo, book), book) /\ Settled(c, book)

BooksOf(c) ==
  /\ \A book \in Pairs(c) : InOrder(c, book)
  /\ Fair(c, chatter[c], Telling(c))

NoEvent(channel) == \A i \in DOMAIN channel : channel[i].kind # "event"

Books == NoEvent(todo) /\ \A c \in Conn : BooksOf(c)

\* A book of c is about messages of these kinds for c.
Ledger(c, book) ==
  /\ book.worth \in Nat /\ 0 \in book.range
  /\ \A m \in book.plus \cup book.minus :
       m.conn = c /\ m.kind \in {"ok", "initialized", "started", "event"}

LEMMA ValueZero ==
  ASSUME NEW book, book.worth \in Nat, NEW m, m \notin book.plus \cup book.minus
  PROVE  Value(m, book) = 0
BY DEF Value, One

LEMMA PairsAre ==
  ASSUME NEW c \in Conn, NEW book \in Pairs(c)
  PROVE  /\ Ledger(c, book) /\ book.worth = 1 /\ book.range = 0..1
         /\ \A m \in book.minus : m.kind = "ok" /\ m.conn = c
         /\ \A m : m.kind = "event" => Value(m, book) = 0
<1>1. /\ book.worth = 1 /\ book.range = 0..1
      /\ \A m \in book.minus : m.kind = "ok" /\ m.conn = c
      /\ \A m \in book.plus : m.kind \in {"initialized", "started"} /\ m.conn = c
  BY SignalType DEF Pairs, Initializing, Starting, Done
<1> QED
  BY <1>1, ValueZero DEF Ledger

LEMMA TellingIs ==
  ASSUME NEW c \in Conn
  PROVE  /\ Ledger(c, Telling(c)) /\ Telling(c).range = Nat
         /\ Value(Signal("event", c), Telling(c)) = -1
         /\ Value(Signal("started", c), Telling(c)) = Chatter
         /\ \A m : m # Signal("event", c) /\ m # Signal("started", c) =>
              Value(m, Telling(c)) = 0
<1>1. PICK s, e : s = Signal("started", c) /\ e = Signal("event", c)
  OBVIOUS
<1>2. /\ s.kind = "started" /\ s.conn = c
      /\ e.kind = "event" /\ e.conn = c
  BY <1>1, SignalType
<1>3. /\ Chatter \in Nat /\ Telling(c).worth = Chatter /\ Telling(c).range = Nat
      /\ Telling(c).plus = {s} /\ Telling(c).minus = {e}
  BY <1>1, SizeAssumption DEF Telling
<1>4. /\ Value(e, Telling(c)) = -1 /\ Value(s, Telling(c)) = Chatter
      /\ \A m : m # e /\ m # s => Value(m, Telling(c)) = 0
  BY <1>2, <1>3 DEF Value, One
<1> QED
  BY <1>1, <1>2, <1>3, <1>4 DEF Ledger

\* What is for other connections leaves the books of c alone.
LEMMA ForeignBalance ==
  ASSUME NEW T, NEW channel \in Seq(T), NEW c, Foreign(channel, c),
         NEW book, Ledger(c, book)
  PROVE  Balance(channel, book) = 0 /\ Steady(channel, 0, book)
<1>1. ASSUME NEW s \in Seq(T), Foreign(s, c)
      PROVE  Balance(s, book) = 0
  <2>1. Where(s, book.plus) = {} /\ Where(s, book.minus) = {}
    BY <1>1 DEF Where, Foreign, Ledger
  <2> QED
    BY <2>1, FS_EmptySet DEF Balance, Count, Ledger
<1>2. ASSUME NEW k \in 0..Len(channel)
      PROVE  0 + Balance(SubSeq(channel, 1, k), book) \in book.range
  <2>1. /\ SubSeq(channel, 1, k) \in Seq(T)
        /\ \A i \in DOMAIN SubSeq(channel, 1, k) :
             i \in DOMAIN channel /\ SubSeq(channel, 1, k)[i] = channel[i]
    OBVIOUS
  <2>2. Balance(SubSeq(channel, 1, k), book) = 0
    BY <1>1, <2>1 DEF Foreign
  <2> QED
    BY <2>2 DEF Ledger
<1> QED
  BY <1>1, <1>2 DEF Steady

\* Two books that agree on all messages of a channel say the same of it.
LEMMA SameBook ==
  ASSUME NEW T, NEW a, NEW b, a.worth = b.worth, a.range = b.range,
         \A m \in T : (m \in a.plus <=> m \in b.plus) /\ (m \in a.minus <=> m \in b.minus),
         NEW channel \in Seq(T)
  PROVE  /\ Balance(channel, a) = Balance(channel, b)
         /\ \A base : Steady(channel, base, a) <=> Steady(channel, base, b)
<1>1. ASSUME NEW s \in Seq(T)
      PROVE  Balance(s, a) = Balance(s, b)
  <2>1. \A i \in DOMAIN s : s[i] \in T
    OBVIOUS
  <2>2. Where(s, a.plus) = Where(s, b.plus) /\ Where(s, a.minus) = Where(s, b.minus)
    BY <2>1 DEF Where
  <2> QED
    BY <2>2 DEF Balance, Count
<1>2. \A k \in 0..Len(channel) : SubSeq(channel, 1, k) \in Seq(T)
  OBVIOUS
<1> QED
  BY <1>1, <1>2 DEF Steady

\* A connection whose writer no message can reach any more: its reader is gone and
\* nothing of it is on the way.
LEMMA Unlinked ==
  ASSUME RoadInv, NEW c \in Conn, writer[c] = "running", ~Linked(c)
  PROVE  reader[c] = "gone" /\ c \notin routes /\ Ahead(c) = {}
<1>1. LifeOf(c) /\ TypeOK
  BY DEF RoadInv, Roads, TypeInv
<1>2. c \notin routes /\ 0 \notin Ahead(c)
  BY DEF Linked
<1>3. ~Live(c) /\ Ahead(c) = {}
  BY <1>1, <1>2 DEF LifeOf
<1>4. reader[c] \notin {"none", "opening"}
  BY <1>1 DEF LifeOf
<1> QED
  BY <1>1, <1>2, <1>3, <1>4 DEF Live, TypeOK

LEMMA AppendOther ==
  ASSUME NEW T, NEW channel \in Seq(T), NEW m, NEW c, m.conn # c \/ m.kind \notin Tracked
  PROVE  R(Append(channel, m), c) = R(channel, c)
<1>1. Ranks(Append(channel, m), c, Tracked)
        = Ranks(channel, c, Tracked) \cup Own(m, c, Tracked)
  BY RanksAppend
<1>2. Own(m, c, Tracked) = {}
  BY DEF Own
<1> QED
  BY <1>1, <1>2 DEF R

LEMMA TailQuiet ==
  ASSUME NEW T, NEW channel \in Seq(T), channel # << >>, NEW c, R(channel, c) = {}
  PROVE  /\ R(Tail(channel), c) = {}
         /\ Head(channel).conn # c \/ Head(channel).kind \notin Tracked
BY RanksTail DEF R, Own

LEMMA StaysUnlinked ==
  ASSUME RoadInv, events \in Seq(Asked), [Next]_vars,
         NEW c \in Conn, writer[c] = "running", ~Linked(c)
  PROVE  ~Linked(c)'
<1>1. /\ reader[c] = "gone" /\ c \notin routes
      /\ R(outbound, c) = {} /\ R(todo, c) = {} /\ R(events, c) = {}
      /\ TypeOK /\ events \in Seq(Bounded) /\ todo \in Seq(Bounded)
      /\ outbound \in Seq(Bounded)
  BY Unlinked DEF Ahead, RoadInv, TypeInv, InBounds
<1> DEFINE Rest == /\ R(outbound', c) = {} /\ R(todo', c) = {} /\ R(events', c) = {}
                   /\ c \notin routes'
<1> SUFFICES Rest
  <2>1. /\ R(outbound, c)' = R(outbound', c) /\ R(todo, c)' = R(todo', c)
        /\ R(events, c)' = R(events', c)
    BY DEF R, Ranks, Of, Rank, Last
  <2> QED
    BY <2>1 DEF Linked, Ahead
<1>2. CASE UNCHANGED <<outbound, todo, events, routes>>
  BY <1>1, <1>2
<1>3. ASSUME NEW e \in Conn, Reader(e) \/ Writer(e) \/ Client(e)
      PROVE  Rest
  <2> DEFINE Goal == /\ UNCHANGED <<outbound, todo, routes>>
                     /\ events' = events \/ \E m : events' = Append(events, m) /\ m.conn # c
  <2>1. Goal
    <3>1. CASE Open(e)
      <4>1. e # c /\ Signal("opened", e).conn = e
        BY <1>1, <3>1, SignalType DEF Open
      <4> QED
        BY <3>1, <4>1 DEF Open, processorVars
    <3>2. CASE Close(e)
      <4>1. e # c /\ Signal("closed", e).conn = e
        BY <1>1, <3>2, SignalType DEF Close
      <4> QED
        BY <3>2, <4>1 DEF Close, processorVars
    <3>3. ASSUME NEW method \in Method, Forward(e, method)
          PROVE  Goal
      <4>1. e # c
        BY <1>1, <3>3 DEF Forward
      <4>2. [kind |-> method, conn |-> e, id |-> Len(sent[e]) + 1].conn = e
        OBVIOUS
      <4> QED
        BY <3>3, <4>1, <4>2 DEF Forward, processorVars
    <3>4. CASE Accept(e) \/ Refuse(e) \/ HangUp(e) \/ StopWriting(e) \/ Write(e)
      BY <3>4 DEF Accept, Refuse, HangUp, StopWriting, Write, processorVars
    <3> HIDE DEF Goal
    <3> QED
      BY <1>3, <3>1, <3>2, <3>3, <3>4, SizeAssumption
         DEF Reader, Writer, Client, WriteFails, WriterEnds
  <2>2. outbound' = outbound /\ todo' = todo /\ routes' = routes
    BY <2>1
  <2>3. R(events', c) = {}
    <3>1. ASSUME NEW m, m.conn # c
          PROVE  R(Append(events, m), c) = {}
      BY <1>1, <3>1, AppendOther
    <3> QED
      BY <1>1, <2>1, <3>1
  <2> QED
    BY <1>1, <2>2, <2>3
<1>4. CASE OpenConnection \/ CloseConnection \/ ProcessMessage
  <2>1. PICK h : h = Head(events)
    OBVIOUS
  <2>2. /\ UNCHANGED <<outbound, routes>>
        /\ events' = Tail(events) /\ events # << >>
        /\ \E kinds : NextEvent(kinds)
    BY <1>4 DEF OpenConnection, CloseConnection, ProcessMessage, NextEvent
  <2>3. h.conn \in Conn /\ h.kind \in Tracked
    BY <1>1, <2>1, <2>2, EventsOnlyOpen
  <2>4. h.conn # c /\ R(Tail(events), c) = {}
    BY <1>1, <2>1, <2>2, <2>3, TailQuiet
  <2>5. Foreign(todo', c)
    <3>1. \A kind \in {"ok", "refused"} : h \in Request => Answer(kind).conn = h.conn
      BY <2>1, AnswerType DEF Answer
    <3>2. \A kind \in {"initialized", "started"} : Signal(kind, h.conn).conn = h.conn
      BY <2>3, SignalType
    <3>3. \/ todo' = <<h>>
          \/ todo' = << >>
          \/ todo' = <<Signal("initialized", h.conn), Answer("ok")>> /\ h \in Request
          \/ todo' = <<Signal("started", h.conn), Answer("ok")>> /\ h \in Request
          \/ todo' = <<Answer("ok")>> /\ h \in Request
          \/ todo' = <<Answer("refused")>> /\ h \in Request
      <4>1. h.kind \in {"initialize", "turn", "call"} => h.kind \in Method
        BY <2>3 DEF Tracked
      <4> QED
        BY <1>1, <1>4, <2>1, <4>1, TodoIs
    <3> QED
      BY <2>4, <3>1, <3>2, <3>3 DEF Foreign
  <2>6. R(todo', c) = {}
    BY <2>5 DEF Foreign, R, Ranks, Of
  <2> QED
    BY <1>1, <2>2, <2>4, <2>6
<1>5. CASE SendOutbound
  <2>1. /\ todo # << >> /\ todo' = Tail(todo) /\ outbound' = Append(outbound, Head(todo))
        /\ UNCHANGED <<events, routes>>
    BY <1>5 DEF SendOutbound
  <2>2. /\ R(Tail(todo), c) = {}
        /\ Head(todo).conn # c \/ Head(todo).kind \notin Tracked
    BY <1>1, <2>1, TailQuiet
  <2>3. R(Append(outbound, Head(todo)), c) = {}
    BY <1>1, <2>2, AppendOther
  <2> QED
    BY <1>1, <2>1, <2>2, <2>3
<1>6. ASSUME NEW e \in Conn, RunnerNotify(e)
      PROVE  Rest
  <2>1. Signal("event", e).kind \notin Tracked
    BY SignalType, MethodAssumption DEF Tracked
  <2>2. R(Append(outbound, Signal("event", e)), c) = {}
    BY <1>1, <2>1, AppendOther
  <2> QED
    BY <1>1, <1>6, <2>2 DEF RunnerNotify
<1>7. CASE RouteOpened \/ RouteClosed \/ RouteEnvelope
  <2>1. /\ outbound # << >> /\ outbound' = Tail(outbound) /\ UNCHANGED <<todo, events>>
    BY <1>7 DEF RouteOpened, RouteClosed, RouteEnvelope, NextOutbound, processorVars
  <2>2. /\ R(Tail(outbound), c) = {}
        /\ Head(outbound).conn # c \/ Head(outbound).kind \notin Tracked
    BY <1>1, <2>1, TailQuiet
  <2>3. c \notin routes'
    BY <1>1, <1>7, <2>2 DEF RouteOpened, RouteClosed, RouteEnvelope, NextOutbound, Forgotten,
                            Tracked
  <2> QED
    BY <1>1, <2>1, <2>2, <2>3
<1>8. CASE Shutdown \/ Down \/ UNCHANGED vars
  BY <1>2, <1>8 DEF Shutdown, Down, vars, processorVars
<1> HIDE DEF Rest
<1> QED
  BY <1>3, <1>4, <1>5, <1>6, <1>7, <1>8 DEF Next, Processor, Router, Runners

\* The link of a connection is made when its writer starts, and never again.
LEMMA LinkedBefore ==
  ASSUME RoadInv, events \in Seq(Asked), [Next]_vars, NEW c \in Conn,
         writer[c] = "none" => writer'[c] # "running"
  PROVE  /\ Linked(c)' => Linked(c)
         /\ writer'[c] = "running" => writer[c] = "running"
<1>1. TypeOK /\ LifeOf(c)
  BY DEF RoadInv, TypeInv, Roads
<1>2. writer'[c] = "running" => writer[c] # "dead"
  <2>1. ASSUME NEW e \in Conn, Open(e)
        PROVE  writer'[c] = "running" => writer[c] # "dead"
    <3>1. reader[e] = "opening" /\ writer' = [writer EXCEPT ![e] = "running"]
      BY <2>1 DEF Open
    <3>2. e = c => writer[c] = "none"
      BY <1>1, <3>1 DEF LifeOf
    <3>3. e # c => writer'[c] = writer[c]
      BY <1>1, <3>1 DEF TypeOK
    <3> QED
      BY <3>2, <3>3
  <2>2. ASSUME NEW e \in Conn,
               \/ Accept(e) \/ Refuse(e) \/ HangUp(e) \/ StopWriting(e) \/ Write(e) \/ Close(e)
               \/ RunnerNotify(e) \/ \E method \in Method : Forward(e, method)
        PROVE  writer'[c] = "running" => writer[c] # "dead"
    BY <1>1, <2>2 DEF Accept, Refuse, HangUp, StopWriting, Write, Close, RunnerNotify, Forward,
                      writerVars, TypeOK
  <2>3. CASE \/ OpenConnection \/ CloseConnection \/ ProcessMessage \/ SendOutbound
             \/ RouteOpened \/ RouteClosed \/ RouteEnvelope
             \/ Shutdown \/ Down \/ UNCHANGED vars
    BY <2>3 DEF OpenConnection, CloseConnection, ProcessMessage, NextEvent, SendOutbound,
                RouteOpened, RouteClosed, RouteEnvelope, NextOutbound, Shutdown, Down, vars,
                writerVars
  <2> QED
    BY <2>1, <2>2, <2>3, SizeAssumption
       DEF Next, Processor, Router, Reader, Runners, Writer, Client, WriteFails, WriterEnds
<1>3. writer'[c] = "running" => writer[c] = "running"
  BY <1>1, <1>2 DEF TypeOK
<1>4. Linked(c)' => writer'[c] = "running"
  BY DEF Linked
<1> QED
  BY <1>3, <1>4, StaysUnlinked

\* A step that keeps the books of c: of what it hands to c or routes, nothing is lost.
Carried(c, due, book) ==
  writer'[c] = "running" =>
    /\ writer[c] = "running"
    /\ Steady(queue'[c], Balance(received'[c], book), book)
    /\ Linked(c) => Balanced(received'[c], queue'[c], outbound', due, book)
    /\ ~Linked(c) => Balance(received'[c], book) + Balance(queue'[c], book)
                       = Balance(received[c], book) + Balance(queue[c], book)

LEMMA CarriedQuiet ==
  ASSUME NEW c \in Conn, NEW book, NEW due, Fair(c, due, book),
         \/ writer'[c] # "running"
         \/ /\ writer'[c] = writer[c] /\ outbound' = outbound
            /\ received'[c] = received[c] /\ queue'[c] = queue[c]
  PROVE  Carried(c, due, book)
BY DEF Carried, Fair

LEMMA CarriedRefuse ==
  ASSUME RoadInv, NEW c \in Conn, NEW book, Ledger(c, book), NEW due, Fair(c, due, book),
         NEW e \in Conn, Refuse(e)
  PROVE  Carried(c, due, book)
<1>1. TypeOK /\ queue[c] \in Seq(Bounded) /\ received[c] \in Seq(Bounded)
  BY DEF RoadInv, TypeInv, InBounds
<1>2. outbound' = outbound /\ received' = received /\ writer' = writer
  BY DEF Refuse
<1>3. CASE queue'[c] = queue[c]
  BY <1>2, <1>3, CarriedQuiet
<1>4. CASE queue'[c] # queue[c]
  <2>1. PICK m : m = [kind |-> "overloaded", conn |-> c, id |-> Len(sent[c])]
    OBVIOUS
  <2>2. queue'[c] = Append(queue[c], m)
    BY <1>1, <1>4, <2>1 DEF Refuse, TypeOK
  <2>3. Value(m, book) = 0 /\ book.worth \in Nat
    <3>1. m.kind = "overloaded"
      BY <2>1
    <3> QED
      BY <3>1, ValueZero DEF Ledger
  <2>4. SUFFICES ASSUME writer[c] = "running"
                 PROVE  /\ Steady(queue'[c], Balance(received[c], book), book)
                        /\ Linked(c) => Balanced(received[c], queue'[c], outbound, due, book)
                        /\ Balance(queue'[c], book) = Balance(queue[c], book)
    BY <1>2 DEF Carried
  <2>5. PICK r, q \in Int : r = Balance(received[c], book) /\ q = Balance(queue[c], book)
    BY <1>1, <2>3, BalanceType
  <2>6. Balance(queue'[c], book) = q
    BY <1>1, <2>2, <2>3, <2>5, BalanceAppend
  <2>7. Steady(queue[c], r, book)
    BY <2>4, <2>5 DEF Fair
  <2>8. r + q + 0 \in book.range
    BY <1>1, <2>3, <2>5, <2>7, SteadyEnds
  <2>9. Steady(queue'[c], r, book)
    BY <1>1, <2>2, <2>3, <2>5, <2>7, <2>8, SteadyAppend
  <2>10. ASSUME Linked(c)
         PROVE  Balanced(received[c], queue'[c], outbound, due, book)
    <3>1. Balanced(received[c], queue[c], outbound, due, book)
      BY <2>10 DEF Fair
    <3> QED
      BY <1>1, <2>2, <2>3, <3>1, BalancedRefuse
  <2> QED
    BY <2>5, <2>6, <2>9, <2>10
<1> QED
  BY <1>3, <1>4

LEMMA CarriedWrite ==
  ASSUME RoadInv, NEW c \in Conn, NEW book, Ledger(c, book), NEW due \in Int,
         Fair(c, due, book), NEW e \in Conn, Write(e)
  PROVE  Carried(c, due, book)
<1>1. TypeOK /\ queue[c] \in Seq(Bounded) /\ received[c] \in Seq(Bounded)
  BY DEF RoadInv, TypeInv, InBounds
<1>2. outbound' = outbound /\ writer' = writer
  BY DEF Write
<1>3. CASE e # c
  <2>1. queue'[c] = queue[c] /\ received'[c] = received[c]
    BY <1>1, <1>3 DEF Write, TypeOK
  <2> QED
    BY <1>2, <2>1, CarriedQuiet
<1>4. CASE e = c
  <2>1. /\ queue[c] # << >> /\ queue'[c] = Tail(queue[c])
        /\ received'[c] = Append(received[c], Head(queue[c])) /\ writer[c] = "running"
    BY <1>1, <1>4 DEF Write, TypeOK
  <2>2. book.worth \in Nat
    BY DEF Ledger
  <2>3. Tail(queue[c]) \in Seq(Bounded)
    BY <1>1, <2>1
  <2>4. PICK r, q, v \in Int : /\ r = Balance(received[c], book)
                               /\ q = Balance(Tail(queue[c]), book)
                               /\ v = Value(Head(queue[c]), book)
    BY <1>1, <2>2, <2>3, BalanceType, ValueType
  <2>5. Balance(received'[c], book) = r + v
    BY <1>1, <2>1, <2>2, <2>4, BalanceAppend
  <2>6. Balance(queue[c], book) = v + q
    BY <1>1, <2>1, <2>2, <2>4, BalanceTail
  <2>7. Steady(queue'[c], r + v, book)
    <3>1. Steady(queue[c], r, book)
      BY <2>1, <2>4 DEF Fair
    <3> QED
      BY <1>1, <2>1, <2>2, <2>4, <3>1, SteadyTail
  <2>8. ASSUME Linked(c)
        PROVE  Balanced(received'[c], queue'[c], outbound, due, book)
    <3>1. Balanced(received[c], queue[c], outbound, due, book)
      BY <2>8 DEF Fair
    <3>2. Balanced(Append(received[c], Head(queue[c])), Tail(queue[c]), outbound, due, book)
      BY <1>1, <2>1, <2>2, <3>1, BalancedWrite
    <3> QED
      BY <2>1, <3>2
  <2>9. (r + v) + q = r + (v + q)
    OBVIOUS
  <2> QED
    BY <1>2, <2>1, <2>4, <2>5, <2>6, <2>7, <2>8, <2>9 DEF Carried
<1> QED
  BY <1>3, <1>4

LEMMA CarriedSend ==
  ASSUME RoadInv, NEW c \in Conn, NEW book, Ledger(c, book), NEW due \in Int,
         Fair(c, due, book), NEW m, outbound' = Append(outbound, m),
         UNCHANGED writerVars, due + Value(m, book) \in book.range
  PROVE  Carried(c, due + Value(m, book), book)
<1>1. /\ queue[c] \in Seq(Bounded) /\ received[c] \in Seq(Bounded)
      /\ outbound \in Seq(Bounded)
  BY DEF RoadInv, TypeInv, InBounds
<1>2. queue' = queue /\ received' = received /\ writer' = writer
  BY DEF writerVars
<1>3. book.worth \in Nat
  BY DEF Ledger
<1>4. ASSUME Linked(c)
      PROVE  Balanced(received[c], queue[c], Append(outbound, m), due + Value(m, book), book)
  <2>1. Balanced(received[c], queue[c], outbound, due, book)
    BY <1>4 DEF Fair
  <2> QED
    BY <1>1, <1>3, <2>1, BalancedSend
<1> QED
  BY <1>2, <1>4 DEF Carried, Fair

\* No envelope for a connection is dropped while its "opened" is still to be routed.
LEMMA NoneDropped ==
  ASSUME RoadInv, AllOpened, NEW c \in Conn, RouteEnvelope, Linked(c),
         Head(outbound).conn = c
  PROVE  c \in routes
<1> SUFFICES ASSUME c \notin routes PROVE FALSE
  OBVIOUS
<1>1. /\ OpenedOf(c) /\ outbound \in Seq(Bounded) /\ outbound # << >>
      /\ Head(outbound).kind \in {"ok", "refused", "initialized", "started", "event"}
  BY DEF AllOpened, RoadInv, InBounds, RouteEnvelope, NextOutbound
<1>2. 0 \in R(outbound, c) \/ 0 \in R(todo, c) \/ 0 \in R(events, c)
  BY DEF Linked, Ahead
<1>3. 0 \in R(outbound, c)
  <2>1. Foreign(outbound, c) => Head(outbound).conn # c
    BY <1>1, ForeignSteps
  <2> QED
    BY <1>1, <1>2, <2>1 DEF OpenedOf, Unheard
<1>4. Led(outbound, c)
  BY <1>1, <1>3 DEF OpenedOf
<1>5. Signal("opened", c).kind = "opened"
  BY SignalType
<1> QED
  BY <1>1, <1>4, <1>5, LedSteps

LEMMA CarriedRoute ==
  ASSUME RoadInv, AllOpened, NEW c \in Conn, NEW book, Ledger(c, book), NEW due \in Int,
         Fair(c, due, book), RouteOpened \/ RouteClosed \/ RouteEnvelope
  PROVE  Carried(c, due, book)
<1>1. /\ TypeOK /\ queue[c] \in Seq(Bounded) /\ received[c] \in Seq(Bounded)
      /\ outbound \in Seq(Bounded) /\ outbound # << >> /\ book.worth \in Nat
  BY DEF RoadInv, TypeInv, InBounds, RouteOpened, RouteClosed, RouteEnvelope, NextOutbound,
         Ledger
<1>2. PICK m : m = Head(outbound)
  OBVIOUS
<1>3. outbound' = Tail(outbound) /\ received' = received /\ writer' = writer
  BY DEF RouteOpened, RouteClosed, RouteEnvelope, NextOutbound
<1>4. SUFFICES ASSUME writer[c] = "running"
               PROVE  Carried(c, due, book)
  BY <1>3 DEF Carried
<1>5. Steady(queue[c], Balance(received[c], book), book)
  BY <1>4 DEF Fair
<1>6. ASSUME queue'[c] = queue[c], Linked(c) => Value(m, book) = 0
      PROVE  Carried(c, due, book)
  <2>1. ASSUME Linked(c)
        PROVE  Balanced(received[c], queue[c], Tail(outbound), due, book)
    <3>1. Balanced(received[c], queue[c], outbound, due, book) /\ Value(m, book) = 0
      BY <1>6, <2>1 DEF Fair
    <3> QED
      BY <1>1, <1>2, <3>1, BalancedDrop
  <2> QED
    BY <1>3, <1>4, <1>5, <1>6, <2>1 DEF Carried
<1>7. m.conn # c \/ m.kind \in {"opened", "closed"} => Value(m, book) = 0
  BY <1>1, ValueZero DEF Ledger
<1>8. CASE RouteOpened \/ RouteClosed
  <2>1. queue'[c] = queue[c] /\ m.kind \in {"opened", "closed"}
    BY <1>2, <1>8 DEF RouteOpened, RouteClosed, NextOutbound
  <2> QED
    BY <1>6, <1>7, <2>1
<1>9. CASE RouteEnvelope /\ m.conn # c
  <2>1. queue'[c] = queue[c]
    BY <1>1, <1>2, <1>9 DEF RouteEnvelope, TypeOK
  <2> QED
    BY <1>6, <1>7, <1>9, <2>1
<1>10. CASE RouteEnvelope /\ m.conn = c
  <2>1. CASE c \notin routes
    <3>1. ~Linked(c)
      BY <1>2, <1>10, <2>1, NoneDropped
    <3>2. queue'[c] = queue[c]
      BY <1>2, <1>10, <2>1 DEF RouteEnvelope
    <3> QED
      BY <1>6, <3>1, <3>2
  <2>2. CASE c \in routes
    <3>1. queue'[c] = Append(queue[c], m) /\ Linked(c)
      BY <1>1, <1>2, <1>4, <1>10, <2>2 DEF RouteEnvelope, WriterGone, Linked, TypeOK
    <3>2. Balanced(received[c], queue[c], outbound, due, book)
      BY <3>1 DEF Fair
    <3>3. Balanced(received[c], Append(queue[c], m), Tail(outbound), due, book)
      BY <1>1, <1>2, <3>2, BalancedRoute
    <3> QED
      BY <1>3, <1>4, <3>1, <3>3 DEF Carried, Balanced
  <2> QED
    BY <2>1, <2>2
<1> QED
  BY <1>8, <1>9, <1>10

\* When no answer is on the way and nothing is half sent, the client has been told
\* in full, or will be by what is queued.
LEMMA QuietEnd ==
  ASSUME NEW c \in Conn, NEW rec \in Seq(Bounded), NEW que \in Seq(Bounded),
         NEW out \in Seq(Bounded), NEW rest \in Seq(Bounded), NEW book,
         book.worth = 1, book.range = 0..1,
         \A m \in book.minus : m.kind = "ok" /\ m.conn = c,
         R(out, c) = {}, R(rest, c) = {}, 0 - Balance(rest, book) \in 0..1,
         Balanced(rec, que, out, 0 - Balance(rest, book), book)
  PROVE  Balance(rec, book) + Balance(que, book) = 0
<1>1. ASSUME NEW s \in Seq(Bounded), R(s, c) = {}
      PROVE  Balance(s, book) \in Nat
  <2>1. Where(s, book.minus) = {}
    BY <1>1 DEF Where, R, Ranks, Of, Tracked
  <2>2. Count(s, book.minus) = 0 /\ Count(s, book.plus) \in Nat
    BY <2>1, FS_EmptySet, WhereFinite DEF Count
  <2> QED
    BY <2>2 DEF Balance
<1>2. PICK o, t \in Nat : o = Balance(out, book) /\ t = Balance(rest, book)
  BY <1>1
<1>3. PICK r, q \in Int : r = Balance(rec, book) /\ q = Balance(que, book)
  BY BalanceType
<1>4. t = 0 /\ r + q + o = 0
  <2>1. 0 - t \in 0..1
    BY <1>2
  <2>2. r + q + o = 0 - t
    BY <1>2, <1>3 DEF Balanced
  <2> QED
    BY <2>1, <2>2
<1>5. r + q \in 0..1
  <2>1. PICK b \in Int : b = r + q
    OBVIOUS
  <2>2. Steady(out, b, book)
    BY <1>3, <2>1 DEF Balanced
  <2> QED
    BY <2>1, <2>2, SteadyEnds
<1> QED
  BY <1>2, <1>3, <1>4, <1>5

LEMMA InOrderKept ==
  ASSUME RoadInv, RoadInv', events \in Seq(Asked), [Next]_vars, NEW c \in Conn, BooksOf(c),
         writer[c] = "none" => writer'[c] # "running",
         \A book \in Pairs(c) : Ready(book)' /\ Carried(c, 0 - Balance(todo', book), book),
         Carried(c, chatter'[c], Telling(c))
  PROVE  /\ \A book \in Pairs(c) : InOrder(c, book)'
         /\ Fair(c, chatter[c], Telling(c))'
<1>1. /\ Linked(c)' => Linked(c)
      /\ writer'[c] = "running" => writer[c] = "running"
  BY LinkedBefore
<1>2. /\ queue'[c] \in Seq(Bounded) /\ received'[c] \in Seq(Bounded)
      /\ outbound' \in Seq(Bounded) /\ todo' \in Seq(Bounded)
  BY DEF RoadInv, InBounds
<1>3. Linked(c)' => writer'[c] = "running"
  BY DEF Linked
<1>4. ASSUME NEW book \in Pairs(c)
      PROVE  Fair(c, 0 - Balance(todo, book), book)'
  BY <1>1, <1>3 DEF Carried, Fair
<1>5. ASSUME NEW book \in Pairs(c)
      PROVE  Settled(c, book)'
  <2> SUFFICES ASSUME writer'[c] = "running", ~Linked(c)'
               PROVE  Balance(received'[c], book) + Balance(queue'[c], book) = 0
    BY DEF Settled
  <2>1. CASE ~Linked(c)
    BY <1>1, <2>1 DEF Carried, BooksOf, InOrder, Settled
  <2>2. CASE Linked(c)
    <3>1. Balanced(received'[c], queue'[c], outbound', 0 - Balance(todo', book), book)
      BY <2>2 DEF Carried
    <3>2. 0 - Balance(todo', book) \in 0..1
      BY DEF Ready
    <3>3. Ahead(c)' = {}
      <4>1. RoadInv /\ c \in Conn /\ writer[c] = "running" /\ ~Linked(c) => Ahead(c) = {}
        BY Unlinked
      <4>2. (RoadInv /\ c \in Conn /\ writer[c] = "running" /\ ~Linked(c) => Ahead(c) = {})'
        BY <4>1, Unlinked, PTL
      <4> QED
        BY <4>2
    <3>4. R(outbound', c) = {} /\ R(todo', c) = {}
      <4>1. R(outbound, c)' = R(outbound', c) /\ R(todo, c)' = R(todo', c)
        BY DEF R, Ranks, Of, Rank, Last
      <4> QED
        BY <3>3, <4>1 DEF Ahead
    <3>5. /\ book.worth = 1 /\ book.range = 0..1
          /\ \A m \in book.minus : m.kind = "ok" /\ m.conn = c
      BY PairsAre
    <3> DEFINE rec == received'[c] que == queue'[c] out == outbound' rest == todo'
    <3>6. Balance(rec, book) + Balance(que, book) = 0
      <4>1. /\ rec \in Seq(Bounded) /\ que \in Seq(Bounded)
            /\ out \in Seq(Bounded) /\ rest \in Seq(Bounded)
        BY <1>2
      <4>2. /\ R(out, c) = {} /\ R(rest, c) = {} /\ 0 - Balance(rest, book) \in 0..1
            /\ Balanced(rec, que, out, 0 - Balance(rest, book), book)
        BY <3>1, <3>2, <3>4
      <4> HIDE DEF rec, que, out, rest
      <4> QED
        BY <3>5, <4>1, <4>2, QuietEnd
    <3> QED
      BY <3>6
  <2> QED
    BY <2>1, <2>2
<1>6. Fair(c, chatter[c], Telling(c))'
  <2>1. Telling(c)' = Telling(c)
    BY DEF Telling
  <2> QED
    BY <1>1, <1>3, <2>1 DEF Carried, Fair
<1> QED
  BY <1>4, <1>5, <1>6 DEF InOrder

LEMMA BooksKept ==
  ASSUME RoadInv, RoadInv', events \in Seq(Asked), [Next]_vars, NEW c \in Conn, BooksOf(c),
         sent' = sent, writer[c] = "none" => writer'[c] # "running",
         \A book \in Pairs(c) : Ready(book)' /\ Carried(c, 0 - Balance(todo', book), book),
         Carried(c, chatter'[c], Telling(c))
  PROVE  BooksOf(c)'
<1>1. Pairs(c)' = Pairs(c)
  BY DEF Pairs, Initializing, Starting, Done, Message, Request, Control, Outgoing
<1>2. /\ \A book \in Pairs(c) : InOrder(c, book)'
      /\ Fair(c, chatter[c], Telling(c))'
  BY InOrderKept
<1> QED
  BY <1>1, <1>2 DEF BooksOf

\* Steps that leave the processor's part alone.
LEMMA BooksCarried ==
  ASSUME RoadInv, RoadInv', events \in Seq(Asked), [Next]_vars, NEW c \in Conn, BooksOf(c),
         sent' = sent, todo' = todo, chatter'[c] = chatter[c],
         writer[c] = "none" => writer'[c] # "running",
         \A book, due : due \in Int /\ Ledger(c, book) /\ Fair(c, due, book) =>
           Carried(c, due, book)
  PROVE  BooksOf(c)'
<1>1. ASSUME NEW book \in Pairs(c)
      PROVE  Ready(book)' /\ Carried(c, 0 - Balance(todo', book), book)
  <2>1. Ready(book) /\ Fair(c, 0 - Balance(todo, book), book)
    BY DEF BooksOf, InOrder
  <2>2. 0 - Balance(todo, book) \in Int /\ Ledger(c, book)
    BY <2>1, PairsAre DEF Ready
  <2>3. Carried(c, 0 - Balance(todo, book), book)
    BY <2>1, <2>2
  <2> QED
    BY <2>1, <2>3 DEF Ready
<1>2. Carried(c, chatter'[c], Telling(c))
  <2>1. chatter[c] \in Int
    BY DEF RoadInv, TypeInv, TypeOK
  <2> QED
    BY <2>1, TellingIs DEF BooksOf
<1> QED
  BY <1>1, <1>2, BooksKept

\* Asking changes which request an answer is about for no answer there is.
LEMMA ForwardBooks ==
  ASSUME RoadInv, RoadInv', events \in Seq(Asked), Truthful, [Next]_vars,
         NEW c \in Conn, BooksOf(c),
         NEW e \in Conn, NEW method \in Method, Forward(e, method)
  PROVE  BooksOf(c)'
<1>1. /\ UNCHANGED <<todo, chatter, outbound, queue, received, writer>>
      /\ TypeOK
  BY DEF Forward, processorVars, writerVars, RoadInv, TypeInv
<1>2. ASSUME NEW book \in Pairs(c)
      PROVE  Ready(book)' /\ Carried(c, 0 - Balance(todo', book), book)
  <2>1. Ready(book) /\ Fair(c, 0 - Balance(todo, book), book)
    BY DEF BooksOf, InOrder
  <2>2. Carried(c, 0 - Balance(todo, book), book)
    BY <1>1, <2>1, CarriedQuiet
  <2> QED
    BY <1>1, <2>1, <2>2 DEF Ready
<1>3. Carried(c, chatter'[c], Telling(c))
  BY <1>1, CarriedQuiet DEF BooksOf
<1>4. writer[c] = "none" => writer'[c] # "running"
  BY <1>1
<1>5. /\ \A book \in Pairs(c) : InOrder(c, book)'
      /\ Fair(c, chatter[c], Telling(c))'
  BY <1>2, <1>3, <1>4, InOrderKept
<1>6. /\ todo' \in Seq(Truth) /\ outbound' \in Seq(Truth)
      /\ queue'[c] \in Seq(Truth) /\ received'[c] \in Seq(Truth)
  BY <1>1 DEF Truthful
<1>7. \A kind : \A m \in Truth : m \in Done(c, kind) <=> m \in Done(c, kind)'
  <2>1. \A n \in DOMAIN sent[c] : n \in DOMAIN sent'[c] /\ sent'[c][n] = sent[c][n]
    BY <1>1, ForwardSends
  <2>2. \A m \in Truth : m \in Message /\ (m.kind = "ok" /\ m.conn = c => m.id \in DOMAIN sent[c])
    BY DEF Truth, AnswerKind
  <2>3. \A m : m \in Message <=> m \in Message'
    BY DEF Message, Request, Control, Outgoing
  <2> QED
    BY <2>1, <2>2, <2>3 DEF Done
<1>8. ASSUME NEW book \in Pairs(c)'
      PROVE  InOrder(c, book)'
  <2>1. PICK old \in Pairs(c) :
          /\ old.worth = book.worth /\ old.range = book.range
          /\ \A m \in Truth : /\ m \in old.plus <=> m \in book.plus
                              /\ m \in old.minus <=> m \in book.minus
    BY <1>7 DEF Pairs, Initializing, Starting
  <2>2. PICK T : T = Truth
    OBVIOUS
  <2>3. \A channel \in Seq(T) :
          /\ Balance(channel, old) = Balance(channel, book)
          /\ \A base : Steady(channel, base, old) <=> Steady(channel, base, book)
    BY <2>1, <2>2, SameBook
  <2>4. todo' # << >> => Tail(todo') \in Seq(T)
    BY <1>6, <2>2
  <2>5. InOrder(c, old)'
    BY <1>5
  <2>6. Ready(old)' /\ Fair(c, 0 - Balance(todo, old), old)' /\ Settled(c, old)'
    BY <2>5 DEF InOrder
  <2>7. Ready(book)'
    BY <1>6, <2>2, <2>3, <2>4, <2>6 DEF Ready
  <2>8. Fair(c, 0 - Balance(todo, book), book)'
    BY <1>6, <2>2, <2>3, <2>6 DEF Fair, Balanced
  <2>9. Settled(c, book)'
    BY <1>6, <2>2, <2>3, <2>6 DEF Settled
  <2> QED
    BY <2>7, <2>8, <2>9 DEF InOrder
<1> QED
  BY <1>5, <1>8 DEF BooksOf

\* When its writer starts, nothing has been said to the connection.
LEMMA OpenBooks ==
  ASSUME RoadInv, AllOpened, NEW c \in Conn, BooksOf(c), Open(c)
  PROVE  BooksOf(c)'
<1>1. /\ UNCHANGED <<sent, todo, chatter, outbound, queue, received>>
      /\ reader[c] = "opening"
  BY DEF Open, processorVars
<1>2. /\ outbound \in Seq(Bounded) /\ todo \in Seq(Bounded) /\ LifeOf(c) /\ OpenedOf(c)
  BY DEF RoadInv, InBounds, Roads, AllOpened
<1>3. /\ queue[c] = << >> /\ received[c] = << >> /\ chatter[c] = 0
      /\ Foreign(outbound, c) /\ Foreign(todo, c)
  BY <1>1, <1>2 DEF LifeOf, OpenedOf, Unheard
<1>4. ASSUME NEW book, Ledger(c, book)
      PROVE  /\ Fair(c, 0, book)' /\ Settled(c, book)'
             /\ Balance(todo, book) = 0
  <2>1. /\ Balance(outbound, book) = 0 /\ Steady(outbound, 0, book)
        /\ Balance(todo, book) = 0
    BY <1>2, <1>3, <1>4, ForeignBalance
  <2>2. Balance(<< >>, book) = 0 /\ Steady(<< >>, 0, book)
    BY <1>4, BalanceFew, SteadyEmpty DEF Ledger
  <2>3. Balanced(<< >>, << >>, outbound, 0, book)
    BY <2>1, <2>2 DEF Balanced
  <2> QED
    BY <1>1, <1>3, <2>1, <2>2, <2>3 DEF Fair, Settled
<1>5. Pairs(c)' = Pairs(c) /\ Telling(c)' = Telling(c)
  BY <1>1 DEF Pairs, Initializing, Starting, Telling, Done, Message, Request, Control, Outgoing
<1>6. ASSUME NEW book \in Pairs(c)
      PROVE  InOrder(c, book)'
  <2>1. Ledger(c, book) /\ Ready(book)
    BY PairsAre DEF BooksOf, InOrder
  <2>2. Fair(c, 0, book)' /\ Settled(c, book)' /\ Balance(todo', book) = 0
    BY <1>1, <1>4, <2>1
  <2>3. Fair(c, 0 - Balance(todo, book), book)'
    BY <2>2 DEF Fair
  <2> QED
    BY <1>1, <2>1, <2>2, <2>3 DEF InOrder, Ready
<1>7. Fair(c, chatter[c], Telling(c))'
  <2>1. PICK book : book = Telling(c)
    OBVIOUS
  <2>2. Fair(c, 0, book)'
    BY <1>4, <2>1, TellingIs
  <2> QED
    BY <1>1, <1>3, <1>5, <2>1, <2>2 DEF Fair
<1> QED
  BY <1>5, <1>6, <1>7 DEF BooksOf

\* What an event makes the processor send is in balance, and so is its last message.
LEMMA TakeReady ==
  ASSUME RoadInv, events \in Seq(Asked), NEW c \in Conn, NEW book \in Pairs(c),
         OpenConnection \/ CloseConnection \/ ProcessMessage
  PROVE  Ready(book)' /\ Balance(todo', book) = 0 /\ Balance(todo, book) = 0
<1>1. PICK h : h = Head(events)
  OBVIOUS
<1>2. PICK ok, refused, begun, started :
        /\ ok = Answer("ok") /\ refused = Answer("refused")
        /\ begun = Signal("initialized", h.conn) /\ started = Signal("started", h.conn)
  OBVIOUS
<1>3. /\ h.conn \in Conn
      /\ h.kind \in Method => h \in Request /\ sent[h.conn][h.id] = h.kind
                              /\ h.id \in DOMAIN sent[h.conn]
      /\ \/ h \in Control /\ todo' = <<h>>
         \/ h.kind = "notice" /\ todo' = << >>
         \/ h.kind = "initialize" /\ todo' = <<begun, ok>>
         \/ h.kind = "turn" /\ todo' = <<started, ok>>
         \/ h.kind = "call" /\ todo' = <<ok>>
         \/ h.kind \in {"call", "turn"} /\ todo' = <<refused>>
  BY <1>1, <1>2, TodoIs DEF RoadInv, TypeInv
<1>4. h.kind \in {"initialize", "call", "turn"} => h.kind \in Method
  <2>1. h.kind \in Tracked
    BY <1>1, EventsOnlyOpen DEF RoadInv, TypeInv, OpenConnection, CloseConnection, ProcessMessage
  <2> QED
    BY <2>1 DEF Tracked
<1>5. h \in Request =>
        /\ ok \in Message /\ ok.kind = "ok" /\ ok.conn = h.conn /\ ok.id = h.id
        /\ refused.kind = "refused"
  BY <1>1, <1>2, AnswerType DEF Answer, Message
<1>6. /\ begun.kind = "initialized" /\ begun.conn = h.conn
      /\ started.kind = "started" /\ started.conn = h.conn
  BY <1>2, <1>3, SignalType
<1>7. /\ book.worth = 1 /\ Ledger(c, book)
      /\ \A m : m.kind \notin {"ok", "initialized", "started", "event"} => Value(m, book) = 0
  <2>1. book.worth = 1 /\ Ledger(c, book)
    BY PairsAre
  <2> QED
    BY <2>1, ValueZero DEF Ledger
<1>8. /\ Balance(<< >>, book) = 0
      /\ \A m : Balance(<<m>>, book) = Value(m, book)
      /\ \A m, n : Balance(<<m, n>>, book) = Value(m, book) + Value(n, book)
  BY <1>7, BalanceFew
<1>9. ASSUME NEW m, NEW n, todo' = <<m, n>>, Value(m, book) + Value(n, book) = 0,
             Value(n, book) \in {-1, 0}
      PROVE  Ready(book)' /\ Balance(todo', book) = 0
  <2>1. Tail(todo') = <<n>> /\ todo' # << >>
    BY <1>9
  <2> QED
    BY <1>8, <1>9, <2>1 DEF Ready
<1>10. ASSUME NEW m, todo' = <<m>>, Value(m, book) = 0
       PROVE  Ready(book)' /\ Balance(todo', book) = 0
  <2>1. Tail(todo') = << >> /\ todo' # << >>
    BY <1>10
  <2> QED
    BY <1>8, <1>10, <2>1 DEF Ready
<1>11. ASSUME h.kind = "initialize"
       PROVE  /\ Value(begun, book) + Value(ok, book) = 0
              /\ Value(ok, book) \in {-1, 0}
  <2>1. /\ h \in Request /\ sent[h.conn][h.id] = "initialize" /\ h.id \in DOMAIN sent[h.conn]
    BY <1>3, <1>4, <1>11
  <2>2. CASE book = Initializing(c) /\ h.conn = c
    <3>1. begun \in book.plus /\ begun \notin book.minus
      BY <1>2, <1>6, <2>2 DEF Initializing, Done
    <3>2. ok \in book.minus /\ ok \notin book.plus
      BY <1>2, <1>5, <1>6, <2>1, <2>2, SignalType DEF Initializing, Done
    <3>3. Value(begun, book) = 1 /\ Value(ok, book) = -1
      BY <1>7, <3>1, <3>2 DEF Value, One
    <3> QED
      BY <3>3
  <2>3. CASE ~(book = Initializing(c) /\ h.conn = c)
    <3>1. begun \notin book.plus \cup book.minus
      BY <1>6, <2>3, SignalType DEF Pairs, Initializing, Starting, Done
    <3>2. ok \notin book.plus \cup book.minus
      BY <1>5, <2>1, <2>3, SignalType DEF Pairs, Initializing, Starting, Done
    <3>3. Value(begun, book) = 0 /\ Value(ok, book) = 0
      BY <1>7, <3>1, <3>2, ValueZero
    <3> QED
      BY <3>3
  <2> QED
    BY <2>2, <2>3
<1>12. ASSUME h.kind = "turn"
       PROVE  /\ Value(started, book) + Value(ok, book) = 0
              /\ Value(ok, book) \in {-1, 0}
  <2>1. /\ h \in Request /\ sent[h.conn][h.id] = "turn" /\ h.id \in DOMAIN sent[h.conn]
    BY <1>3, <1>4, <1>12
  <2>2. CASE book = Starting(c) /\ h.conn = c
    <3>1. started \in book.plus /\ started \notin book.minus
      BY <1>2, <1>6, <2>2 DEF Starting, Done
    <3>2. ok \in book.minus /\ ok \notin book.plus
      BY <1>2, <1>5, <1>6, <2>1, <2>2, SignalType DEF Starting, Done
    <3>3. Value(started, book) = 1 /\ Value(ok, book) = -1
      BY <1>7, <3>1, <3>2 DEF Value, One
    <3> QED
      BY <3>3
  <2>3. CASE ~(book = Starting(c) /\ h.conn = c)
    <3>1. started \notin book.plus \cup book.minus
      BY <1>6, <2>3, SignalType DEF Pairs, Initializing, Starting, Done
    <3>2. ok \notin book.plus \cup book.minus
      BY <1>5, <2>1, <2>3, SignalType DEF Pairs, Initializing, Starting, Done
    <3>3. Value(started, book) = 0 /\ Value(ok, book) = 0
      BY <1>7, <3>1, <3>2, ValueZero
    <3> QED
      BY <3>3
  <2> QED
    BY <2>2, <2>3
<1>13. ASSUME h.kind = "call"
       PROVE  Value(ok, book) = 0
  <2>1. /\ h \in Request /\ sent[h.conn][h.id] = "call"
    BY <1>3, <1>4, <1>13
  <2>2. ok \notin book.plus \cup book.minus
    BY <1>5, <2>1, SignalType DEF Pairs, Initializing, Starting, Done
  <2> QED
    BY <1>7, <2>2, ValueZero
<1>14. Balance(todo, book) = 0
  <2>1. todo = << >>
    BY DEF OpenConnection, CloseConnection, ProcessMessage, NextEvent, Sent
  <2> QED
    BY <1>8, <2>1
<1>15. CASE h \in Control /\ todo' = <<h>>
  <2>1. Value(h, book) = 0
    BY <1>7, <1>15 DEF Control
  <2> QED
    BY <1>10, <1>14, <1>15, <2>1
<1>16. CASE todo' = << >>
  BY <1>8, <1>14, <1>16 DEF Ready
<1>17. CASE h.kind \in {"call", "turn"} /\ todo' = <<refused>>
  <2>1. Value(refused, book) = 0
    BY <1>3, <1>4, <1>5, <1>7, <1>17
  <2> QED
    BY <1>10, <1>14, <1>17, <2>1
<1> QED
  BY <1>3, <1>9, <1>10, <1>11, <1>12, <1>13, <1>14, <1>15, <1>16, <1>17

LEMMA TakeBooks ==
  ASSUME RoadInv, RoadInv', events \in Seq(Asked), [Next]_vars, NEW c \in Conn, BooksOf(c),
         OpenConnection \/ CloseConnection \/ ProcessMessage
  PROVE  BooksOf(c)'
<1>1. UNCHANGED <<sent, chatter, outbound, queue, received, writer>>
  BY DEF OpenConnection, CloseConnection, ProcessMessage, NextEvent, readerVars, writerVars
<1>2. ASSUME NEW book \in Pairs(c)
      PROVE  Ready(book)' /\ Carried(c, 0 - Balance(todo', book), book)
  <2>1. Fair(c, 0 - Balance(todo, book), book)
    BY DEF BooksOf, InOrder
  <2>2. Ready(book)' /\ Balance(todo', book) = 0 /\ Balance(todo, book) = 0
    BY TakeReady
  <2>3. Carried(c, 0 - Balance(todo, book), book)
    BY <1>1, <2>1, CarriedQuiet
  <2> QED
    BY <2>2, <2>3
<1>3. Carried(c, chatter'[c], Telling(c))
  BY <1>1, CarriedQuiet DEF BooksOf
<1> QED
  BY <1>1, <1>2, <1>3, BooksKept

LEMMA SendBooks ==
  ASSUME RoadInv, RoadInv', events \in Seq(Asked), [Next]_vars, NoEvent(todo),
         NEW c \in Conn, BooksOf(c), SendOutbound
  PROVE  BooksOf(c)'
<1>1. PICK m : m = Head(todo)
  OBVIOUS
<1>2. /\ todo # << >> /\ todo' = Tail(todo) /\ outbound' = Append(outbound, m)
      /\ sent' = sent /\ UNCHANGED writerVars /\ writer' = writer
      /\ chatter' = IF m.kind = "started"
                    THEN [chatter EXCEPT ![m.conn] = @ + Chatter] ELSE chatter
      /\ TypeOK /\ todo \in Seq(Bounded)
  BY <1>1 DEF SendOutbound, readerVars, writerVars, RoadInv, TypeInv, InBounds
<1>3. /\ m \in Bounded /\ m.kind # "event"
  <2>1. m = todo[1] /\ 1 \in DOMAIN todo
    BY <1>1, <1>2
  <2> QED
    BY <1>2, <2>1 DEF NoEvent
<1>4. ASSUME NEW book \in Pairs(c)
      PROVE  Ready(book)' /\ Carried(c, 0 - Balance(todo', book), book)
  <2>1. Ready(book) /\ Fair(c, 0 - Balance(todo, book), book)
    BY DEF BooksOf, InOrder
  <2>2. Ledger(c, book) /\ book.worth \in Nat /\ book.range = 0..1
    BY PairsAre DEF Ledger
  <2>3. PICK b, v, t \in Int : /\ b = Balance(todo, book) /\ v = Value(m, book)
                               /\ t = Balance(Tail(todo), book)
    <3>1. Tail(todo) \in Seq(Bounded)
      BY <1>2
    <3> QED
      BY <1>2, <2>2, <3>1, BalanceType, ValueType
  <2>4. b = v + t
    BY <1>1, <1>2, <2>2, <2>3, BalanceTail
  <2>5. 0 - b + v = 0 - t /\ 0 - b \in Int
    BY <2>4
  <2>6. 0 - t \in 0..1
    BY <1>2, <2>1, <2>3 DEF Ready
  <2>7. Carried(c, (0 - b) + v, book)
    BY <1>2, <2>1, <2>2, <2>3, <2>5, <2>6, CarriedSend
  <2>8. Carried(c, 0 - Balance(todo', book), book)
    BY <1>2, <2>3, <2>5, <2>7
  <2>9. Ready(book)'
    <3>1. Tail(todo) # << >> => Tail(Tail(todo)) = << >>
      <4>1. Len(todo) <= 2
        BY <1>2 DEF TypeOK
      <4>2. todo \in Seq(Bounded) /\ todo # << >>
        BY <1>2
      <4> QED
        BY <4>1, <4>2
    <3>2. Balance(<< >>, book) = 0
      BY <2>2, BalanceFew
    <3>3. 0 - Balance(todo', book) \in 0..1
      BY <1>2, <2>3, <2>6
    <3>4. ASSUME todo' # << >>
          PROVE  0 - Balance(Tail(todo'), book) \in 0..1
      <4>1. Tail(todo') = << >>
        BY <1>2, <3>1, <3>4
      <4>2. Balance(Tail(todo'), book) = 0
        BY <3>2, <4>1
      <4> QED
        BY <4>2
    <3> QED
      BY <3>3, <3>4 DEF Ready
  <2> QED
    BY <2>8, <2>9
<1>5. Carried(c, chatter'[c], Telling(c))
  <2>1. PICK book : book = Telling(c)
    OBVIOUS
  <2>2. PICK n \in Nat : n = chatter[c]
    BY <1>2 DEF TypeOK
  <2>3. Fair(c, n, book) /\ Ledger(c, book) /\ book.range = Nat
    BY <2>1, <2>2, TellingIs DEF BooksOf
  <2>4. chatter'[c] = n + Value(m, book) /\ n + Value(m, book) \in Nat
    <3>1. CASE m = Signal("started", c)
      <4>1. m.kind = "started" /\ m.conn = c /\ Value(m, book) = Chatter /\ Chatter \in Nat
        BY <2>1, <3>1, SignalType, TellingIs, SizeAssumption
      <4> QED
        BY <1>2, <2>2, <4>1 DEF TypeOK
    <3>2. CASE m # Signal("started", c)
      <4>1. m # Signal("event", c)
        BY <1>3, SignalType
      <4>2. Value(m, book) = 0
        BY <2>1, <3>2, <4>1, TellingIs
      <4>3. m.kind # "started" \/ m.conn # c
        <5> SUFFICES ASSUME m.kind = "started", m.conn = c PROVE m = Signal("started", c)
          BY <3>2
        <5>1. m \in Outgoing
          BY <1>3, MethodAssumption DEF Bounded, Message, Request, Control
        <5> QED
          BY <5>1 DEF Outgoing, Signal
      <4>4. chatter'[c] = n
        BY <1>2, <2>2, <4>3 DEF TypeOK
      <4> QED
        BY <4>2, <4>4
    <3> QED
      BY <3>1, <3>2
  <2>5. Carried(c, n + Value(m, book), book)
    BY <1>2, <2>3, <2>4, CarriedSend
  <2> QED
    BY <2>1, <2>4, <2>5
<1> QED
  BY <1>2, <1>4, <1>5, BooksKept

LEMMA NotifyBooks ==
  ASSUME RoadInv, RoadInv', events \in Seq(Asked), [Next]_vars, NEW c \in Conn, BooksOf(c),
         NEW e \in Conn, RunnerNotify(e)
  PROVE  BooksOf(c)'
<1>1. PICK m : m = Signal("event", e)
  OBVIOUS
<1>2. /\ outbound' = Append(outbound, m) /\ m.kind = "event"
      /\ sent' = sent /\ todo' = todo /\ UNCHANGED writerVars /\ writer' = writer
      /\ chatter' = [chatter EXCEPT ![e] = @ - 1] /\ chatter[e] > 0
      /\ TypeOK
  BY <1>1, SignalType DEF RunnerNotify, readerVars, writerVars, RoadInv, TypeInv
<1>3. ASSUME NEW book \in Pairs(c)
      PROVE  Ready(book)' /\ Carried(c, 0 - Balance(todo', book), book)
  <2>1. Ready(book) /\ Fair(c, 0 - Balance(todo, book), book)
    BY DEF BooksOf, InOrder
  <2>2. Ledger(c, book) /\ book.range = 0..1 /\ Value(m, book) = 0
    BY <1>2, PairsAre
  <2>3. PICK due \in 0..1 : due = 0 - Balance(todo, book)
    BY <2>1 DEF Ready
  <2>4. due + Value(m, book) = due
    BY <2>2
  <2>5. Carried(c, due + Value(m, book), book)
    BY <1>2, <2>1, <2>2, <2>3, <2>4, CarriedSend
  <2> QED
    BY <1>2, <2>1, <2>3, <2>4, <2>5 DEF Ready
<1>4. Carried(c, chatter'[c], Telling(c))
  <2>1. PICK book : book = Telling(c)
    OBVIOUS
  <2>2. PICK n \in Nat : n = chatter[c]
    BY <1>2 DEF TypeOK
  <2>3. Fair(c, n, book) /\ Ledger(c, book) /\ book.range = Nat
    BY <2>1, <2>2, TellingIs DEF BooksOf
  <2>4. chatter'[c] = n + Value(m, book) /\ n + Value(m, book) \in Nat
    <3>1. CASE e = c
      <4>1. Value(m, book) = -1
        BY <1>1, <2>1, <3>1, TellingIs
      <4>2. chatter'[c] = n - 1 /\ n > 0
        BY <1>2, <2>2, <3>1 DEF TypeOK
      <4> QED
        BY <4>1, <4>2
    <3>2. CASE e # c
      <4>1. m # Signal("event", c) /\ m # Signal("started", c)
        BY <1>1, <1>2, <3>2, SignalType
      <4>2. Value(m, book) = 0
        BY <2>1, <4>1, TellingIs
      <4>3. chatter'[c] = n
        BY <1>2, <2>2, <3>2 DEF TypeOK
      <4> QED
        BY <4>2, <4>3
    <3> QED
      BY <3>1, <3>2
  <2>5. Carried(c, n + Value(m, book), book)
    BY <1>2, <2>3, <2>4, CarriedSend
  <2> QED
    BY <2>1, <2>4, <2>5
<1> QED
  BY <1>2, <1>3, <1>4, BooksKept

LEMMA TodoTellsNoEvents ==
  ASSUME RoadInv, events \in Seq(Asked), NoEvent(todo), [Next]_vars
  PROVE  NoEvent(todo')
<1>1. TypeOK
  BY DEF RoadInv, TypeInv
<1>2. CASE todo' = todo
  BY <1>2
<1>3. CASE OpenConnection \/ CloseConnection \/ ProcessMessage
  <2>1. PICK h : h = Head(events)
    OBVIOUS
  <2>2. /\ \E kinds : NextEvent(kinds)
        /\ h.kind \in Method => h \in Request
        /\ h.conn \in Conn
        /\ \/ h \in Control /\ todo' = <<h>>
           \/ h.kind = "notice" /\ todo' = << >>
           \/ /\ h.kind = "initialize"
              /\ todo' = <<Signal("initialized", h.conn), Answer("ok")>>
           \/ h.kind = "turn" /\ todo' = <<Signal("started", h.conn), Answer("ok")>>
           \/ h.kind = "call" /\ todo' = <<Answer("ok")>>
           \/ h.kind \in {"call", "turn"} /\ todo' = <<Answer("refused")>>
    BY <1>1, <1>3, <2>1, TodoIs DEF OpenConnection, CloseConnection, ProcessMessage
  <2>3. h.kind \in {"initialize", "call", "turn"} => h \in Request
    <3>1. h.kind \in Tracked
      BY <1>1, <2>1, <2>2, EventsOnlyOpen
    <3> QED
      BY <2>2, <3>1 DEF Tracked
  <2>4. \A kind \in {"ok", "refused"} : h \in Request => Answer(kind).kind = kind
    BY <2>1, AnswerType DEF Answer
  <2>5. \A kind \in {"initialized", "started"} : Signal(kind, h.conn).kind = kind
    BY <2>2, SignalType
  <2>6. h \in Control => h.kind # "event"
    BY DEF Control
  <2> QED
    BY <2>2, <2>3, <2>4, <2>5, <2>6 DEF NoEvent
<1>4. CASE SendOutbound
  <2>1. /\ todo' = Tail(todo)
        /\ \A i \in DOMAIN Tail(todo) : i + 1 \in DOMAIN todo /\ Tail(todo)[i] = todo[i + 1]
    <3>1. todo # << >> /\ todo' = Tail(todo) /\ todo \in Seq(Outgoing \cup Control)
      BY <1>1, <1>4 DEF SendOutbound, TypeOK
    <3> QED
      BY <3>1
  <2> QED
    BY <2>1 DEF NoEvent
<1>5. todo' = todo \/ OpenConnection \/ CloseConnection \/ ProcessMessage \/ SendOutbound
  BY DEF Next, Processor, Router, Reader, Runners, Writer, Client, Accept, Open, Refuse, Close,
         HangUp, WriteFails, WriterEnds, StopWriting, Shutdown, Down, vars, RunnerNotify,
         Forward, RouteOpened, RouteClosed, RouteEnvelope, NextOutbound, Write, processorVars
<1> QED
  BY <1>2, <1>3, <1>4, <1>5

LEMMA StepBooks ==
  ASSUME RoadInv, RoadInv', events \in Seq(Asked), Truthful, AllOpened, Books, [Next]_vars
  PROVE  Books'
<1> SUFFICES ASSUME NEW c \in Conn PROVE BooksOf(c)'
  <2>1. NoEvent(todo')
    BY TodoTellsNoEvents DEF Books
  <2> QED
    BY <2>1 DEF Books, NoEvent
<1>1. /\ BooksOf(c) /\ NoEvent(todo) /\ TypeOK /\ TypeInv /\ LifeOf(c)
  BY DEF Books, RoadInv, TypeInv, Roads
<1>2. CASE Open(c)
  BY <1>1, <1>2, OpenBooks
<1>3. ASSUME NEW e \in Conn, e # c, Open(e)
      PROVE  BooksOf(c)'
  <2>1. /\ UNCHANGED <<sent, todo, chatter, outbound, queue, received>>
        /\ writer'[c] = writer[c]
    BY <1>1, <1>3 DEF Open, processorVars, TypeOK
  <2> QED
    BY <1>1, <2>1, BooksCarried, CarriedQuiet
<1>4. ASSUME NEW e \in Conn, NEW method \in Method, Forward(e, method)
      PROVE  BooksOf(c)'
  BY <1>1, <1>4, ForwardBooks
<1>5. ASSUME NEW e \in Conn, Accept(e) \/ Close(e)
      PROVE  BooksOf(c)'
  <2>1. UNCHANGED <<sent, todo, chatter, outbound, queue, received, writer>>
    BY <1>5 DEF Accept, Close, processorVars, writerVars
  <2> QED
    BY <1>1, <2>1, BooksCarried, CarriedQuiet
<1>6. ASSUME NEW e \in Conn, HangUp(e) \/ StopWriting(e)
      PROVE  BooksOf(c)'
  <2>1. /\ UNCHANGED <<sent, todo, chatter, outbound, received>>
        /\ \/ writer'[c] # "running"
           \/ writer'[c] = writer[c] /\ queue'[c] = queue[c]
        /\ writer[c] = "none" => writer'[c] # "running"
    BY <1>1, <1>6 DEF HangUp, StopWriting, processorVars, readerVars, TypeOK
  <2> QED
    BY <1>1, <2>1, BooksCarried, CarriedQuiet
<1>7. ASSUME NEW e \in Conn, Refuse(e)
      PROVE  BooksOf(c)'
  <2>1. UNCHANGED <<sent, todo, chatter, writer>>
    BY <1>7 DEF Refuse, processorVars
  <2> QED
    BY <1>1, <1>7, <2>1, BooksCarried, CarriedRefuse
<1>8. ASSUME NEW e \in Conn, Write(e)
      PROVE  BooksOf(c)'
  <2>1. UNCHANGED <<sent, todo, chatter, writer>>
    BY <1>8 DEF Write, processorVars, readerVars
  <2> QED
    BY <1>1, <1>8, <2>1, BooksCarried, CarriedWrite
<1>9. CASE RouteOpened \/ RouteClosed \/ RouteEnvelope
  <2>1. UNCHANGED <<sent, todo, chatter, writer>>
    BY <1>9 DEF RouteOpened, RouteClosed, RouteEnvelope, NextOutbound, processorVars, readerVars
  <2> QED
    BY <1>1, <1>9, <2>1, BooksCarried, CarriedRoute
<1>10. CASE OpenConnection \/ CloseConnection \/ ProcessMessage
  BY <1>1, <1>10, TakeBooks
<1>11. CASE SendOutbound
  BY <1>1, <1>11, SendBooks
<1>12. ASSUME NEW e \in Conn, RunnerNotify(e)
       PROVE  BooksOf(c)'
  BY <1>1, <1>12, NotifyBooks
<1>13. CASE Shutdown \/ Down \/ UNCHANGED vars
  <2>1. UNCHANGED <<sent, todo, chatter, outbound, queue, received, writer>>
    BY <1>13 DEF Shutdown, Down, vars, readerVars, processorVars, writerVars
  <2> QED
    BY <1>1, <2>1, BooksCarried, CarriedQuiet
<1> QED
  BY <1>2, <1>3, <1>4, <1>5, <1>6, <1>7, <1>8, <1>9, <1>10, <1>11, <1>12, <1>13, SizeAssumption
     DEF Next, Processor, Router, Reader, Runners, Writer, Client, WriteFails, WriterEnds

LEMMA InitBooks == Init => Books
<1> SUFFICES ASSUME Init PROVE Books
  OBVIOUS
<1>1. todo = << >> /\ \A c \in Conn : writer[c] = "none"
  BY DEF Init
<1>2. ASSUME NEW c \in Conn, NEW book \in Pairs(c)
      PROVE  Ready(book)
  <2>1. Balance(<< >>, book) = 0
    BY <1>2, PairsAre, BalanceFew DEF Ledger
  <2> QED
    BY <1>1, <2>1 DEF Ready
<1>3. NoEvent(todo)
  BY <1>1 DEF NoEvent
<1> QED
  BY <1>1, <1>2, <1>3 DEF Books, BooksOf, InOrder, Fair, Settled, Linked

-----------------------------------------------------------------------------
(* The refinement.  What the client of c asked is sent[c], and what it was *)
(* told received[c]: a message of the client asks, a write tells it the    *)
(* head of its queue, and every other step is unseen.                      *)

ServeInv == GateInv /\ Once /\ Truthful /\ AllOpened /\ Books

LEMMA CountZero ==
  ASSUME NEW T, NEW channel \in Seq(T), NEW S
  PROVE  /\ Count(channel, S) \in Nat
         /\ Count(channel, S) = 0 <=> \A i \in DOMAIN channel : channel[i] \notin S
<1>1. IsFiniteSet(Where(channel, S)) /\ Count(channel, S) \in Nat
  BY WhereFinite
<1>2. Cardinality(Where(channel, S)) = 0 <=> Where(channel, S) = {}
  BY <1>1, FS_EmptySet
<1>3. Where(channel, S) = {} <=> \A i \in DOMAIN channel : channel[i] \notin S
  BY DEF Where
<1> QED
  BY <1>1, <1>2, <1>3 DEF Count

LEMMA SameCardinality == \A S : Service!Cardinality(S) = Cardinality(S)
BY Zenon DEF Service!Cardinality, Cardinality

LEMMA AtMostAll ==
  ASSUME TypeOK, NEW c \in Conn, NEW n
  PROVE  /\ AtReceived(c, n) \in Nat /\ AtQueue(c, n) \in Nat
         /\ AtOutbound(c, n) \in Nat /\ AtTodo(c, n) \in Nat
         /\ AtReceived(c, n) + (AtQueue(c, n) + AtOutbound(c, n) + AtTodo(c, n))
              <= Instances(c, n)
<1>1. Parts(c, n)
  BY InstancesAre
<1>2. PICK i, e, d \in Nat :
        i = Instances(c, n) /\ e = AtEvents(c, n) /\ d = Door(c, n)
  BY <1>1 DEF Parts
<1>3. PICK t, o \in Nat : t = AtTodo(c, n) /\ o = AtOutbound(c, n)
  BY <1>1 DEF Parts
<1>4. PICK q, r \in Nat : q = AtQueue(c, n) /\ r = AtReceived(c, n)
  BY <1>1 DEF Parts
<1>5. i = e + t + o + q + r + d
  BY <1>1, <1>2, <1>3, <1>4 DEF Parts
<1>6. r + (q + o + t) <= i
  BY <1>5
<1> QED
  BY <1>2, <1>3, <1>4, <1>6

\* A message that the client of c has not been told yet.
OnWay(c, m) ==
  \E channel \in {queue[c], outbound, todo} : \E i \in DOMAIN channel : channel[i] = m

LEMMA ChannelsOf ==
  ASSUME ServeInv, NEW c \in Conn
  PROVE  /\ TypeOK /\ RoadInv /\ RoadOf(c) /\ Gate(c) /\ BooksOf(c)
         /\ queue[c] \in Seq(Bounded) /\ received[c] \in Seq(Bounded)
         /\ outbound \in Seq(Bounded) /\ todo \in Seq(Bounded) /\ events \in Seq(Bounded)
         /\ queue[c] \in Seq(Truth) /\ received[c] \in Seq(Truth)
         /\ outbound \in Seq(Truth) /\ todo \in Seq(Truth)
         /\ queue[c] \in Seq(Mail(c)) /\ received[c] \in Seq(Mail(c))
BY DEF ServeInv, GateInv, RoadInv, TypeInv, InBounds, Roads, Gates, Books, Truthful, Addressed

\* An answer on the way to c is to a request that was asked and has no other answer.
LEMMA WayUnanswered ==
  ASSUME ServeInv, NEW c \in Conn, NEW m \in Truth, m.kind \in AnswerKind, m.conn = c,
         OnWay(c, m)
  PROVE  Service!Unanswered(c, m.id)
<1>1. /\ TypeOK
      /\ queue[c] \in Seq(Truth) /\ received[c] \in Seq(Truth)
      /\ outbound \in Seq(Truth) /\ todo \in Seq(Truth)
      /\ received[c] \in Seq(Mail(c)) /\ sent[c] \in Seq(Method)
  BY ChannelsOf DEF TypeOK
<1>2. PICK n : n = m.id
  OBVIOUS
<1>3. /\ n \in DOMAIN sent[c] /\ sent[c][n] # "notice"
      /\ n \in Nat \ {0} /\ n <= Len(sent[c]) /\ m \in Message
  <2>1. /\ m.id \in DOMAIN sent[m.conn] /\ sent[m.conn][m.id] # "notice" /\ m \in Message
    BY DEF Truth
  <2> QED
    BY <1>1, <1>2, <2>1
<1>4. Instances(c, n) <= 1
  <2>1. OnceFor(c, n)
    BY <1>3 DEF ServeInv, Once
  <2> QED
    BY <1>3, <2>1 DEF OnceFor
<1>5. /\ AtReceived(c, n) \in Nat /\ AtQueue(c, n) \in Nat
      /\ AtOutbound(c, n) \in Nat /\ AtTodo(c, n) \in Nat
      /\ AtReceived(c, n) + (AtQueue(c, n) + AtOutbound(c, n) + AtTodo(c, n)) <= 1
  BY <1>1, <1>4, AtMostAll, InstancesAre DEF Parts
<1>6. AtReceived(c, n) = 0
  <2>1. m \in Ans(c, n)
    BY <1>2, <1>3 DEF Ans
  <2>2. AtQueue(c, n) # 0 \/ AtOutbound(c, n) # 0 \/ AtTodo(c, n) # 0
    <3>1. CASE \E i \in DOMAIN queue[c] : queue[c][i] = m
      BY <1>1, <2>1, <3>1, CountZero DEF AtQueue
    <3>2. CASE \E i \in DOMAIN outbound : outbound[i] = m
      BY <1>1, <2>1, <3>2, CountZero DEF AtOutbound
    <3>3. CASE \E i \in DOMAIN todo : todo[i] = m
      BY <1>1, <2>1, <3>3, CountZero DEF AtTodo
    <3> QED
      BY <3>1, <3>2, <3>3 DEF OnWay
  <2>3. PICK r, q, o, t \in Nat : /\ r = AtReceived(c, n) /\ q = AtQueue(c, n)
                                   /\ o = AtOutbound(c, n) /\ t = AtTodo(c, n)
    BY <1>5
  <2>4. r + (q + o + t) <= 1 /\ (q # 0 \/ o # 0 \/ t # 0)
    BY <1>5, <2>2, <2>3
  <2>5. r = 0
    BY <2>4
  <2> QED
    BY <2>3, <2>5
<1>8. \A i \in DOMAIN received[c] : received[c][i] \notin Ans(c, n)
  BY <1>1, <1>6, CountZero DEF AtReceived
<1>9. \A i \in DOMAIN received[c] : received[c][i].kind \in AnswerKind => received[c][i].id # n
  <2> SUFFICES ASSUME NEW i \in DOMAIN received[c], received[c][i].kind \in AnswerKind,
                      received[c][i].id = n
               PROVE  FALSE
    OBVIOUS
  <2>1. received[c][i] \in Message /\ received[c][i].conn = c
    BY <1>1 DEF Mail, Message
  <2> QED
    BY <1>8, <2>1 DEF Ans
<1>10. n \notin Service!Answered(c, {"ok", "refused", "overloaded"})
  BY <1>9 DEF Service!Answered, Service!Places, AnswerKind
<1> QED
  BY <1>2, <1>3, <1>10 DEF Service!Unanswered

LEMMA AnsweredIs ==
  ASSUME ServeInv, NEW c \in Conn, NEW kinds \in SUBSET {"ok", "refused"}
  PROVE  Service!Answered(c, kinds) = Ranks(received[c], c, kinds)
<1>1. received[c] \in Seq(Mail(c))
  BY ChannelsOf
<1>2. ASSUME NEW i \in DOMAIN received[c]
      PROVE  /\ received[c][i].conn = c
             /\ received[c][i].kind \in kinds => Rank(received[c][i]) = received[c][i].id
  BY <1>1 DEF Mail, Rank
<1>3. Of(received[c], c, kinds) = Service!Places(c, kinds)
  BY <1>2 DEF Of, Service!Places
<1>4. \A i \in Of(received[c], c, kinds) : Rank(received[c][i]) = received[c][i].id
  BY <1>2 DEF Of
<1> QED
  BY <1>3, <1>4 DEF Ranks, Service!Answered

\* Where the number of an answer on the way stands.
LEMMA RankOnWay ==
  ASSUME ServeInv, NEW c \in Conn, NEW m \in Truth, m.kind \in {"ok", "refused"}, m.conn = c,
         OnWay(c, m)
  PROVE  m.id \in R(queue[c], c) \cup R(outbound, c) \cup R(todo, c)
<1>1. Rank(m) = m.id /\ m.kind \in Tracked
  BY DEF Rank, Tracked
<1>2. ASSUME NEW channel, NEW i \in DOMAIN channel, channel[i] = m
      PROVE  m.id \in R(channel, c)
  BY <1>1, <1>2 DEF R, Ranks, Of
<1> QED
  BY <1>2 DEF OnWay

LEMMA WayInTurn ==
  ASSUME ServeInv, NEW c \in Conn, NEW m \in Truth, m.kind \in {"ok", "refused"}, m.conn = c,
         OnWay(c, m)
  PROVE  Service!InTurn(c, m.id)
<1>1. Service!Unanswered(c, m.id)
  BY WayUnanswered DEF AnswerKind
<1>2. ASSUME NEW k \in Service!Answered(c, {"ok", "refused"})
      PROVE  k < m.id
  <2>1. k \in R(received[c], c)
    <3>1. k \in Ranks(received[c], c, {"ok", "refused"})
      BY AnsweredIs
    <3>2. Ranks(received[c], c, {"ok", "refused"}) \subseteq Ranks(received[c], c, Tracked)
      BY RanksUnion DEF Tracked
    <3> QED
      BY <3>1, <3>2 DEF R
  <2>2. Chain(Tracks(c))
    BY ChannelsOf DEF RoadOf
  <2>3. /\ Below(Tracks(c)[1], Tracks(c)[2]) /\ Below(Tracks(c)[1], Tracks(c)[3])
        /\ Below(Tracks(c)[1], Tracks(c)[4])
    BY <2>2 DEF Chain
  <2>4. /\ Below(R(received[c], c), R(queue[c], c)) /\ Below(R(received[c], c), R(outbound, c))
        /\ Below(R(received[c], c), R(todo, c))
    BY <2>3, TracksAre
  <2> QED
    BY <2>1, <2>4, RankOnWay DEF Below
<1> QED
  BY <1>1, <1>2 DEF Service!InTurn

LEMMA NumberIs ==
  ASSUME ServeInv, NEW c \in Conn, NEW kind \in {"initialized", "started", "event"}
  PROVE  Service!Number(c, kind) = Count(received[c], {Signal(kind, c)})
<1>1. received[c] \in Seq(Mail(c)) /\ Signal(kind, c).kind = kind
  BY ChannelsOf, SignalType
<1>2. \A i \in DOMAIN received[c] :
        received[c][i].kind = kind <=> received[c][i] = Signal(kind, c)
  <2>1. \A m \in Mail(c) : m.kind = kind => m = Signal(kind, c)
    BY DEF Mail, Outgoing, Signal
  <2> QED
    BY <1>1, <2>1
<1>3. Service!Places(c, {kind}) = Where(received[c], {Signal(kind, c)})
  BY <1>2 DEF Service!Places, Where
<1> QED
  BY <1>3, SameCardinality DEF Service!Number, Count

LEMMA SucceededIs ==
  ASSUME ServeInv, NEW c \in Conn, NEW method
  PROVE  Service!Cardinality(Service!Succeeded(c, method))
           = Count(received[c], Done(c, method))
<1>1. /\ received[c] \in Seq(Truth) /\ received[c] \in Seq(Mail(c)) /\ TypeOK
      /\ sent[c] \in Seq(Method)
  BY ChannelsOf DEF TypeOK
<1> DEFINE W == Where(received[c], Done(c, method))
           f == [i \in W |-> received[c][i].id]
<1>2. IsFiniteSet(W)
  BY <1>1, WhereFinite
<1>3. \A i \in DOMAIN received[c] :
        /\ received[c][i] \in Message /\ received[c][i].conn = c
        /\ received[c][i].kind = "ok" => received[c][i].id \in DOMAIN sent[c]
                                           /\ sent[c][received[c][i].id] # "notice"
  <2>1. \A m \in Truth : m \in Message /\ (m.kind = "ok" => m.id \in DOMAIN sent[m.conn]
                                                              /\ sent[m.conn][m.id] # "notice")
    BY DEF Truth, AnswerKind
  <2>2. \A m \in Mail(c) : m.conn = c
    BY DEF Mail
  <2> QED
    BY <1>1, <2>1, <2>2
<1>4. W = {i \in DOMAIN received[c] :
             received[c][i].kind = "ok" /\ sent[c][received[c][i].id] = method}
  BY <1>3 DEF Where, Done
<1>5. Service!Succeeded(c, method) = {f[i] : i \in W}
  <2>1. Service!Succeeded(c, method)
          = {received[c][i].id : i \in {j \in DOMAIN received[c] : received[c][j].kind = "ok"
                                          /\ sent[c][received[c][j].id] = method}}
    BY DEF Service!Succeeded, Service!Answered, Service!Places
  <2> QED
    BY <1>4, <2>1
<1>6. ASSUME NEW i \in W, NEW j \in W, f[i] = f[j]
      PROVE  i = j
  <2>1. PICK n : n = received[c][i].id
    OBVIOUS
  <2>2. /\ n = received[c][j].id /\ received[c][i].kind = "ok" /\ received[c][j].kind = "ok"
        /\ i \in DOMAIN received[c] /\ j \in DOMAIN received[c]
    BY <1>4, <1>6, <2>1
  <2>3. /\ n \in Nat \ {0} /\ n <= Len(sent[c]) /\ sent[c][n] # "notice"
    BY <1>1, <1>3, <2>1, <2>2
  <2>4. AtReceived(c, n) <= 1
    <3>1. OnceFor(c, n)
      BY <2>3 DEF ServeInv, Once
    <3>2. Instances(c, n) <= 1 /\ Instances(c, n) \in Nat
      BY <1>1, <2>3, <3>1, InstancesAre DEF OnceFor, Parts
    <3>3. /\ AtReceived(c, n) \in Nat /\ AtQueue(c, n) \in Nat
          /\ AtOutbound(c, n) \in Nat /\ AtTodo(c, n) \in Nat
          /\ AtReceived(c, n) + (AtQueue(c, n) + AtOutbound(c, n) + AtTodo(c, n))
               <= Instances(c, n)
      BY <1>1, AtMostAll
    <3>4. PICK all, r, q, o, t \in Nat :
            /\ all = Instances(c, n) /\ r = AtReceived(c, n) /\ q = AtQueue(c, n)
            /\ o = AtOutbound(c, n) /\ t = AtTodo(c, n)
      BY <3>2, <3>3
    <3>5. r + (q + o + t) <= all /\ all <= 1
      BY <3>2, <3>3, <3>4
    <3> QED
      BY <3>4, <3>5
  <2>5. PICK V : V = Where(received[c], Ans(c, n))
    OBVIOUS
  <2>6. IsFiniteSet(V) /\ Cardinality(V) <= 1 /\ Cardinality(V) \in Nat
    BY <1>1, <2>4, <2>5, WhereFinite DEF AtReceived, Count
  <2>7. i \in V /\ j \in V
    BY <1>3, <2>1, <2>2, <2>5 DEF Where, Ans, AnswerKind
  <2>8. \E k : V = {k}
    <3>1. Cardinality(V) = 1
      BY <2>6, <2>7, FS_EmptySet
    <3> QED
      BY <2>6, <3>1, FS_Singleton
  <2> QED
    BY <2>7, <2>8
<1>7. f \in Bijection(W, Service!Succeeded(c, method))
  <2>1. f \in [W -> Service!Succeeded(c, method)] /\ DOMAIN f = W
    BY <1>5
  <2> HIDE DEF f
  <2> QED
    BY <1>5, <1>6, <2>1 DEF Bijection, Injection, Surjection, IsInjective
<1> HIDE DEF W, f
<1>8. ExistsBijection(W, Service!Succeeded(c, method))
  BY <1>7 DEF ExistsBijection
<1>9. Cardinality(Service!Succeeded(c, method)) = Cardinality(W)
  BY <1>2, <1>8, FS_Bijection
<1> QED
  BY <1>9, SameCardinality DEF Count, W

LEMMA BalancesAre ==
  ASSUME ServeInv, NEW c \in Conn
  PROVE  /\ Balance(received[c], Initializing(c))
              = Service!Number(c, "initialized")
                  - Service!Cardinality(Service!Succeeded(c, "initialize"))
         /\ Balance(received[c], Starting(c))
              = Service!Number(c, "started")
                  - Service!Cardinality(Service!Succeeded(c, "turn"))
         /\ Balance(received[c], Telling(c))
              = Chatter * Service!Number(c, "started") - Service!Number(c, "event")
         /\ \A kind \in {"initialized", "started", "event"} : Service!Number(c, kind) \in Nat
         /\ \A method : Service!Cardinality(Service!Succeeded(c, method)) \in Nat
<1>1. received[c] \in Seq(Truth)
  BY ChannelsOf
<1>2. \A S : Count(received[c], S) \in Nat
  BY <1>1, WhereFinite
<1>3. \A kind \in {"initialized", "started", "event"} :
        /\ Service!Number(c, kind) = Count(received[c], {Signal(kind, c)})
        /\ Service!Number(c, kind) \in Nat
  BY <1>2, NumberIs
<1>4. \A method : /\ Service!Cardinality(Service!Succeeded(c, method))
                       = Count(received[c], Done(c, method))
                  /\ Service!Cardinality(Service!Succeeded(c, method)) \in Nat
  BY <1>2, SucceededIs
<1>5. Balance(received[c], Initializing(c))
        = 1 * Count(received[c], {Signal("initialized", c)})
            - Count(received[c], Done(c, "initialize"))
  BY DEF Balance, Initializing
<1>6. Balance(received[c], Starting(c))
        = 1 * Count(received[c], {Signal("started", c)}) - Count(received[c], Done(c, "turn"))
  BY DEF Balance, Starting
<1>7. Balance(received[c], Telling(c))
        = Chatter * Count(received[c], {Signal("started", c)})
            - Count(received[c], {Signal("event", c)})
  BY DEF Balance, Telling
<1>8. \A n \in Nat : 1 * n = n
  OBVIOUS
<1> QED
  BY <1>2, <1>3, <1>4, <1>5, <1>6, <1>7, <1>8

\* What the writer of c writes, and the books just before and after.
LEMMA WriteTells ==
  ASSUME ServeInv, NEW c \in Conn, Write(c), NEW m, m = Head(queue[c])
  PROVE  /\ writer[c] = "running" /\ queue[c] # << >> /\ sent' = sent
         /\ m \in Truth /\ m \in Outgoing /\ m.conn = c /\ OnWay(c, m)
         /\ Service!Tell(c, m.kind, m.id)
         /\ \A book \in Pairs(c) \cup {Telling(c)} :
              /\ Steady(queue[c], Balance(received[c], book), book)
              /\ Balance(received[c], book) \in book.range
              /\ Balance(received[c], book) + Value(m, book) \in book.range
<1>1. /\ writer[c] = "running" /\ queue[c] # << >> /\ sent' = sent
      /\ received' = [received EXCEPT ![c] = Append(@, m)]
  BY DEF Write, readerVars
<1>2. /\ queue[c] \in Seq(Truth) /\ queue[c] \in Seq(Mail(c)) /\ BooksOf(c)
      /\ received[c] \in Seq(Truth)
  BY ChannelsOf
<1>3. m \in Truth /\ m \in Mail(c) /\ m = queue[c][1] /\ 1 \in DOMAIN queue[c]
  BY <1>1, <1>2
<1>4. /\ m \in Outgoing /\ m.conn = c
      /\ m = [kind |-> m.kind, conn |-> c, id |-> m.id]
  BY <1>3 DEF Mail, Outgoing
<1>5. OnWay(c, m)
  BY <1>3 DEF OnWay
<1>6. Service!Tell(c, m.kind, m.id)
  BY <1>1, <1>4 DEF Service!Tell
<1>7. ASSUME NEW book \in Pairs(c) \cup {Telling(c)}
      PROVE  /\ Steady(queue[c], Balance(received[c], book), book)
             /\ Balance(received[c], book) \in book.range
             /\ Balance(received[c], book) + Value(m, book) \in book.range
  <2>1. Steady(queue[c], Balance(received[c], book), book)
    BY <1>1, <1>2 DEF BooksOf, InOrder, Fair
  <2>2. book.worth \in Nat
    BY PairsAre, TellingIs DEF Ledger
  <2>3. PICK r \in Int : r = Balance(received[c], book)
    BY <1>2, <2>2, BalanceType
  <2>4. Steady(queue[c], r, book)
    BY <2>1, <2>3
  <2>5. r \in book.range
    BY <1>2, <2>2, <2>4, SteadyEnds
  <2>6. r + Value(Head(queue[c]), book) \in book.range
    BY <1>1, <1>2, <2>2, <2>4, SteadyTail
  <2> QED
    BY <2>1, <2>3, <2>5, <2>6
<1> QED
  BY <1>1, <1>3, <1>4, <1>5, <1>6, <1>7

\* What was announced, and is not answered yet, is on its way to be.
LEMMA AnswerFollows ==
  ASSUME ServeInv, NEW c \in Conn, NEW book \in Pairs(c),
         writer[c] = "running", queue[c] # << >>, Head(queue[c]) \in book.plus,
         Balance(received[c], book) \in Nat
  PROVE  \E m \in book.minus : m \in Truth /\ OnWay(c, m)
<1> SUFFICES ASSUME \A m \in book.minus : ~(m \in Truth /\ OnWay(c, m)) PROVE FALSE
  OBVIOUS
<1>1. /\ queue[c] \in Seq(Truth) /\ outbound \in Seq(Truth) /\ todo \in Seq(Truth)
      /\ received[c] \in Seq(Truth) /\ BooksOf(c)
  BY ChannelsOf
<1>2. book.worth = 1
  BY PairsAre
<1>3. ASSUME NEW channel \in {queue[c], outbound, todo}
      PROVE  Balance(channel, book) = Count(channel, book.plus) /\ Balance(channel, book) \in Nat
  <2>1. channel \in Seq(Truth)
    BY <1>1
  <2>2. \A i \in DOMAIN channel : channel[i] \notin book.minus
    <3>1. \A i \in DOMAIN channel : channel[i] \in Truth
      BY <2>1
    <3> QED
      BY <3>1 DEF OnWay
  <2>3. Count(channel, book.minus) = 0 /\ Count(channel, book.plus) \in Nat
    BY <2>1, <2>2, CountZero
  <2> QED
    BY <1>2, <2>3 DEF Balance
<1>4. PICK q, o, t \in Nat :
        q = Balance(queue[c], book) /\ o = Balance(outbound, book) /\ t = Balance(todo, book)
  BY <1>3
<1>5. PICK r \in Nat : r = Balance(received[c], book)
  OBVIOUS
<1>6. q # 0
  <2>1. Head(queue[c]) = queue[c][1] /\ 1 \in DOMAIN queue[c]
    BY <1>1
  <2>2. Count(queue[c], book.plus) # 0
    BY <1>1, <2>1, CountZero
  <2> QED
    BY <1>3, <1>4, <2>2
<1>7. CASE Linked(c)
  <2>1. Balanced(received[c], queue[c], outbound, 0 - Balance(todo, book), book)
    BY <1>1, <1>7 DEF BooksOf, InOrder, Fair
  <2>2. r + q + o = 0 - t
    BY <1>4, <1>5, <2>1 DEF Balanced
  <2> QED
    BY <1>6, <2>2
<1>8. CASE ~Linked(c)
  <2>1. r + q = 0
    BY <1>1, <1>4, <1>5, <1>8 DEF BooksOf, InOrder, Settled
  <2> QED
    BY <1>6, <2>1
<1> QED
  BY <1>7, <1>8

LEMMA ForwardAsks ==
  ASSUME NEW c \in Conn, NEW method \in Method, Forward(c, method)
  PROVE  Service!Next
<1>1. Service!Ask(c, method)
  BY DEF Forward, Service!Ask, writerVars
<1> QED
  BY <1>1 DEF Service!Next

LEMMA OverloadTold ==
  ASSUME ServeInv, NEW c \in Conn, Write(c), Head(queue[c]).kind = "overloaded"
  PROVE  Service!Next
<1>1. PICK m : m = Head(queue[c])
  OBVIOUS
<1>2. Service!Unanswered(c, m.id)
  BY <1>1, WriteTells, WayUnanswered DEF AnswerKind
<1>3. Service!Overload(c, m.id)
  BY <1>1, <1>2, WriteTells DEF Service!Overload
<1>4. m.id \in DOMAIN sent[c]
  BY <1>2 DEF Service!Unanswered
<1> QED
  BY <1>3, <1>4 DEF Service!Next

LEMMA RefusalTold ==
  ASSUME ServeInv, NEW c \in Conn, Write(c), Head(queue[c]).kind = "refused"
  PROVE  Service!Next
<1>1. PICK m : m = Head(queue[c])
  OBVIOUS
<1>2. Service!InTurn(c, m.id)
  BY <1>1, WriteTells, WayInTurn
<1>3. sent[c][m.id] # "initialize"
  BY <1>1, WriteTells DEF Truth, AnswerKind
<1>4. Service!Succeeded(c, "initialize") = {}
  <2> SUFFICES ASSUME NEW k \in Service!Answered(c, {"ok"}) PROVE FALSE
    BY DEF Service!Succeeded
  <2>1. k \in Path(c, "ok")
    BY AnsweredIs DEF Path
  <2>2. m.id \in Path(c, "refused")
    <3>1. m = queue[c][1] /\ 1 \in DOMAIN queue[c] /\ m.conn = c
      <4>1. queue[c] \in Seq(Truth) /\ queue[c] # << >>
        BY ChannelsOf, WriteTells
      <4> QED
        BY <1>1, <4>1, WriteTells
    <3>2. Rank(m) = m.id
      BY <1>1 DEF Rank
    <3>3. m.id \in Ranks(queue[c], c, {"refused"})
      BY <1>1, <3>1, <3>2 DEF Ranks, Of
    <3> QED
      BY <3>3 DEF Path
  <2>3. m.id < k
    BY <2>1, <2>2, ChannelsOf DEF Gate, Below
  <2>4. k \in Service!Answered(c, {"ok", "refused"})
    BY DEF Service!Answered, Service!Places
  <2>5. k < m.id
    BY <1>2, <2>4 DEF Service!InTurn
  <2>6. k \in Nat /\ m.id \in Nat
    <3>1. \A kind \in {"ok", "refused"} : Path(c, kind) \subseteq 1..Len(sent[c])
      BY PathInOrder, ChannelsOf
    <3> QED
      BY <2>1, <2>2, <3>1
  <2> QED
    BY <2>3, <2>5, <2>6
<1>5. Service!Refuse(c, m.id)
  BY <1>1, <1>2, <1>3, <1>4, WriteTells DEF Service!Refuse
<1>6. m.id \in DOMAIN sent[c]
  BY <1>2 DEF Service!InTurn, Service!Unanswered
<1> QED
  BY <1>5, <1>6 DEF Service!Next

\* An announcement: the method it is about, and its book.
LEMMA AnnouncementTold ==
  ASSUME ServeInv, NEW c \in Conn, Write(c),
         NEW book \in Pairs(c), Head(queue[c]) \in book.plus
  PROVE  /\ Balance(received[c], book) = 0
         /\ \E m \in book.minus : m.id \in DOMAIN sent[c] /\ Service!InTurn(c, m.id)
<1>1. PICK head : head = Head(queue[c])
  OBVIOUS
<1>2. /\ book.worth = 1 /\ book.range = 0..1
      /\ \A m \in book.minus : m.kind = "ok" /\ m.conn = c
  BY PairsAre
<1>3. Value(head, book) = 1
  <2>1. head \notin book.minus
    <3>1. head.kind # "ok"
      BY <1>1, SignalType DEF Pairs, Initializing, Starting
    <3> QED
      BY <1>2, <3>1
  <2> QED
    BY <1>1, <1>2, <2>1 DEF Value, One
<1>4. Balance(received[c], book) = 0
  BY <1>1, <1>2, <1>3, WriteTells
<1>5. PICK m \in book.minus : m \in Truth /\ OnWay(c, m)
  BY <1>1, <1>4, AnswerFollows, WriteTells
<1>6. Service!InTurn(c, m.id)
  BY <1>2, <1>5, WayInTurn
<1>7. m.id \in DOMAIN sent[c]
  BY <1>6 DEF Service!InTurn, Service!Unanswered
<1> QED
  BY <1>4, <1>6, <1>7

LEMMA InitializedTold ==
  ASSUME ServeInv, NEW c \in Conn, Write(c), Head(queue[c]).kind = "initialized"
  PROVE  Service!Next
<1>1. PICK m : m = Head(queue[c])
  OBVIOUS
<1>2. m = Signal("initialized", c) /\ m.id = 0
  BY <1>1, WriteTells DEF Outgoing, Signal
<1>3. m \in Initializing(c).plus /\ Initializing(c) \in Pairs(c)
  BY <1>2 DEF Initializing, Pairs
<1>4. /\ Balance(received[c], Initializing(c)) = 0
      /\ \E a \in Initializing(c).minus : a.id \in DOMAIN sent[c] /\ Service!InTurn(c, a.id)
  BY <1>1, <1>3, AnnouncementTold
<1>5. \E n \in DOMAIN sent[c] : Service!InTurn(c, n) /\ sent[c][n] = "initialize"
  <2>1. \A a \in Initializing(c).minus : sent[c][a.id] = "initialize"
    BY DEF Initializing, Done
  <2> QED
    BY <1>4, <2>1
<1>6. Service!Ahead(c, "initialized", "initialize") = 0
  BY <1>4, BalancesAre DEF Service!Ahead
<1>7. Service!Tell(c, "initialized", 0)
  BY <1>1, <1>2, WriteTells
<1>8. Service!Initialized(c)
  BY <1>5, <1>6, <1>7 DEF Service!Initialized, Service!Announce
<1> QED
  BY <1>8 DEF Service!Next

LEMMA StartedTold ==
  ASSUME ServeInv, NEW c \in Conn, Write(c), Head(queue[c]).kind = "started"
  PROVE  Service!Next
<1>1. PICK m : m = Head(queue[c])
  OBVIOUS
<1>2. m = Signal("started", c) /\ m.id = 0
  BY <1>1, WriteTells DEF Outgoing, Signal
<1>3. m \in Starting(c).plus /\ Starting(c) \in Pairs(c)
  BY <1>2 DEF Starting, Pairs
<1>4. /\ Balance(received[c], Starting(c)) = 0
      /\ \E a \in Starting(c).minus : a.id \in DOMAIN sent[c] /\ Service!InTurn(c, a.id)
  BY <1>1, <1>3, AnnouncementTold
<1>5. \E n \in DOMAIN sent[c] : Service!InTurn(c, n) /\ sent[c][n] = "turn"
  <2>1. \A a \in Starting(c).minus : sent[c][a.id] = "turn"
    BY DEF Starting, Done
  <2> QED
    BY <1>4, <2>1
<1>6. Service!Ahead(c, "started", "turn") = 0
  BY <1>4, BalancesAre DEF Service!Ahead
<1>7. Service!Tell(c, "started", 0)
  BY <1>1, <1>2, WriteTells
<1>8. Service!Started(c)
  BY <1>5, <1>6, <1>7 DEF Service!Started, Service!Announce
<1> QED
  BY <1>8 DEF Service!Next

LEMMA EventTold ==
  ASSUME ServeInv, NEW c \in Conn, Write(c), Head(queue[c]).kind = "event"
  PROVE  Service!Next
<1>1. PICK m : m = Head(queue[c])
  OBVIOUS
<1>2. m = Signal("event", c) /\ m.id = 0
  BY <1>1, WriteTells DEF Outgoing, Signal
<1>3. PICK book : book = Telling(c)
  OBVIOUS
<1>4. Value(m, book) = -1 /\ book.range = Nat
  BY <1>2, <1>3, TellingIs
<1>5. Balance(received[c], book) \in Nat /\ Balance(received[c], book) + Value(m, book) \in Nat
  BY <1>1, <1>3, <1>4, WriteTells
<1>6. Service!Number(c, "event") < Chatter * Service!Number(c, "started")
  <2>1. PICK e, s \in Nat : e = Service!Number(c, "event") /\ s = Service!Number(c, "started")
    BY BalancesAre
  <2>2. PICK k \in Nat : k = Chatter * s
    BY SizeAssumption
  <2>3. Balance(received[c], book) = k - e
    BY <1>3, <2>1, <2>2, BalancesAre
  <2>4. k - e >= 1
    BY <1>4, <1>5, <2>3
  <2> QED
    BY <2>1, <2>2, <2>4
<1>7. Service!Event(c)
  BY <1>1, <1>2, <1>6, WriteTells DEF Service!Event
<1> QED
  BY <1>7 DEF Service!Next

\* An answer comes after what it announces; and after the initialize that was first.
LEMMA SuccessTold ==
  ASSUME ServeInv, NEW c \in Conn, Write(c), Head(queue[c]).kind = "ok"
  PROVE  Service!Next
<1>1. PICK m : m = Head(queue[c])
  OBVIOUS
<1>2. /\ m \in Truth /\ m \in Message /\ m.kind = "ok" /\ m.conn = c
      /\ writer[c] = "running" /\ queue[c] # << >>
  BY <1>1, WriteTells DEF Truth
<1>3. Service!InTurn(c, m.id)
  BY <1>1, <1>2, WriteTells, WayInTurn
<1>4. m.id \in DOMAIN sent[c]
  BY <1>3 DEF Service!InTurn, Service!Unanswered
<1>5. ASSUME NEW book \in Pairs(c), m \in book.minus
      PROVE  Balance(received[c], book) = 1
  <2>1. book.worth = 1 /\ book.range = 0..1
    BY PairsAre
  <2>2. m \notin book.plus
    BY <1>2, SignalType DEF Pairs, Initializing, Starting
  <2>3. Value(m, book) = -1
    BY <1>5, <2>1, <2>2 DEF Value, One
  <2>4. PICK b \in 0..1 : b = Balance(received[c], book)
    BY <1>1, <2>1, WriteTells
  <2>5. b + (-1) \in 0..1
    BY <1>1, <2>1, <2>3, <2>4, WriteTells
  <2> QED
    BY <2>4, <2>5
<1>6. ASSUME sent[c][m.id] = "initialize"
      PROVE  Service!Ahead(c, "initialized", "initialize") \in 0..1
  <2>1. Initializing(c) \in Pairs(c) /\ m \in Initializing(c).minus
    BY <1>2, <1>4, <1>6 DEF Initializing, Pairs, Done
  <2> QED
    BY <1>5, <2>1, BalancesAre DEF Service!Ahead
<1>7. ASSUME sent[c][m.id] = "turn"
      PROVE  Service!Ahead(c, "started", "turn") \in 0..1
  <2>1. Starting(c) \in Pairs(c) /\ m \in Starting(c).minus
    BY <1>2, <1>4, <1>7 DEF Starting, Pairs, Done
  <2> QED
    BY <1>5, <2>1, BalancesAre DEF Service!Ahead
<1>8. ASSUME sent[c][m.id] # "initialize"
      PROVE  Service!Succeeded(c, "initialize") # {}
  <2>1. /\ RoadOf(c) /\ Gate(c) /\ queue[c] \in Seq(Bounded)
    BY ChannelsOf
  <2>2. Rank(m) = m.id /\ "ok" \in Tracked
    BY <1>2 DEF Rank, Tracked
  <2>3. m = queue[c][1] /\ 1 \in DOMAIN queue[c]
    BY <1>1, <1>2, <2>1
  <2>4. m.id \in Path(c, "ok")
    <3>1. m.id \in Ranks(queue[c], c, {"ok"})
      BY <1>2, <2>2, <2>3 DEF Ranks, Of
    <3> QED
      BY <3>1 DEF Path
  <2>5. PICK k \in Path(c, "ok") : sent[c][k] = "initialize" /\ k <= m.id
    BY <1>2, <2>1, <2>4 DEF Gate, Granted
  <2>6. k \in Nat /\ m.id \in Nat /\ k < m.id
    <3>1. Path(c, "ok") \subseteq 1..Len(sent[c])
      BY PathInOrder, ChannelsOf
    <3>2. k # m.id
      BY <1>8, <2>5
    <3> QED
      BY <2>4, <2>5, <3>1, <3>2
  <2>7. ASSUME NEW channel
        PROVE  Ranks(channel, c, {"ok"}) \subseteq R(channel, c)
    BY <2>2, RanksUnion DEF R
  <2>8. k \notin Ranks(outbound, c, {"ok"}) /\ k \notin Ranks(todo, c, {"ok"})
    <3>1. Chain(Tracks(c))
      BY <2>1 DEF RoadOf
    <3>2. Below(Tracks(c)[2], Tracks(c)[3]) /\ Below(Tracks(c)[2], Tracks(c)[4])
      BY <3>1 DEF Chain
    <3>3. Below(R(queue[c], c), R(outbound, c)) /\ Below(R(queue[c], c), R(todo, c))
      BY <3>2, TracksAre
    <3>4. m.id \in R(queue[c], c)
      BY <1>2, <2>2, <2>3 DEF R, Ranks, Of
    <3> QED
      BY <2>6, <2>7, <3>3, <3>4 DEF Below
  <2>9. k \notin Ranks(queue[c], c, {"ok"})
    <3> SUFFICES ASSUME k \in R(queue[c], c) PROVE FALSE
      BY <2>7
    <3>1. /\ R(queue[c], c) = R(Tail(queue[c]), c) \cup Own(m, c, Tracked)
          /\ Below(Own(m, c, Tracked), R(Tail(queue[c]), c))
      BY <1>1, <1>2, <2>1, RanksTail, SortedTail DEF R, RoadOf, AllSorted
    <3>2. Own(m, c, Tracked) = {m.id}
      BY <1>2, <2>2 DEF Own
    <3> QED
      BY <2>6, <3>1, <3>2 DEF Below
  <2>10. k \in Ranks(received[c], c, {"ok"})
    BY <2>5, <2>8, <2>9 DEF Path
  <2>11. k \in Service!Answered(c, {"ok"})
    BY <2>10, AnsweredIs
  <2> QED
    BY <2>5, <2>11 DEF Service!Succeeded
<1>9. Service!Succeed(c, m.id)
  <2>1. Service!Tell(c, "ok", m.id)
    BY <1>1, <1>2, WriteTells
  <2> QED
    BY <1>3, <1>6, <1>7, <1>8, <2>1 DEF Service!Succeed
<1> QED
  BY <1>4, <1>9 DEF Service!Next

LEMMA WriteServes ==
  ASSUME ServeInv, NEW c \in Conn, Write(c)
  PROVE  Service!Next
<1>1. Head(queue[c]).kind \in {"ok", "refused", "overloaded", "initialized", "started", "event"}
  BY WriteTells DEF Outgoing
<1> QED
  BY <1>1, OverloadTold, RefusalTold, InitializedTold, StartedTold, EventTold, SuccessTold

LEMMA StepServes ==
  ASSUME ServeInv, [Next]_vars
  PROVE  Service!Next \/ UNCHANGED Service!vars
<1>1. CASE \E c \in Conn : \E method \in Method : Forward(c, method)
  BY <1>1, ForwardAsks
<1>2. CASE \E c \in Conn : Write(c)
  BY <1>2, WriteServes
<1>3. \/ \E c \in Conn : \E method \in Method : Forward(c, method)
      \/ \E c \in Conn : Write(c)
      \/ sent' = sent /\ received' = received
  BY SizeAssumption
     DEF Next, Processor, Router, Reader, Runners, Writer, Client, Accept, Open, Refuse, Close,
         HangUp, WriteFails, WriterEnds, StopWriting, Shutdown, Down, vars, SendOutbound,
         OpenConnection, CloseConnection, ProcessMessage, NextEvent, RunnerNotify,
         RouteOpened, RouteClosed, RouteEnvelope, NextOutbound, readerVars, writerVars
<1> QED
  BY <1>1, <1>2, <1>3 DEF Service!vars

LEMMA InitServes == Init => Service!Init /\ ServeInv
<1>1. Init => Service!Init
  BY DEF Init, Service!Init
<1>2. Init => ServeInv
  BY InitType, InitRoads, InitGates, InitOnce, InitOpened, InitBooks
     DEF ServeInv, GateInv, RoadInv
<1> QED
  BY <1>1, <1>2

LEMMA StepServeInv ==
  ASSUME ServeInv, GateInv', [Next]_vars
  PROVE  ServeInv'
<1>1. /\ GateInv /\ RoadInv /\ RoadInv' /\ TypeInv /\ events \in Seq(Asked)
      /\ Once /\ Truthful /\ AllOpened /\ Books
  BY DEF ServeInv, GateInv, RoadInv, Addressed
<1>2. Once'
  BY <1>1, StepOnce
<1>3. Truthful'
  BY <1>1, StepTruthful
<1>4. AllOpened'
  BY <1>1, StepOpened
<1>5. Books'
  BY <1>1, StepBooks
<1> QED
  BY <1>2, <1>3, <1>4, <1>5 DEF ServeInv

\* The tasks and channels implement the service that a client sees: whatever passes
\* them, its requests are answered at most once and in order, an initialize or a
\* turn is announced once, beside its answer, and the events of turns come after.
THEOREM RequestsImplemented == Spec => ImplementsRequests
<1>1. Init => Service!Init /\ ServeInv
  BY InitServes
<1>2. ServeInv /\ GateInv' /\ [Next]_vars => ServeInv'
  BY StepServeInv
<1>3. ServeInv /\ [Next]_vars => [Service!Next]_(Service!vars)
  BY StepServes
<1>4. Spec => []GateInv
  BY GateInvariant
<1> QED
  BY <1>1, <1>2, <1>3, <1>4, PTL DEF Spec, ImplementsRequests, Service!Spec


=============================================================================

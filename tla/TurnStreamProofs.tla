-------------------------- MODULE TurnStreamProofs --------------------------
(***************************************************************************)
(* Proofs about what the clients are told of a turn: the notifications of  *)
(* a turn open, count and end as they should, the verdict is the one the   *)
(* store keeps, claude outlives its turn only when the turn failed, and    *)
(* TurnLifecycle implements TurnService.  All of it for every set of       *)
(* threads, turns, sessions, modes and contents and for every bound.       *)
(***************************************************************************)
EXTENDS TurnLifecycleProofs, FiniteSetTheorems

-----------------------------------------------------------------------------
(* Places in a sequence of messages, as it grows.                          *)

LEMMA PlacesAppend ==
  ASSUME NEW s \in Seq(Message), NEW m \in Message, NEW kinds
  PROVE  Places(Append(s, m), kinds) =
           Places(s, kinds) \cup (IF m.kind \in kinds THEN {Len(s) + 1} ELSE {})
<1>1. /\ DOMAIN s = 1..Len(s) /\ Len(s) \in Nat
      /\ DOMAIN Append(s, m) = 1..(Len(s) + 1)
      /\ \A i \in 1..Len(s) : Append(s, m)[i] = s[i]
      /\ Append(s, m)[Len(s) + 1] = m
  OBVIOUS
<1>2. 1..(Len(s) + 1) = 1..Len(s) \cup {Len(s) + 1}
  BY <1>1
<1> QED
  BY <1>1, <1>2 DEF Places

LEMMA PlacesFinite ==
  ASSUME NEW s \in Seq(Message), NEW kinds
  PROVE  /\ Places(s, kinds) \subseteq 1..Len(s)
         /\ IsFiniteSet(Places(s, kinds))
         /\ Cardinality(Places(s, kinds)) \in Nat
<1>1. Places(s, kinds) \subseteq 1..Len(s) /\ Len(s) \in Nat
  BY DEF Places
<1>2. IsFiniteSet(1..Len(s))
  BY <1>1, FS_Interval
<1> QED
  BY <1>1, <1>2, FS_Subset, FS_CardinalityType

LEMMA PlacesCount ==
  ASSUME NEW s \in Seq(Message), NEW m \in Message, NEW kinds
  PROVE  Cardinality(Places(Append(s, m), kinds)) =
           Cardinality(Places(s, kinds)) + (IF m.kind \in kinds THEN 1 ELSE 0)
<1>1. Len(s) + 1 \notin Places(s, kinds)
  BY PlacesFinite
<1>2. CASE m.kind \in kinds
  <2>1. Places(Append(s, m), kinds) = Places(s, kinds) \cup {Len(s) + 1}
    BY <1>2, PlacesAppend
  <2> QED
    BY <1>1, <1>2, <2>1, PlacesFinite, FS_AddElement
<1>3. CASE m.kind \notin kinds
  <2>1. Places(Append(s, m), kinds) = Places(s, kinds) \cup {}
    BY <1>3, PlacesAppend, Zenon
  <2>2. Places(Append(s, m), kinds) = Places(s, kinds)
    BY <2>1
  <2> QED
    BY <1>3, <2>2, PlacesFinite
<1> QED
  BY <1>2, <1>3

-----------------------------------------------------------------------------
(* What makes the properties of the stream inductive: a turn has a log as  *)
(* soon as it has a runner, its outbox holds at most one notification, of  *)
(* the turn itself, and its verdict is there from the moment it is settled.*)

Response == {"start_ok", "steer_ok", "interrupt_ok"}

\* A verdict says how the store settled turn t.
TellsOutcome(t, m) ==
  IF m.kind = "completed"
  THEN m.status = turns[t].status /\ m.items = turns[t].items
  ELSE turns[t].status = "error"

OutboxOf(t) ==
  outbox[t] # << >> =>
    /\ outbox[t] = <<Head(outbox[t])>>
    /\ Head(outbox[t]).turn = t
    /\ pc[t] # "none"
    /\ pc[t] # "done" => Head(outbox[t]).kind \in {"event", "created"}
    /\ pc[t] = "done" => /\ Head(outbox[t]).kind \in {"completed", "failed"}
                         /\ TellsOutcome(t, Head(outbox[t]))

OpeningOf(t) ==
  /\ log[t] = << >> <=> pc[t] = "none"
  /\ Places(log[t], {"started"}) = (IF log[t] = << >> THEN {} ELSE {1})

EndingOf(t) ==
  /\ Verdicts(t) # {} <=> pc[t] = "done" /\ outbox[t] = << >>
  /\ \A i \in Verdicts(t) :
       /\ TellsOutcome(t, log[t][i])
       /\ \A j \in DOMAIN log[t] : j > i => log[t][j].kind \in Response

\* Items whose item/created is still to be sent.
Unannounced(t) ==
  IF outbox[t] # << >> /\ Head(outbox[t]).kind = "created" THEN 1 ELSE 0

CountOf(t) ==
  turns[t].items = Cardinality(Places(log[t], {"created"})) + Unannounced(t)

SettledOf(t) == pc[t] = "done" => turns[t].completedAt

StreamOf(t) ==
  OutboxOf(t) /\ OpeningOf(t) /\ EndingOf(t) /\ CountOf(t) /\ SettledOf(t)

\* What the processor has to send is turn/started of a claimed turn, or a response
\* about a turn that has been announced.
ProcessorSends ==
  /\ processor.at = "started" => processor.msg.kind = "started"
  /\ processor.at = "reply" =>
       \/ processor.msg.turn = None
       \/ processor.msg.kind \in Response /\ pc[processor.msg.turn] # "none"

Stream == ProcessorSends /\ \A t \in Turn : StreamOf(t)

-----------------------------------------------------------------------------
(* The six things a step may do to the stream of turn t.                   *)

StaysQuiet(t) ==
  /\ log'[t] = log[t] /\ outbox'[t] = outbox[t]
  /\ pc'[t] = pc[t] \/ (InFlight(t) /\ InFlight(t)')
  /\ turns'[t].items = turns[t].items
  /\ pc[t] = "done" => turns'[t] = turns[t]

Opens(t) ==
  /\ processor.at = "started" /\ processor.msg.turn = t
  /\ log'[t] = Append(log[t], processor.msg)
  /\ pc[t] = "none" /\ pc'[t] = "launch"
  /\ outbox'[t] = outbox[t] /\ turns'[t] = turns[t]

Answers(t) ==
  /\ processor.at = "reply" /\ processor.msg.turn = t
  /\ log'[t] = Append(log[t], processor.msg)
  /\ pc'[t] = pc[t] /\ outbox'[t] = outbox[t] /\ turns'[t] = turns[t]

Queues(t, kind) ==
  /\ InFlight(t) /\ pc'[t] = pc[t]
  /\ outbox[t] = << >> /\ outbox'[t] = <<Plain(kind, t)>>
  /\ log'[t] = log[t]
  /\ turns'[t].items = turns[t].items + (IF kind = "created" THEN 1 ELSE 0)

Ends(t) ==
  /\ InFlight(t) /\ pc'[t] = "done"
  /\ log'[t] = log[t] /\ outbox[t] = << >>
  /\ turns'[t].completedAt /\ turns'[t].items = turns[t].items
  /\ \E m \in Message :
       /\ outbox'[t] = <<m>> /\ m.turn = t
       /\ m.kind \in {"completed", "failed"}
       /\ TellsOutcome(t, m)'

Sends(t) ==
  /\ outbox[t] # << >> /\ outbox'[t] = Tail(outbox[t])
  /\ log'[t] = Append(log[t], Head(outbox[t]))
  /\ pc'[t] = pc[t] /\ turns'[t] = turns[t]

\* Neither the end of the turn nor a message that leaves its runner.
GoesOn(t) ==
  \/ StaysQuiet(t) \/ Opens(t) \/ Answers(t)
  \/ \E kind \in {"event", "created"} : Queues(t, kind)

StreamStep(t) == GoesOn(t) \/ Ends(t) \/ Sends(t)

LEMMA QuietKeeps ==
  ASSUME NEW t \in Turn, StreamOf(t), StaysQuiet(t)
  PROVE  StreamOf(t)'
<1> USE DEF StreamOf, StaysQuiet
<1>1. /\ log'[t] = log[t] /\ outbox'[t] = outbox[t]
      /\ pc'[t] = "none" <=> pc[t] = "none"
      /\ pc'[t] = "done" <=> pc[t] = "done"
      /\ turns'[t].items = turns[t].items
      /\ pc[t] = "done" => turns'[t] = turns[t]
  BY DEF InFlight
<1>2. Verdicts(t)' = Verdicts(t)
  BY <1>1 DEF Verdicts
<1>3. OutboxOf(t)'
  BY <1>1 DEF OutboxOf, TellsOutcome
<1>4. OpeningOf(t)'
  BY <1>1 DEF OpeningOf
<1>5. EndingOf(t)'
  BY <1>1, <1>2 DEF EndingOf, TellsOutcome
<1>6. CountOf(t)'
  BY <1>1 DEF CountOf, Unannounced
<1>7. SettledOf(t)'
  BY <1>1 DEF SettledOf
<1> QED
  BY <1>3, <1>4, <1>5, <1>6, <1>7

\* What an append does to the places that the properties look at.
LEMMA AppendPlaces ==
  ASSUME IInv, NEW t \in Turn, NEW m \in Message, log'[t] = Append(log[t], m)
  PROVE  /\ log'[t] # << >> /\ Len(log[t]) \in Nat
         /\ DOMAIN log[t] = 1..Len(log[t])
         /\ DOMAIN log'[t] = 1..(Len(log[t]) + 1)
         /\ log'[t][Len(log[t]) + 1] = m
         /\ \A i \in DOMAIN log[t] : log'[t][i] = log[t][i]
         /\ m.kind \in {"completed", "failed"}
              => Verdicts(t)' = Verdicts(t) \cup {Len(log[t]) + 1}
         /\ m.kind \notin {"completed", "failed"} => Verdicts(t)' = Verdicts(t)
         /\ Verdicts(t) \subseteq 1..Len(log[t])
<1>1. log[t] \in Seq(Message)
  BY DEF IInv, TypeOK
<1>2. Verdicts(t)' = Places(Append(log[t], m), {"completed", "failed"})
  BY DEF Verdicts
<1>3. ASSUME m.kind \in {"completed", "failed"}
      PROVE  Verdicts(t)' = Verdicts(t) \cup {Len(log[t]) + 1}
  BY <1>1, <1>2, <1>3, PlacesAppend, Zenon DEF Verdicts
<1>4. ASSUME m.kind \notin {"completed", "failed"}
      PROVE  Verdicts(t)' = Verdicts(t)
  <2>1. Verdicts(t)' = Verdicts(t) \cup {}
    BY <1>1, <1>2, <1>4, PlacesAppend, Zenon DEF Verdicts
  <2> QED
    BY <2>1
<1>5. Verdicts(t) \subseteq 1..Len(log[t])
  BY <1>1, PlacesFinite DEF Verdicts
<1> QED
  BY <1>1, <1>3, <1>4, <1>5, SMTT(30)

\* An append that is not a verdict and adds no item, to a log that does not end:
\* the opening, and the places of starts and items.
LEMMA AppendKind ==
  ASSUME IInv, NEW t \in Turn, NEW m \in Message, log'[t] = Append(log[t], m),
         NEW kind, m.kind # kind
  PROVE  Places(log[t], {kind})' = Places(log[t], {kind})
<1>1. log[t] \in Seq(Message) /\ m.kind \notin {kind}
  BY DEF IInv, TypeOK
<1>2. Places(log[t], {kind})' = Places(Append(log[t], m), {kind})
  OBVIOUS
<1>3. Places(log[t], {kind})' = Places(log[t], {kind}) \cup {}
  BY <1>1, <1>2, PlacesAppend, Zenon
<1> QED
  BY <1>3

LEMMA OpensKeeps ==
  ASSUME IInv, Stream, NEW t \in Turn, Opens(t)
  PROVE  StreamOf(t)'
<1> DEFINE m == processor.msg
<1> USE DEF Opens
<1>1. m \in Message /\ m.kind = "started" /\ StreamOf(t)
  BY DEF IInv, TypeOK, Stream, ProcessorSends
<1>2. log[t] = << >> /\ outbox[t] = << >> /\ Verdicts(t) = {}
  BY <1>1 DEF StreamOf, OutboxOf, OpeningOf, EndingOf, Head
<1>3. Verdicts(t)' = {} /\ log'[t] # << >>
  BY <1>1, <1>2, AppendPlaces
<1>4. Places(log[t], {"started"})' = {1}
  <2>1. Places(log[t], {"started"})' = Places(Append(log[t], m), {"started"})
    OBVIOUS
  <2>2. Places(log[t], {"started"}) = {} /\ Len(log[t]) = 0
    BY <1>1, <1>2 DEF StreamOf, OpeningOf
  <2>3. log[t] \in Seq(Message) /\ m.kind \in {"started"}
    BY <1>1 DEF IInv, TypeOK
  <2>4. Places(log[t], {"started"})' = {} \cup {Len(log[t]) + 1}
    BY <1>1, <2>1, <2>2, <2>3, PlacesAppend, Zenon
  <2> QED
    BY <2>2, <2>4
<1>5. Places(log[t], {"created"})' = Places(log[t], {"created"})
  BY <1>1, AppendKind
<1>6. OutboxOf(t)' /\ SettledOf(t)'
  BY <1>2 DEF OutboxOf, SettledOf
<1>7. OpeningOf(t)'
  BY <1>3, <1>4 DEF OpeningOf
<1>8. EndingOf(t)'
  BY <1>3 DEF EndingOf
<1>9. CountOf(t)'
  BY <1>1, <1>2, <1>5 DEF StreamOf, CountOf, Unannounced
<1> QED
  BY <1>6, <1>7, <1>8, <1>9 DEF StreamOf

LEMMA AnswersKeeps ==
  ASSUME IInv, Stream, NEW t \in Turn, Answers(t)
  PROVE  StreamOf(t)'
<1> DEFINE m == processor.msg
<1> USE DEF Answers
<1>1. m \in Message /\ m.kind \in Response /\ pc[t] # "none" /\ StreamOf(t)
  BY NoneAssumption DEF IInv, TypeOK, Stream, ProcessorSends
<1>2. Verdicts(t)' = Verdicts(t) /\ log'[t] # << >>
  BY <1>1, AppendPlaces DEF Response
<1>3. /\ Places(log[t], {"started"})' = Places(log[t], {"started"})
      /\ Places(log[t], {"created"})' = Places(log[t], {"created"})
  BY <1>1, AppendKind DEF Response
<1>4. OutboxOf(t)' /\ SettledOf(t)'
  BY <1>1 DEF StreamOf, OutboxOf, SettledOf, TellsOutcome
<1>5. OpeningOf(t)'
  BY <1>1, <1>2, <1>3 DEF StreamOf, OpeningOf
<1>6. EndingOf(t)'
  <2>1. Verdicts(t)' # {} <=> pc'[t] = "done" /\ outbox'[t] = << >>
    BY <1>1, <1>2 DEF StreamOf, EndingOf
  <2>2. ASSUME NEW i \in Verdicts(t)'
        PROVE  /\ TellsOutcome(t, log[t][i])'
               /\ \A j \in DOMAIN log'[t] : j > i => log'[t][j].kind \in Response
    <3>1. i \in Verdicts(t) /\ i \in DOMAIN log[t] /\ log'[t][i] = log[t][i]
      BY <1>1, <1>2, AppendPlaces
    <3>2. TellsOutcome(t, log[t][i])'
      BY <1>1, <3>1 DEF StreamOf, EndingOf, TellsOutcome
    <3>3. ASSUME NEW j \in DOMAIN log'[t], j > i
          PROVE  log'[t][j].kind \in Response
      BY <1>1, <3>1, <3>3, AppendPlaces DEF StreamOf, EndingOf
    <3> QED
      BY <3>2, <3>3
  <2> QED
    BY <2>1, <2>2 DEF EndingOf
<1>7. CountOf(t)'
  BY <1>1, <1>3 DEF StreamOf, CountOf, Unannounced
<1> QED
  BY <1>4, <1>5, <1>6, <1>7 DEF StreamOf

LEMMA QueuesKeeps ==
  ASSUME IInv, Stream, NEW t \in Turn, NEW kind \in {"event", "created"},
         Queues(t, kind)
  PROVE  StreamOf(t)'
<1> USE DEF Queues
<1>1. StreamOf(t) /\ pc[t] # "none" /\ pc[t] # "done"
  BY DEF Stream, InFlight
<1>2. /\ outbox'[t] # << >> /\ Head(outbox'[t]) = Plain(kind, t)
      /\ Plain(kind, t).kind = kind /\ Plain(kind, t).turn = t
  BY DEF Plain
<1>3. Verdicts(t)' = {} /\ Verdicts(t) = {}
  BY <1>1 DEF StreamOf, EndingOf, Verdicts
<1>4. OutboxOf(t)' /\ SettledOf(t)'
  BY <1>1, <1>2 DEF OutboxOf, SettledOf
<1>5. OpeningOf(t)' /\ EndingOf(t)'
  BY <1>1, <1>2, <1>3 DEF StreamOf, OpeningOf, EndingOf
<1>6. CountOf(t)'
  <2>1. Unannounced(t) = 0 /\ turns[t].items = Cardinality(Places(log[t], {"created"})) + 0
    BY <1>1 DEF StreamOf, CountOf, Unannounced
  <2>2. Unannounced(t)' = IF kind = "created" THEN 1 ELSE 0
    BY <1>2 DEF Unannounced
  <2>3. turns[t].items \in Nat
    BY DEF IInv, TypeOK, TurnState
  <2> QED
    BY <2>1, <2>2, <2>3, PlacesFinite DEF CountOf, IInv, TypeOK
<1> QED
  BY <1>4, <1>5, <1>6 DEF StreamOf

LEMMA EndsKeeps ==
  ASSUME Stream, NEW t \in Turn, Ends(t)
  PROVE  StreamOf(t)'
<1> USE DEF Ends
<1>1. StreamOf(t) /\ pc[t] # "none" /\ pc[t] # "done"
  BY DEF Stream, InFlight
<1>2. PICK m \in Message : /\ outbox'[t] = <<m>> /\ m.turn = t
                           /\ m.kind \in {"completed", "failed"}
                           /\ TellsOutcome(t, m)'
  OBVIOUS
<1>3. outbox'[t] # << >> /\ Head(outbox'[t]) = m
  BY <1>2
<1>4. Verdicts(t)' = {}
  BY <1>1 DEF StreamOf, EndingOf, Verdicts
<1>5. OutboxOf(t)' /\ SettledOf(t)'
  BY <1>1, <1>2, <1>3 DEF OutboxOf, SettledOf
<1>6. OpeningOf(t)' /\ EndingOf(t)'
  BY <1>1, <1>3, <1>4 DEF StreamOf, OpeningOf, EndingOf
<1>7. CountOf(t)'
  BY <1>1, <1>2, <1>3 DEF StreamOf, CountOf, Unannounced
<1> QED
  BY <1>5, <1>6, <1>7 DEF StreamOf

LEMMA SendsKeeps ==
  ASSUME IInv, Stream, NEW t \in Turn, Sends(t)
  PROVE  StreamOf(t)'
<1>0. PICK m \in Message : m = Head(outbox[t])
  BY DEF Sends, IInv, TypeOK
<1> USE DEF Sends
<1>1. /\ StreamOf(t) /\ outbox[t] = <<m>> /\ log'[t] = Append(log[t], m)
      /\ pc[t] # "none" /\ Verdicts(t) = {}
      /\ pc[t] # "done" => m.kind \in {"event", "created"}
      /\ pc[t] = "done" => m.kind \in {"completed", "failed"} /\ TellsOutcome(t, m)
  BY <1>0 DEF Stream, StreamOf, OutboxOf, EndingOf
<1>2. outbox'[t] = << >> /\ log'[t] # << >>
  <2>1. Tail(<<m>>) = << >>
    OBVIOUS
  <2> QED
    BY <1>1, <2>1, AppendPlaces
<1>3. Places(log[t], {"started"})' = Places(log[t], {"started"})
  BY <1>1, AppendKind
<1>4. OutboxOf(t)' /\ SettledOf(t)'
  BY <1>1, <1>2 DEF StreamOf, OutboxOf, SettledOf
<1>5. OpeningOf(t)'
  BY <1>1, <1>2, <1>3 DEF StreamOf, OpeningOf
<1>6. EndingOf(t)'
  <2>1. CASE pc[t] # "done"
    BY <1>1, <1>2, <2>1, AppendPlaces DEF EndingOf
  <2>2. CASE pc[t] = "done"
    <3>1. Verdicts(t)' = {Len(log[t]) + 1} /\ log'[t][Len(log[t]) + 1] = m
      BY <1>1, <2>2, AppendPlaces
    <3>2. \A j \in DOMAIN log'[t] : ~ (j > Len(log[t]) + 1)
      BY <1>1, AppendPlaces
    <3>3. TellsOutcome(t, m)'
      BY <1>1, <2>2 DEF TellsOutcome
    <3> QED
      BY <1>2, <2>2, <3>1, <3>2, <3>3 DEF EndingOf, TellsOutcome
  <2> QED
    BY <2>1, <2>2
<1>7. CountOf(t)'
  <2>1. log[t] \in Seq(Message)
    BY DEF IInv, TypeOK
  <2>2. Places(log[t], {"created"})' = Places(Append(log[t], m), {"created"})
    BY <1>1
  <2>3. Cardinality(Places(log[t], {"created"}))' =
          Cardinality(Places(log[t], {"created"}))
            + (IF m.kind \in {"created"} THEN 1 ELSE 0)
    BY <1>1, <2>1, <2>2, PlacesCount
  <2>4. Unannounced(t)' = 0 /\ Unannounced(t) = IF m.kind = "created" THEN 1 ELSE 0
    BY <1>0, <1>2 DEF Unannounced
  <2> QED
    BY <1>1, <2>1, <2>3, <2>4, PlacesFinite DEF StreamOf, CountOf
<1> QED
  BY <1>4, <1>5, <1>6, <1>7 DEF StreamOf

-----------------------------------------------------------------------------
(* Every step does one of these six things to each turn.                   *)

LEMMA DoneIsFrozen ==
  ASSUME IInv, Stream, [Next]_vars, NEW t \in Turn, pc[t] = "done"
  PROVE  turns'[t] = turns[t]
<1>1. turns[t].completedAt
  BY DEF Stream, StreamOf, SettledOf
<1> QED
  BY <1>1, StepFrozen

LEMMA UnbornHasNoItems ==
  ASSUME IInv, Stream, NEW t \in Turn, pc[t] = "none"
  PROVE  turns[t].items = 0
<1>1. log[t] = << >> /\ outbox[t] = << >>
  BY DEF Stream, StreamOf, OpeningOf, OutboxOf
<1>2. Places(log[t], {"created"}) = {}
  BY <1>1 DEF Places
<1>3. Cardinality(Places(log[t], {"created"})) = 0
  BY <1>2, FS_EmptySet
<1> QED
  BY <1>1, <1>3 DEF Stream, StreamOf, CountOf, Unannounced

LEMMA HandlerIsQuiet ==
  ASSUME IInv, Stream, Handler, NEW t \in Turn
  PROVE  StaysQuiet(t)
<1>1. /\ log' = log /\ outbox' = outbox /\ pc' = pc
  BY DEF Handler, ThreadStart, ThreadFork, TurnStart, TurnSteer, TurnInterrupt,
         ApprovalRespond, ReadOrRefuse, Handle, runnerVars
<1>2. pc[t] = "done" => turns'[t] = turns[t]
  BY DoneIsFrozen DEF Next
<1>3. turns'[t].items = turns[t].items
  <2>1. ASSUME NEW th \in Thread, NEW content \in Content, TurnStart(th, content)
        PROVE  turns'[t].items = turns[t].items
    <3>1. PICK u \in Turn : /\ turns[u].thread = None
                            /\ turns' = [turns EXCEPT ![u] = NewTurn(th, content)]
      BY <2>1 DEF TurnStart
    <3>2. pc[u] = "none"
      BY <3>1 DEF IInv, Ownership, RunnerHasTurn, Owner
    <3>3. turns[u].items = 0
      BY <3>2, UnbornHasNoItems
    <3> QED
      BY <3>1, <3>3 DEF NewTurn, IInv, TypeOK
  <2>2. ASSUME NEW th \in Thread, NEW content \in Content, TurnSteer(th, content)
        PROVE  turns'[t].items = turns[t].items
    BY <2>2 DEF TurnSteer, IInv, TypeOK, TurnState
  <2>3. ASSUME NEW th \in Thread, TurnInterrupt(th)
        PROVE  turns'[t].items = turns[t].items
    BY <2>3 DEF TurnInterrupt, IInv, TypeOK, TurnState
  <2>4. CASE UNCHANGED turns
    BY <2>4
  <2> QED
    BY <2>1, <2>2, <2>3, <2>4
       DEF Handler, ThreadStart, ThreadFork, ApprovalRespond, ReadOrRefuse
<1> QED
  BY <1>1, <1>2, <1>3 DEF StaysQuiet

LEMMA HandlerSends ==
  ASSUME IInv, Handler
  PROVE  ProcessorSends'
<1>1. processor.at = "idle" /\ pc' = pc
  BY DEF Handler, ThreadStart, ThreadFork, TurnStart, TurnSteer, TurnInterrupt,
         ApprovalRespond, ReadOrRefuse, Handle, runnerVars
<1>2. ASSUME NEW th \in Thread, Busy(th)
      PROVE  pc[threads[th].active] # "none"
  <2>1. threads[th].active \in Turn /\ Owner(threads[th].active) = th
    BY <1>2 DEF IInv, TypeOK, ThreadState, Ownership, RunnerOwnsActive, Busy
  <2>2. th # None
    BY NoneAssumption
  <2>3. Starting(threads[th].active) \/ InFlight(threads[th].active)
    BY <2>1, <2>2 DEF IInv, Ownership, RunnerOwnsActive, ActiveOf
  <2> QED
    BY <1>1, <2>3 DEF Starting, InFlight
<1>3. ASSUME NEW th \in Thread, NEW content \in Content, TurnStart(th, content)
      PROVE  ProcessorSends'
  BY <1>3 DEF TurnStart, Handle, Plain, ProcessorSends
<1>4. ASSUME NEW th \in Thread, NEW content \in Content, TurnSteer(th, content)
      PROVE  ProcessorSends'
  BY <1>1, <1>2, <1>4 DEF TurnSteer, Handle, Plain, ProcessorSends, Response
<1>5. ASSUME NEW th \in Thread, TurnInterrupt(th)
      PROVE  ProcessorSends'
  BY <1>1, <1>2, <1>5 DEF TurnInterrupt, Handle, Plain, ProcessorSends, Response
<1>6. CASE Handle("reply", Plain("reply", None))
  BY <1>6 DEF Handle, Plain, ProcessorSends
<1> QED
  BY <1>3, <1>4, <1>5, <1>6
     DEF Handler, ThreadStart, ThreadFork, ApprovalRespond, ReadOrRefuse

LEMMA ProcessorGoesOn ==
  ASSUME IInv, Processor, NEW t \in Turn
  PROVE  GoesOn(t)
<1>1. CASE NotifyStarted
  <2> DEFINE u == processor.msg.turn
  <2> USE <1>1 DEF NotifyStarted
  <2>1. u \in Turn /\ pc[u] = "none"
    BY DEF IInv, Ownership, StartingHasTurn, ClaimedTurnIsBorn, Starting
  <2>2. /\ log' = [log EXCEPT ![u] = Append(@, processor.msg)]
        /\ pc' = [pc EXCEPT ![u] = "launch"]
        /\ outbox' = outbox /\ turns' = turns
    OBVIOUS
  <2>3. CASE t = u
    <3>1. /\ log'[t] = Append(log[t], processor.msg) /\ pc'[t] = "launch"
          /\ outbox'[t] = outbox[t] /\ turns'[t] = turns[t]
      BY <2>2, <2>3 DEF IInv, TypeOK
    <3> QED
      BY <2>1, <2>3, <3>1 DEF Opens, GoesOn
  <2>4. CASE t # u
    <3>1. log'[t] = log[t] /\ pc'[t] = pc[t]
      BY <2>2, <2>4 DEF IInv, TypeOK
    <3> QED
      BY <2>2, <3>1 DEF StaysQuiet, GoesOn
  <2> QED
    BY <2>3, <2>4
<1>2. CASE SendResponse
  <2> USE <1>2 DEF SendResponse
  <2>1. pc' = pc /\ outbox' = outbox /\ turns' = turns
    BY DEF runnerVars
  <2>2. CASE t = processor.msg.turn
    BY <2>1, <2>2 DEF Answers, GoesOn
  <2>3. CASE t # processor.msg.turn
    BY <2>1, <2>3 DEF StaysQuiet, GoesOn
  <2> QED
    BY <2>2, <2>3
<1> QED
  BY <1>1, <1>2 DEF Processor

LEMMA ProcessorKeepsSending ==
  ASSUME IInv, Processor
  PROVE  ProcessorSends'
<1>1. CASE NotifyStarted
  <2>1. processor.msg.turn \in Turn
    BY <1>1 DEF NotifyStarted, IInv, Ownership, StartingHasTurn
  <2> QED
    BY <1>1, <2>1 DEF NotifyStarted, ProcessorSends, Plain, Response, IInv, TypeOK
<1>2. CASE SendResponse
  BY <1>2 DEF SendResponse, ProcessorSends
<1> QED
  BY <1>1, <1>2 DEF Processor

\* What the runner of u does leaves the streams of all other turns alone.
LEMMA OthersAreQuiet ==
  ASSUME IInv, Stream, NEW u \in Turn, NEW t \in Turn, t # u,
         Runner(u) \/ ReadLine(u) \/ WaitFails(u)
  PROVE  StaysQuiet(t)
<1>1. pc'[t] = pc[t]
  BY DEF Runner, ReadLine, Launch, Attach, WriteStdin, Eof, Waited,
         CheckInterrupted, Finish, Fail, Notify, ReadSession, ReadResult, ReadItem,
         ReadProgress, ReadError, WaitFails, Goto, IInv, TypeOK
<1>2. outbox'[t] = outbox[t]
  BY DEF Runner, ReadLine, Launch, Attach, WriteStdin, Eof, Waited,
         CheckInterrupted, Finish, Fail, Notify, ReadSession, ReadResult, ReadItem,
         ReadProgress, ReadError, WaitFails, Send, IInv, TypeOK
<1>3. log'[t] = log[t]
  <2>1. CASE Notify(u)
    <3>1. Head(outbox[u]).turn = u
      BY <2>1 DEF Notify, Stream, StreamOf, OutboxOf
    <3> QED
      BY <2>1, <3>1 DEF Notify, IInv, TypeOK
  <2>2. CASE log' = log
    BY <2>2
  <2> QED
    BY <2>1, <2>2
       DEF Runner, ReadLine, Launch, Attach, WriteStdin, Eof, Waited,
           CheckInterrupted, Finish, Fail, ReadSession, ReadResult, ReadItem,
           ReadProgress, ReadError, TakeLine, WaitFails
<1>4. turns'[t] = turns[t]
  <2>1. CASE turns' = turns
    BY <2>1
  <2>2. CASE Attach(u) \/ Finish(u) \/ Fail(u) \/ ReadLine(u)
    <3>1. ActiveOf(u) = u
      BY <2>2, RunnerTurn
         DEF Attach, Finish, Fail, ReadLine, ReadSession, ReadResult, ReadItem,
             ReadProgress, ReadError, TakeLine, At
    <3> QED
      BY <2>2, <3>1
         DEF Attach, Finish, Fail, ReadLine, ReadSession, ReadResult, ReadItem,
             ReadProgress, ReadError, IInv, TypeOK
  <2> QED
    BY <2>1, <2>2
       DEF Runner, Launch, WriteStdin, Eof, Waited, CheckInterrupted, Notify,
           WaitFails, serverVars
<1> QED
  BY <1>1, <1>2, <1>3, <1>4 DEF StaysQuiet

\* Between spawn and verdict most steps of a runner say nothing.
LEMMA WorkIsQuiet ==
  ASSUME IInv, NEW t \in Turn,
         \/ Launch(t) \/ Attach(t) \/ WriteStdin(t) \/ Eof(t) \/ Waited(t)
         \/ CheckInterrupted(t) \/ WaitFails(t) \/ ReadError(t)
         \/ \E s \in Session : ReadSession(t, s)
  PROVE  StaysQuiet(t)
<1>1. InFlight(t) /\ InFlight(t)'
  BY DEF Launch, Attach, WriteStdin, Eof, Waited, CheckInterrupted, WaitFails,
         ReadError, ReadSession, TakeLine, At, Goto, InFlight, IInv, TypeOK
<1>2. log' = log /\ outbox' = outbox
  BY DEF Launch, Attach, WriteStdin, Eof, Waited, CheckInterrupted, WaitFails,
         ReadError, ReadSession, TakeLine
<1>3. turns'[t].items = turns[t].items
  <2>1. turns[t] \in TurnState
    BY DEF IInv, TypeOK
  <2>2. CASE Attach(t)
    BY <2>1, <2>2 DEF Attach, TurnState
  <2>3. CASE turns' = turns
    BY <2>3
  <2> QED
    BY <2>2, <2>3
       DEF Launch, WriteStdin, Eof, Waited, CheckInterrupted, WaitFails, ReadError,
           ReadSession, serverVars
<1> QED
  BY <1>1, <1>2, <1>3 DEF StaysQuiet, InFlight

LEMMA ReadGoesOn ==
  ASSUME IInv, NEW t \in Turn, ReadLine(t)
  PROVE  GoesOn(t)
<1>1. /\ pc[t] = "read" /\ outbox[t] = << >> /\ log' = log
      /\ InFlight(t) /\ ActiveOf(t) = t
  BY RunnerTurn DEF ReadLine, ReadSession, ReadResult, ReadItem, ReadProgress,
                    ReadError, TakeLine, At, InFlight
<1>2. turns[t] \in TurnState /\ outbox \in [Turn -> Seq(Message)]
  BY DEF IInv, TypeOK
<1>3. ASSUME NEW s \in Session \cup {None}, NEW failed \in BOOLEAN,
             NEW denied \in BOOLEAN, ReadResult(t, s, failed, denied)
      PROVE  GoesOn(t)
  <2>1. turns'[t].items = turns[t].items /\ turns[t].items \in Nat
    <3>1. \/ turns'[t] = turns[t]
          \/ turns'[t] = [turns[t] EXCEPT !.status = "error", !.error = TRUE]
      BY <1>3, Zenon DEF ReadResult
    <3> QED
      BY <1>2, <3>1 DEF TurnState
  <2>2. pc' = pc
    BY <1>3 DEF ReadResult
  <2>3. outbox' = [outbox EXCEPT ![t] =
                     IF denied THEN <<Plain("event", t)>> ELSE << >>]
    BY <1>3, Zenon DEF ReadResult, Send
  <2>4. CASE denied
    <3>1. outbox'[t] = <<Plain("event", t)>>
      BY <1>2, <2>3, <2>4
    <3>2. Queues(t, "event")
      BY <1>1, <2>1, <2>2, <3>1 DEF Queues
    <3> QED
      BY <3>2, Zenon DEF GoesOn
  <2>5. CASE ~denied
    <3>1. outbox'[t] = << >>
      BY <1>2, <2>3, <2>5
    <3>2. StaysQuiet(t)
      BY <1>1, <2>1, <2>2, <3>1 DEF StaysQuiet, InFlight
    <3> QED
      BY <3>2 DEF GoesOn
  <2> QED
    BY <2>4, <2>5
<1>4. CASE ReadItem(t)
  <2>1. turns'[t].items = turns[t].items + 1
    BY <1>1, <1>2, <1>4 DEF ReadItem, TurnState
  <2>2. outbox'[t] = <<Plain("created", t)>> /\ pc' = pc
    BY <1>1, <1>2, <1>4, NoneAssumption DEF ReadItem, Send
  <2>3. Queues(t, "created")
    BY <1>1, <2>1, <2>2 DEF Queues
  <2> QED
    BY <2>3, Zenon DEF GoesOn
<1>5. CASE ReadProgress(t)
  <2>1. outbox'[t] = <<Plain("event", t)>> /\ pc' = pc /\ turns' = turns
    BY <1>2, <1>5 DEF ReadProgress, Send
  <2>2. Queues(t, "event")
    BY <1>1, <1>2, <2>1 DEF Queues, TurnState
  <2> QED
    BY <2>2, Zenon DEF GoesOn
<1>6. CASE ReadError(t) \/ \E s \in Session : ReadSession(t, s)
  BY <1>6, WorkIsQuiet DEF GoesOn
<1> QED
  BY <1>3, <1>4, <1>5, <1>6 DEF ReadLine, ReadResult

LEMMA FinishIsEnd ==
  ASSUME IInv, NEW t \in Turn, Finish(t)
  PROVE  Ends(t)
<1> USE DEF Finish, At, Goto, Send
<1>1. /\ Owner(t) \in Thread /\ ActiveOf(t) = t /\ pc[t] = "finish"
      /\ outbox[t] = << >> /\ log' = log
  BY RunnerTurn
<1>2. turns[t] \in TurnState /\ turns[t].items \in Nat
  BY DEF IInv, TypeOK, TurnState
<1>2a. Outcome(t) \in Status
  BY DEF Outcome, Status
<1>3. turns'[t] = [turns[t] EXCEPT !.status = Outcome(t), !.completedAt = TRUE]
  BY <1>1
<1>4. /\ turns'[t].completedAt = TRUE /\ turns'[t].items = turns[t].items
      /\ turns'[t].status = Outcome(t)
  BY <1>2, <1>3 DEF TurnState
<1>5. PICK m \in Message : m = Completion(t, Outcome(t))
  BY <1>2, <1>2a DEF Completion, Message, Kind
<1>6. outbox'[t] = <<m>>
  BY <1>1, <1>5, NoneAssumption DEF IInv, TypeOK
<1>7. m.turn = t /\ m.kind = "completed"
      /\ m.status = turns'[t].status /\ m.items = turns'[t].items
  BY <1>4, <1>5 DEF Completion
<1>8. pc'[t] = "done" /\ InFlight(t)
  BY <1>1 DEF InFlight, IInv, TypeOK
<1> QED
  BY <1>1, <1>4, <1>6, <1>7, <1>8 DEF Ends, TellsOutcome

LEMMA FailIsEnd ==
  ASSUME IInv, NEW t \in Turn, Fail(t)
  PROVE  Ends(t)
<1> USE DEF Fail, At, Goto, Send
<1>1. /\ ActiveOf(t) = t /\ pc[t] = "fail" /\ outbox[t] = << >> /\ log' = log
  BY RunnerTurn
<1>2. turns[t] \in TurnState
  BY DEF IInv, TypeOK
<1>3. turns'[t] = [turns[t] EXCEPT !.status = "error", !.error = TRUE,
                                   !.completedAt = TRUE]
  BY <1>1
<1>4. /\ turns'[t].completedAt = TRUE /\ turns'[t].items = turns[t].items
      /\ turns'[t].status = "error"
  BY <1>2, <1>3 DEF TurnState
<1>5. PICK m \in Message : m = Plain("failed", t)
  BY PlainType DEF Kind
<1>6. outbox'[t] = <<m>> /\ m.turn = t /\ m.kind = "failed"
  BY <1>5 DEF IInv, TypeOK, Plain
<1>7. pc'[t] = "done" /\ InFlight(t)
  BY <1>1 DEF InFlight, IInv, TypeOK
<1> QED
  BY <1>1, <1>4, <1>6, <1>7 DEF Ends, TellsOutcome

LEMMA RunnerIsStreamStep ==
  ASSUME IInv, Stream, NEW u \in Turn, Runner(u) \/ ReadLine(u) \/ WaitFails(u),
         NEW t \in Turn
  PROVE  StreamStep(t)
<1>1. CASE t # u
  BY <1>1, OthersAreQuiet DEF StreamStep, GoesOn
<1>2. CASE Notify(t)
  <2>1. Head(outbox[t]).turn = t
    BY <1>2 DEF Notify, Stream, StreamOf, OutboxOf
  <2>2. Sends(t)
    BY <1>2, <2>1 DEF Notify, Sends, serverVars, IInv, TypeOK
  <2> QED
    BY <2>2, Zenon DEF StreamStep
<1>3. CASE ReadLine(t)
  BY <1>3, ReadGoesOn, Zenon DEF StreamStep
<1>4. CASE Finish(t) \/ Fail(t)
  BY <1>4, FinishIsEnd, FailIsEnd DEF StreamStep, GoesOn
<1>5. CASE \/ Launch(t) \/ Attach(t) \/ WriteStdin(t) \/ Eof(t) \/ Waited(t)
           \/ CheckInterrupted(t) \/ WaitFails(t)
  BY <1>5, WorkIsQuiet DEF StreamStep, GoesOn
<1> QED
  BY <1>1, <1>2, <1>3, <1>4, <1>5 DEF Runner

LEMMA RunnerSends ==
  ASSUME IInv, Stream, NEW u \in Turn, Runner(u) \/ ReadLine(u) \/ WaitFails(u)
  PROVE  ProcessorSends'
<1>1. processor' = processor
  BY DEF Runner, ReadLine, Launch, Attach, WriteStdin, Eof, Waited,
         CheckInterrupted, Finish, Fail, Notify, ReadSession, ReadResult, ReadItem,
         ReadProgress, ReadError, TakeLine, WaitFails, serverVars
<1>2. \A t \in Turn : pc[t] # "none" => pc'[t] # "none"
  <2> SUFFICES ASSUME NEW t \in Turn, pc[t] # "none" PROVE pc'[t] # "none"
    OBVIOUS
  <2>1. StreamStep(t)
    BY RunnerIsStreamStep
  <2> QED
    BY <2>1 DEF StreamStep, GoesOn, StaysQuiet, Opens, Answers, Queues, Ends, Sends, InFlight
<1>3. processor.msg.turn \in Turn \cup {None}
  BY DEF IInv, TypeOK, Message
<1> QED
  BY <1>1, <1>2, <1>3 DEF Stream, ProcessorSends

-----------------------------------------------------------------------------
(* The inductive invariant of the stream.                                  *)

LEMMA InitStream == Init => Stream
<1> SUFFICES ASSUME Init PROVE Stream
  OBVIOUS
<1>1. ProcessorSends
  BY DEF Init, ProcessorSends
<1>2. ASSUME NEW t \in Turn
      PROVE  StreamOf(t)
  <2>1. /\ log[t] = << >> /\ outbox[t] = << >> /\ pc[t] = "none"
        /\ turns[t].items = 0
    BY DEF Init, NewTurn
  <2>2. Places(log[t], {"started"}) = {} /\ Places(log[t], {"created"}) = {}
        /\ Verdicts(t) = {}
    BY <2>1 DEF Places, Verdicts
  <2>3. Cardinality(Places(log[t], {"created"})) = 0
    BY <2>2, FS_EmptySet
  <2> QED
    BY <2>1, <2>2, <2>3
       DEF StreamOf, OutboxOf, OpeningOf, EndingOf, CountOf, SettledOf, Unannounced
<1> QED
  BY <1>1, <1>2 DEF Stream

LEMMA StepIsStreamStep ==
  ASSUME IInv, Stream, [Next]_vars
  PROVE  /\ \A t \in Turn : StreamStep(t)
         /\ ProcessorSends'
<1>1. CASE Handler
  <2>1. ASSUME NEW t \in Turn
        PROVE  StreamStep(t)
    BY <1>1, HandlerIsQuiet, Zenon DEF StreamStep, GoesOn
  <2> QED
    BY <1>1, <2>1, HandlerSends
<1>2. CASE Processor
  <2>1. ASSUME NEW t \in Turn
        PROVE  StreamStep(t)
    BY <1>2, ProcessorGoesOn, Zenon DEF StreamStep
  <2> QED
    BY <1>2, <2>1, ProcessorKeepsSending
<1>3. ASSUME NEW u \in Turn, Runner(u) \/ ReadLine(u) \/ WaitFails(u)
      PROVE  /\ \A t \in Turn : StreamStep(t)
             /\ ProcessorSends'
  BY <1>3, RunnerIsStreamStep, RunnerSends
<1>4. CASE UNCHANGED <<processor, pc, outbox, log, turns>>
  BY <1>4 DEF StreamStep, GoesOn, StaysQuiet, Stream, ProcessorSends
<1>5. ASSUME NEW u \in Turn, CancelKill(u) \/ ChildExit(u) \/ StdoutCloses(u)
      PROVE  UNCHANGED <<processor, pc, outbox, log, turns>>
  BY <1>5 DEF CancelKill, ChildExit, StdoutCloses, serverVars, runnerVars
<1>6. Terminated \/ UNCHANGED vars => UNCHANGED <<processor, pc, outbox, log, turns>>
  BY DEF Terminated, vars, serverVars, runnerVars
<1> QED
  BY <1>1, <1>2, <1>3, <1>4, <1>5, <1>6 DEF Next

LEMMA StepStream == IInv /\ Stream /\ [Next]_vars => Stream'
<1> SUFFICES ASSUME IInv, Stream, [Next]_vars PROVE Stream'
  OBVIOUS
<1>1. ASSUME NEW t \in Turn
      PROVE  StreamOf(t)'
  <2>1. StreamStep(t) /\ StreamOf(t)
    BY StepIsStreamStep DEF Stream
  <2> QED
    BY <2>1, QuietKeeps, OpensKeeps, AnswersKeeps, QueuesKeeps, EndsKeeps, SendsKeeps
       DEF StreamStep, GoesOn
<1> QED
  BY <1>1, StepIsStreamStep DEF Stream

\* What has been sent of a turn, and what its runner has still to send, is what the
\* runner's place in its program calls for: Stream is inductive.
THEOREM StreamInvariant == Spec => []Stream
<1>1. Init => Stream
  BY InitStream
<1>2. IInv /\ Stream /\ [Next]_vars => Stream'
  BY StepStream
<1> QED
  BY <1>1, <1>2, InductiveInvariant, PTL DEF Spec

\* The notifications of a turn open with turn/started, hold at most one verdict and
\* end with it, whatever the processor and the runners interleave.
THEOREM StreamsAreWellFormed == Spec => []WellFormedStream
<1>1. Stream => WellFormedStream
  BY DEF Stream, StreamOf, OpeningOf, EndingOf, Response, WellFormedStream
<1> QED
  BY <1>1, StreamInvariant, PTL

\* turn/completed and turn/failed tell what the store keeps of the turn, with as
\* many items as item/created announced; and a turn that is over has told one.
THEOREM VerdictsTellOutcomes == Spec => []VerdictTellsOutcome
<1>1. IInv /\ Stream => VerdictTellsOutcome
  <2> SUFFICES ASSUME IInv, Stream, NEW t \in Turn
               PROVE  /\ \A i \in Verdicts(t) :
                           IF log[t][i].kind = "completed"
                           THEN /\ log[t][i].status = turns[t].status
                                /\ log[t][i].items =
                                     Cardinality(Places(log[t], {"created"}))
                           ELSE turns[t].status = "error"
                      /\ pc[t] = "done" /\ outbox[t] = << >> => Verdicts(t) # {}
    BY DEF VerdictTellsOutcome
  <2>1. StreamOf(t)
    BY DEF Stream
  <2>2. Verdicts(t) # {} => Unannounced(t) = 0
    BY <2>1 DEF StreamOf, EndingOf, Unannounced
  <2>3. Cardinality(Places(log[t], {"created"})) \in Nat
    BY PlacesFinite DEF IInv, TypeOK
  <2> QED
    BY <2>1, <2>2, <2>3 DEF StreamOf, EndingOf, CountOf, TellsOutcome
<1> QED
  BY <1>1, InductiveInvariant, StreamInvariant, PTL

-----------------------------------------------------------------------------
(* TurnLifecycle implements TurnService.  The refinement needs two facts   *)
(* more: a turn that was begun has a runner or gets one before the         *)
(* processor does anything else, and a turn ends as interrupted only if it *)
(* was asked to.                                                           *)

SpawnedOf(t) == Owner(t) # None /\ pc[t] = "none" => Starting(t)
AskedOf(t) ==
  /\ Owner(t) = None => ~turns[t].cancel
  /\ pc[t] = "finish" /\ interrupted[t] => turns[t].cancel

Mandates == \A t \in Turn : SpawnedOf(t) /\ AskedOf(t)

\* Who began the turn and whether it was asked to stop stay as they are.
SameMandate(t) ==
  turns'[t].thread = turns[t].thread /\ turns'[t].cancel = turns[t].cancel

LEMMA RunnerKeepsMandates ==
  ASSUME IInv, NEW u \in Turn, Runner(u) \/ ReadLine(u) \/ WaitFails(u), NEW t \in Turn
  PROVE  SameMandate(t)
<1>1. turns[t] \in TurnState
  BY DEF IInv, TypeOK
<1>2. CASE turns' = turns
  BY <1>2 DEF SameMandate
<1>3. CASE Attach(u) \/ Finish(u) \/ Fail(u) \/ ReadItem(u)
  BY <1>1, <1>3, ZenonT(60) DEF Attach, Finish, Fail, ReadItem, SameMandate, TurnState
<1>4. ASSUME NEW s, NEW failed, NEW denied, ReadResult(u, s, failed, denied)
      PROVE  SameMandate(t)
  <2>1. \/ turns'[t] = turns[t]
        \/ turns'[t] = [turns[t] EXCEPT !.status = "error", !.error = TRUE]
    BY <1>4, Zenon DEF ReadResult
  <2> QED
    BY <1>1, <2>1 DEF SameMandate, TurnState
<1>5. CASE Runner(u)
  BY <1>2, <1>3, <1>5
     DEF Runner, Launch, WriteStdin, Eof, Waited, CheckInterrupted, Notify, serverVars
<1>6. CASE ReadLine(u)
  BY <1>2, <1>3, <1>4, <1>6 DEF ReadLine, ReadSession, ReadProgress, ReadError
<1> QED
  BY <1>2, <1>5, <1>6 DEF WaitFails, serverVars

LEMMA OthersKeepMandates ==
  ASSUME IInv, [Next]_vars, NEW t \in Turn,
         ~ \E th \in Thread, content \in Content : TurnStart(th, content),
         ~ \E th \in Thread : TurnInterrupt(th)
  PROVE  SameMandate(t)
<1>1. turns[t] \in TurnState
  BY DEF IInv, TypeOK
<1>2. CASE turns' = turns
  BY <1>2 DEF SameMandate
<1>3. ASSUME NEW th \in Thread, NEW content \in Content, TurnSteer(th, content)
      PROVE  SameMandate(t)
  BY <1>1, <1>3 DEF TurnSteer, SameMandate, TurnState, IInv, TypeOK
<1>4. CASE Handler
  BY <1>2, <1>3, <1>4
     DEF Handler, ThreadStart, ThreadFork, ApprovalRespond, ReadOrRefuse
<1>5. ASSUME NEW u \in Turn, CancelKill(u) \/ ChildExit(u) \/ StdoutCloses(u)
      PROVE  turns' = turns
  BY <1>5 DEF CancelKill, ChildExit, StdoutCloses, serverVars
<1>6. Processor \/ Terminated \/ UNCHANGED vars => turns' = turns
  BY DEF Processor, NotifyStarted, SendResponse, Terminated, vars, serverVars
<1> QED
  BY <1>2, <1>4, <1>5, <1>6, RunnerKeepsMandates DEF Next

\* A runner reaches the end of its turn through the check for an interrupt only.
LEMMA FinishPlace ==
  ASSUME IInv, [Next]_vars, NEW t \in Turn, pc'[t] = "finish"
  PROVE  \/ CheckInterrupted(t)
         \/ pc[t] = "finish" /\ interrupted'[t] = interrupted[t]
<1>1. pc \in [Turn -> RunnerPlace] /\ interrupted \in [Turn -> BOOLEAN]
  BY DEF IInv, TypeOK
<1>2. CASE Handler
  BY <1>2 DEF Handler, ThreadStart, ThreadFork, TurnStart, TurnSteer, TurnInterrupt,
              ApprovalRespond, ReadOrRefuse, Handle, runnerVars
<1>3. CASE Processor
  BY <1>1, <1>3 DEF Processor, NotifyStarted, SendResponse, runnerVars
<1>4. ASSUME NEW u \in Turn, CheckInterrupted(u), u # t
      PROVE  pc[t] = "finish" /\ interrupted'[t] = interrupted[t]
  BY <1>1, <1>4 DEF CheckInterrupted, Goto
<1>5. ASSUME NEW u \in Turn,
             \/ Launch(u) \/ Attach(u) \/ WriteStdin(u) \/ Eof(u) \/ Waited(u)
             \/ Finish(u) \/ Fail(u) \/ Notify(u) \/ ReadLine(u) \/ WaitFails(u)
             \/ CancelKill(u) \/ ChildExit(u) \/ StdoutCloses(u)
      PROVE  pc[t] = "finish" /\ interrupted'[t] = interrupted[t]
  <2>1. interrupted' = interrupted
    BY <1>5
       DEF Launch, Attach, WriteStdin, Eof, Waited, Finish, Fail, Notify, ReadLine,
           ReadSession, ReadResult, ReadItem, ReadProgress, ReadError, TakeLine,
           WaitFails, CancelKill, ChildExit, StdoutCloses, runnerVars
  <2>2. pc[t] = "finish"
    BY <1>1, <1>5
       DEF Launch, Attach, WriteStdin, Eof, Waited, Finish, Fail, Notify, ReadLine,
           ReadSession, ReadResult, ReadItem, ReadProgress, ReadError, Goto,
           WaitFails, CancelKill, ChildExit, StdoutCloses, runnerVars
  <2> QED
    BY <2>1, <2>2
<1>6. Terminated \/ UNCHANGED vars => UNCHANGED <<pc, interrupted>>
  BY DEF Terminated, vars, runnerVars
<1> QED
  BY <1>2, <1>3, <1>4, <1>5, <1>6 DEF Next, Runner

\* A turn that is interrupted is the active one of its thread, and is at work.
LEMMA InterruptReachesWork ==
  ASSUME IInv, Stream, NEW th \in Thread, Busy(th)
  PROVE  /\ threads[th].active \in Turn /\ Owner(threads[th].active) = th
         /\ th # None /\ pc[threads[th].active] # "done"
<1>1. threads[th].active \in Turn /\ Owner(threads[th].active) = th /\ th # None
  BY NoneAssumption DEF IInv, TypeOK, ThreadState, Ownership, RunnerOwnsActive, Busy
<1>2. Starting(threads[th].active) \/ InFlight(threads[th].active)
  BY <1>1 DEF IInv, Ownership, RunnerOwnsActive, ActiveOf
<1>3. Starting(threads[th].active) => pc[threads[th].active] = "none"
  BY <1>1 DEF IInv, Ownership, ClaimedTurnIsBorn
<1> QED
  BY <1>1, <1>2, <1>3 DEF InFlight

LEMMA StepAsked ==
  ASSUME IInv, [Next]_vars, NEW t \in Turn, AskedOf(t),
         SameMandate(t) \/ (turns'[t].cancel /\ Owner(t)' # None)
  PROVE  AskedOf(t)'
<1>1. Owner(t)' = None => ~turns'[t].cancel
  BY DEF AskedOf, SameMandate, Owner
<1>2. ASSUME pc'[t] = "finish", interrupted'[t], SameMandate(t)
      PROVE  turns'[t].cancel
  <2>1. CASE CheckInterrupted(t)
    <3>1. ActiveOf(t) = t
      BY <2>1, RunnerTurn DEF CheckInterrupted, At
    <3>2. interrupted' = [interrupted EXCEPT ![t] = ActiveOf(t) # None
                                                   /\ turns[ActiveOf(t)].cancel]
      BY <2>1, Zenon DEF CheckInterrupted
    <3>3. interrupted'[t] = (ActiveOf(t) # None /\ turns[ActiveOf(t)].cancel)
      BY <3>2, Zenon DEF IInv, TypeOK
    <3>4. turns[t].cancel
      BY <1>2, <3>1, <3>3
    <3> QED
      BY <1>2, <3>4 DEF SameMandate
  <2>2. CASE pc[t] = "finish" /\ interrupted'[t] = interrupted[t]
    BY <1>2, <2>2 DEF AskedOf, SameMandate
  <2> QED
    BY <1>2, <2>1, <2>2, FinishPlace
<1> QED
  BY <1>1, <1>2 DEF AskedOf

LEMMA StepSpawned ==
  ASSUME IInv, Stream, [Next]_vars, NEW t \in Turn, SpawnedOf(t),
         turns'[t].thread = turns[t].thread
  PROVE  SpawnedOf(t)'
<1> SUFFICES ASSUME Owner(t) # None, pc'[t] = "none" PROVE Starting(t)'
  BY DEF SpawnedOf, Owner
<1>1. pc[t] = "none" /\ ~Opens(t)
  BY StepIsStreamStep DEF StreamStep, GoesOn, StaysQuiet, Opens, Answers, Ends, Sends, Queues, InFlight
<1>2. processor.at = "started" /\ processor.msg.turn = t
  BY <1>1 DEF SpawnedOf, Starting
<1>3. processor' = processor
  <2>1. ~Handler /\ ~SendResponse
    BY <1>2 DEF Handler, ThreadStart, ThreadFork, TurnStart, TurnSteer, TurnInterrupt,
                ApprovalRespond, ReadOrRefuse, Handle, SendResponse
  <2>2. ~NotifyStarted
    BY <1>2, <1>1 DEF NotifyStarted, IInv, TypeOK
  <2>3. ASSUME NEW u \in Turn, Runner(u) \/ ReadLine(u) \/ WaitFails(u)
        PROVE  processor' = processor
    BY <2>3 DEF Runner, ReadLine, Launch, Attach, WriteStdin, Eof, Waited,
         CheckInterrupted, Finish, Fail, Notify, ReadSession, ReadResult, ReadItem,
         ReadProgress, ReadError, TakeLine, WaitFails, serverVars
  <2>4. ASSUME NEW u \in Turn, CancelKill(u) \/ ChildExit(u) \/ StdoutCloses(u)
        PROVE  processor' = processor
    BY <2>4 DEF CancelKill, ChildExit, StdoutCloses, serverVars
  <2>5. Terminated \/ UNCHANGED vars => processor' = processor
    BY DEF Terminated, vars, serverVars
  <2> QED
    BY <2>1, <2>2, <2>3, <2>4, <2>5 DEF Next, Processor
<1> QED
  BY <1>2, <1>3 DEF Starting

LEMMA StepMandates ==
  ASSUME IInv, Stream, Mandates, [Next]_vars
  PROVE  Mandates'
<1>1. ASSUME NEW th \in Thread, NEW content \in Content, TurnStart(th, content),
             NEW t \in Turn
      PROVE  SpawnedOf(t)' /\ AskedOf(t)'
  <2>1. PICK u \in Turn : /\ turns[u].thread = None
                          /\ Handle("started", Plain("started", u))
                          /\ turns' = [turns EXCEPT ![u] = NewTurn(th, content)]
    BY <1>1 DEF TurnStart
  <2>2. pc' = pc /\ Starting(u)'
    BY <2>1 DEF Handle, runnerVars, Starting, Plain
  <2>3. CASE t = u
    <3>1. pc'[t] = "none"
      BY <2>1, <2>2, <2>3 DEF IInv, Ownership, RunnerHasTurn, Owner
    <3>2. Owner(t)' = th /\ th # None
      BY <2>1, <2>3, NoneAssumption DEF Owner, NewTurn, IInv, TypeOK
    <3> QED
      BY <2>2, <2>3, <3>1, <3>2 DEF SpawnedOf, AskedOf
  <2>4. CASE t # u
    <3>1. turns'[t] = turns[t]
      BY <2>1, <2>4
    <3> QED
      BY <3>1, StepAsked, StepSpawned DEF Mandates, SameMandate, Next, Handler
  <2> QED
    BY <2>3, <2>4
<1>2. ASSUME NEW th \in Thread, TurnInterrupt(th), NEW t \in Turn
      PROVE  SpawnedOf(t)' /\ AskedOf(t)'
  <2>1. /\ turns[t] \in TurnState
        /\ turns' = [turns EXCEPT ![threads[th].active].cancel = TRUE]
    BY <1>2 DEF TurnInterrupt, IInv, TypeOK
  <2>2. CASE t = threads[th].active
    <3>1. Owner(t) # None
      BY <1>2, <2>2, InterruptReachesWork DEF TurnInterrupt
    <3>2. turns'[t].thread = turns[t].thread /\ turns'[t].cancel = TRUE
      BY <2>1, <2>2 DEF TurnState, IInv, TypeOK
    <3>3. Owner(t)' # None /\ turns'[t].cancel
      BY <3>1, <3>2 DEF Owner
    <3>4. SpawnedOf(t)'
      BY <3>2, StepSpawned DEF Mandates
    <3>5. AskedOf(t)'
      BY <3>3, StepAsked DEF Mandates
    <3> QED
      BY <3>4, <3>5
  <2>3. CASE t # threads[th].active
    <3>1. turns'[t] = turns[t]
      BY <2>1, <2>3
    <3> QED
      BY <3>1, StepAsked, StepSpawned DEF Mandates, SameMandate
  <2> QED
    BY <2>2, <2>3
<1>3. ASSUME ~ \E th \in Thread, content \in Content : TurnStart(th, content),
             ~ \E th \in Thread : TurnInterrupt(th), NEW t \in Turn
      PROVE  SpawnedOf(t)' /\ AskedOf(t)'
  BY <1>3, OthersKeepMandates, StepAsked, StepSpawned DEF Mandates, SameMandate
<1> QED
  BY <1>1, <1>2, <1>3 DEF Mandates

\* What TurnService sees of a turn, in terms of where its runner is.
ViewOf(t) ==
  /\ Phase(t) = IF Owner(t) = None THEN "unborn"
                ELSE IF pc[t] # "done" THEN "working"
                ELSE IF outbox[t] # << >> THEN "ended" ELSE "announced"
  /\ turns[t].completedAt <=> pc[t] = "done"
  /\ Announced(t) = IF pc[t] = "done" /\ outbox[t] = << >>
                    THEN turns[t].status ELSE None

View == \A t \in Turn : ViewOf(t)

LEMMA StreamGivesView == IInv /\ Stream => View
<1> SUFFICES ASSUME IInv, Stream, NEW t \in Turn PROVE ViewOf(t)
  BY DEF View
<1>1. turns[t].completedAt <=> pc[t] = "done"
  BY DEF IInv, Ownership, SettledRunnerIsDone, Stream, StreamOf, SettledOf
<1>2. Verdicts(t) # {} <=> pc[t] = "done" /\ outbox[t] = << >>
  BY DEF Stream, StreamOf, EndingOf
<1>3. pc[t] = "done" => Owner(t) # None
  BY DEF IInv, Ownership, RunnerHasTurn
<1>4. Announced(t) = IF Verdicts(t) = {} THEN None ELSE turns[t].status
  <2>1. CASE Verdicts(t) = {}
    BY <2>1 DEF Announced
  <2>2. CASE Verdicts(t) # {}
    <3> DEFINE i == CHOOSE i \in Verdicts(t) : TRUE
    <3>1. i \in Verdicts(t)
      BY <2>2
    <3>2. TellsOutcome(t, log[t][i])
      BY <3>1 DEF Stream, StreamOf, EndingOf
    <3>3. Announced(t) = IF log[t][i].kind = "completed" THEN log[t][i].status
                                                         ELSE "error"
      BY <2>2 DEF Announced
    <3> QED
      BY <2>2, <3>2, <3>3 DEF TellsOutcome
  <2> QED
    BY <2>1, <2>2
<1>5. Phase(t) = IF Owner(t) = None THEN "unborn"
                 ELSE IF pc[t] # "done" THEN "working"
                 ELSE IF outbox[t] # << >> THEN "ended" ELSE "announced"
  <2>1. CASE Owner(t) = None
    BY <1>1, <1>3, <2>1 DEF Phase
  <2>2. CASE Owner(t) # None /\ pc[t] # "done"
    BY <1>1, <2>2 DEF Phase
  <2>3. CASE Owner(t) # None /\ pc[t] = "done" /\ outbox[t] # << >>
    BY <1>1, <1>2, <2>3 DEF Phase
  <2>4. CASE Owner(t) # None /\ pc[t] = "done" /\ outbox[t] = << >>
    BY <1>1, <1>2, <2>4 DEF Phase
  <2> QED
    BY <2>1, <2>2, <2>3, <2>4
<1>6. Announced(t) = IF pc[t] = "done" /\ outbox[t] = << >>
                     THEN turns[t].status ELSE None
  BY <1>2, <1>4
<1> QED
  BY <1>1, <1>5, <1>6 DEF ViewOf

Verdict(t) == IF turns[t].completedAt THEN turns[t].status ELSE None

\* A step that neither begins, settles nor announces turn t.
LEMMA SameView ==
  ASSUME View, View', NEW t \in Turn, turns'[t].thread = turns[t].thread,
         GoesOn(t) \/ (Sends(t) /\ pc[t] # "done")
  PROVE  /\ Owner(t)' = Owner(t) /\ Phase(t)' = Phase(t)
         /\ Verdict(t)' = Verdict(t) /\ Announced(t)' = Announced(t)
<1>1. pc'[t] = "done" <=> pc[t] = "done"
  BY DEF GoesOn, StaysQuiet, Opens, Answers, Queues, Sends, InFlight
<1>2. pc[t] = "done" => outbox'[t] = outbox[t] /\ turns'[t] = turns[t]
  BY DEF GoesOn, StaysQuiet, Opens, Answers, Queues, InFlight
<1>3. Owner(t)' = Owner(t)
  BY DEF Owner
<1>4. ViewOf(t) /\ ViewOf(t)'
  BY DEF View
<1>5. Phase(t)' = Phase(t)
  BY <1>1, <1>2, <1>3, <1>4 DEF ViewOf
<1>6. Verdict(t)' = Verdict(t)
  <2>1. CASE pc[t] = "done"
    BY <1>2, <2>1 DEF Verdict
  <2>2. CASE pc[t] # "done"
    <3>1. ~turns[t].completedAt /\ ~turns'[t].completedAt
      BY <1>1, <1>4, <2>2 DEF ViewOf
    <3> QED
      BY <3>1 DEF Verdict
  <2> QED
    BY <2>1, <2>2
<1>7. Announced(t)' = Announced(t)
  BY <1>1, <1>2, <1>4 DEF ViewOf
<1> QED
  BY <1>3, <1>5, <1>6, <1>7

SeesSame(t) ==
  /\ Owner(t)' = Owner(t) /\ Phase(t)' = Phase(t)
  /\ turns'[t].cancel = turns[t].cancel
  /\ Verdict(t)' = Verdict(t) /\ Announced(t)' = Announced(t)

\* A step that changes nothing that the service sees is a stutter.
LEMMA ServiceStutters ==
  ASSUME \A t \in Turn : SeesSame(t)
  PROVE  UNCHANGED Service!vars
<1>1. [t \in Turn |-> Owner(t)]' = [t \in Turn |-> Owner(t)]
  BY DEF SeesSame
<1>2. [t \in Turn |-> Phase(t)]' = [t \in Turn |-> Phase(t)]
  BY DEF SeesSame
<1>3. [t \in Turn |-> turns[t].cancel]' = [t \in Turn |-> turns[t].cancel]
  BY DEF SeesSame
<1>4. [t \in Turn |-> Verdict(t)]' = [t \in Turn |-> Verdict(t)]
  BY DEF SeesSame
<1>5. [t \in Turn |-> Announced(t)]' = [t \in Turn |-> Announced(t)]
  BY DEF SeesSame
<1> QED
  BY <1>1, <1>2, <1>3, <1>4, <1>5 DEF Service!vars, Verdict

LEMMA InitService == Init => Service!Init
<1> SUFFICES ASSUME Init PROVE Service!Init
  OBVIOUS
<1>1. ASSUME NEW t \in Turn
      PROVE  /\ Owner(t) = None /\ Phase(t) = "unborn" /\ turns[t].cancel = FALSE
             /\ Verdict(t) = None /\ Announced(t) = None
  <2>1. Owner(t) = None /\ turns[t].cancel = FALSE /\ ~turns[t].completedAt
    BY DEF Init, Owner, NewTurn
  <2>2. Verdicts(t) = {}
    BY DEF Init, Verdicts, Places
  <2>3. Phase(t) = "unborn"
    BY <2>1 DEF Phase
  <2> QED
    BY <2>1, <2>2, <2>3 DEF Verdict, Announced
<1> QED
  BY <1>1 DEF Service!Init, Verdict

LEMMA BeginStep ==
  ASSUME IInv, Stream, Mandates, View, View', NEW th \in Thread,
         NEW content \in Content, TurnStart(th, content)
  PROVE  Service!Next
<1>1. PICK u \in Turn : /\ turns[u].thread = None
                        /\ Handle("started", Plain("started", u))
                        /\ turns' = [turns EXCEPT ![u] = NewTurn(th, content)]
  BY DEF TurnStart
<1>2. /\ ~Busy(th) /\ th # None /\ pc' = pc /\ outbox' = outbox
      /\ processor.at = "idle" /\ pc[u] = "none"
  BY <1>1, NoneAssumption
     DEF TurnStart, Handle, runnerVars, IInv, Ownership, RunnerHasTurn, Owner
<1>3. \A t \in Turn \ {u} : SeesSame(t)
  <2> SUFFICES ASSUME NEW t \in Turn, t # u PROVE SeesSame(t)
    OBVIOUS
  <2>1. turns'[t] = turns[t]
    BY <1>1
  <2>2. GoesOn(t)
    BY HandlerIsQuiet, Zenon DEF Handler, GoesOn
  <2> QED
    BY <2>1, <2>2, SameView DEF SeesSame
<1>4. /\ Owner(u) = None /\ Owner(u)' = th
      /\ Phase(u) = "unborn" /\ Phase(u)' = "working"
      /\ Announced(u) = None /\ Announced(u)' = None
  BY <1>1, <1>2 DEF View, ViewOf, Owner, NewTurn, IInv, TypeOK
<1>5. turns'[u].cancel = turns[u].cancel
  <2>1. turns[u].cancel = FALSE
    BY <1>4 DEF Mandates, AskedOf, IInv, TypeOK, TurnState
  <2> QED
    BY <1>1, <2>1 DEF NewTurn, IInv, TypeOK
<1>6. Verdict(u) = None /\ Verdict(u)' = None
  BY <1>2 DEF View, ViewOf, Verdict
<1>7. ASSUME NEW w \in Turn, Phase(w) = "working"
      PROVE  Owner(w) # th
  <2>1. Owner(w) # None /\ pc[w] # "done"
    BY <1>7 DEF View, ViewOf
  <2>2. pc[w] # "none"
    BY <1>2, <2>1 DEF Mandates, SpawnedOf, Starting
  <2> QED
    BY <1>2, <2>1, <2>2, RunnerTurn, NoneAssumption DEF Busy, ActiveOf
<1>8. Service!Begin(u, th)
  <2>1. [t \in Turn |-> Owner(t)]' = [[t \in Turn |-> Owner(t)] EXCEPT ![u] = th]
    BY <1>3, <1>4 DEF SeesSame
  <2>2. [t \in Turn |-> Phase(t)]' = [[t \in Turn |-> Phase(t)] EXCEPT ![u] = "working"]
    BY <1>3, <1>4 DEF SeesSame
  <2>3. /\ [t \in Turn |-> turns[t].cancel]' = [t \in Turn |-> turns[t].cancel]
        /\ [t \in Turn |-> Verdict(t)]' = [t \in Turn |-> Verdict(t)]
        /\ [t \in Turn |-> Announced(t)]' = [t \in Turn |-> Announced(t)]
    BY <1>3, <1>4, <1>5, <1>6 DEF SeesSame
  <2> QED
    BY <1>4, <1>7, <2>1, <2>2, <2>3 DEF Service!Begin, Verdict
<1> QED
  BY <1>8 DEF Service!Next

LEMMA AskStep ==
  ASSUME IInv, Stream, View, View', NEW th \in Thread, TurnInterrupt(th)
  PROVE  Service!Next
<1>1. PICK u \in Turn : /\ u = threads[th].active /\ Owner(u) = th
                        /\ th # None /\ pc[u] # "done"
  BY InterruptReachesWork DEF TurnInterrupt
<1>2. turns' = [turns EXCEPT ![u].cancel = TRUE] /\ turns[u] \in TurnState
  BY <1>1 DEF TurnInterrupt, IInv, TypeOK
<1>3. \A t \in Turn : GoesOn(t) /\ turns'[t].thread = turns[t].thread
  <2> SUFFICES ASSUME NEW t \in Turn PROVE GoesOn(t) /\ turns'[t].thread = turns[t].thread
    OBVIOUS
  <2>1. GoesOn(t)
    BY HandlerIsQuiet, Zenon DEF Handler, GoesOn
  <2> QED
    BY <1>2, <2>1 DEF IInv, TypeOK, TurnState
<1>4. ASSUME NEW t \in Turn
      PROVE  /\ Owner(t)' = Owner(t) /\ Phase(t)' = Phase(t)
             /\ Verdict(t)' = Verdict(t) /\ Announced(t)' = Announced(t)
  BY <1>3, SameView
<1>5. \A t \in Turn : turns'[t].cancel = IF t = u THEN TRUE ELSE turns[t].cancel
  BY <1>1, <1>2 DEF IInv, TypeOK, TurnState
<1>6. Service!Ask(u)
  <2>1. [t \in Turn |-> turns[t].cancel]' =
          [[t \in Turn |-> turns[t].cancel] EXCEPT ![u] = TRUE]
    BY <1>1, <1>5
  <2>2. /\ [t \in Turn |-> Owner(t)]' = [t \in Turn |-> Owner(t)]
        /\ [t \in Turn |-> Phase(t)]' = [t \in Turn |-> Phase(t)]
        /\ [t \in Turn |-> Verdict(t)]' = [t \in Turn |-> Verdict(t)]
        /\ [t \in Turn |-> Announced(t)]' = [t \in Turn |-> Announced(t)]
    BY <1>4
  <2>3. Phase(u) = "working"
    BY <1>1 DEF View, ViewOf
  <2> QED
    BY <1>1, <2>1, <2>2, <2>3 DEF Service!Ask, Verdict
<1> QED
  BY <1>1, <1>6 DEF Service!Next

\* What the service sees of the other turns while the runner of u works.
LEMMA OthersSeeSame ==
  ASSUME IInv, Stream, View, View', NEW u \in Turn,
         Runner(u) \/ ReadLine(u) \/ WaitFails(u)
  PROVE  \A t \in Turn \ {u} : SeesSame(t)
<1> SUFFICES ASSUME NEW t \in Turn, t # u PROVE SeesSame(t)
  OBVIOUS
<1>1. GoesOn(t)
  BY OthersAreQuiet, Zenon DEF GoesOn
<1>2. SameMandate(t)
  BY RunnerKeepsMandates
<1> QED
  BY <1>1, <1>2, SameView DEF SeesSame, SameMandate

LEMMA EndStep ==
  ASSUME IInv, IInv', Stream, Mandates, View, View', NEW u \in Turn, Finish(u) \/ Fail(u)
  PROVE  Service!Next
<1>1. Ends(u)
  BY FinishIsEnd, FailIsEnd
<1>2. \A t \in Turn \ {u} : SeesSame(t)
  BY OthersSeeSame, Zenon DEF Runner
<1>3. /\ turns'[u].cancel = turns[u].cancel /\ Owner(u)' = Owner(u)
  BY RunnerKeepsMandates, Zenon DEF Runner, SameMandate, Owner
<1>4. Owner(u) # None /\ pc[u] # "done" /\ pc'[u] = "done" /\ outbox'[u] # << >>
  BY <1>1, RunnerTurn DEF Ends, InFlight
<1>5. /\ Phase(u) = "working" /\ Phase(u)' = "ended"
      /\ Announced(u) = None /\ Announced(u)' = None
  BY <1>3, <1>4 DEF View, ViewOf
<1>6. Verdict(u)' = turns'[u].status
  BY <1>1 DEF Ends, Verdict
<1>7. /\ turns'[u].status \in {"completed", "interrupted", "error"}
      /\ turns'[u].status = "interrupted" => turns[u].cancel
  <2>1. ActiveOf(u) = u /\ turns[u] \in TurnState
    BY <1>4, RunnerTurn DEF Ends, Finish, Fail, At, IInv, TypeOK
  <2>2. CASE Finish(u)
    <3>1. turns'[u].status = Outcome(u)
      BY <2>1, <2>2 DEF Finish, TurnState
    <3>2. interrupted[u] => turns[u].cancel
      BY <2>2 DEF Finish, At, Mandates, AskedOf
    <3> QED
      BY <3>1, <3>2 DEF Outcome
  <2>3. CASE Fail(u)
    BY <2>1, <2>3 DEF Fail, TurnState
  <2> QED
    BY <2>2, <2>3
<1>8. ASSUME NEW v, v = turns'[u].status
      PROVE  Service!End(u, v)
  <2>1. [t \in Turn |-> Phase(t)]' = [[t \in Turn |-> Phase(t)] EXCEPT ![u] = "ended"]
    BY <1>2, <1>5 DEF SeesSame
  <2>2. [t \in Turn |-> Verdict(t)]' = [[t \in Turn |-> Verdict(t)] EXCEPT ![u] = v]
    BY <1>2, <1>6, <1>8 DEF SeesSame
  <2>3. /\ [t \in Turn |-> Owner(t)]' = [t \in Turn |-> Owner(t)]
        /\ [t \in Turn |-> turns[t].cancel]' = [t \in Turn |-> turns[t].cancel]
        /\ [t \in Turn |-> Announced(t)]' = [t \in Turn |-> Announced(t)]
    BY <1>2, <1>3, <1>5 DEF SeesSame
  <2> QED
    BY <1>5, <1>7, <1>8, <2>1, <2>2, <2>3 DEF Service!End, Verdict
<1> QED
  BY <1>7, <1>8 DEF Service!Next, Service!Verdict

LEMMA AnnounceStep ==
  ASSUME IInv, Stream, View, View', NEW u \in Turn, Notify(u)
  PROVE  Service!Next \/ UNCHANGED Service!vars
<1>1. Sends(u) /\ turns' = turns
  <2>1. Head(outbox[u]).turn = u
    BY DEF Notify, Stream, StreamOf, OutboxOf
  <2> QED
    BY <2>1 DEF Notify, Sends, serverVars, IInv, TypeOK
<1>2. \A t \in Turn \ {u} : SeesSame(t)
  BY OthersSeeSame, Zenon DEF Runner
<1>3. CASE pc[u] # "done"
  <2>1. SeesSame(u)
    BY <1>1, <1>3, SameView DEF SeesSame
  <2> QED
    BY <1>2, <2>1, ServiceStutters
<1>4. CASE pc[u] = "done"
  <2>1. pc'[u] = "done" /\ outbox[u] # << >> /\ outbox'[u] = << >>
    <3>1. outbox[u] = <<Head(outbox[u])>>
      BY <1>1 DEF Sends, Stream, StreamOf, OutboxOf
    <3>2. Tail(<<Head(outbox[u])>>) = << >>
      OBVIOUS
    <3>3. Tail(outbox[u]) = << >>
      <4> DEFINE m == Head(outbox[u])
      <4>1. outbox[u] = <<m>>
        BY <3>1
      <4>2. Tail(<<m>>) = << >>
        BY <3>2
      <4> HIDE DEF m
      <4> QED
        BY <4>1, <4>2
    <3> QED
      BY <1>1, <1>4, <3>3 DEF Sends
  <2>2. Owner(u) # None /\ Owner(u)' = Owner(u)
    BY <1>1, <1>4 DEF IInv, Ownership, RunnerHasTurn, Owner
  <2>3. /\ Phase(u) = "ended" /\ Phase(u)' = "announced"
        /\ Announced(u)' = turns[u].status
        /\ turns[u].completedAt
    BY <1>1, <1>4, <2>1, <2>2 DEF View, ViewOf
  <2>4. Verdict(u) = turns[u].status /\ Verdict(u)' = Verdict(u)
    BY <1>1, <2>3 DEF Verdict
  <2>5. Service!Announce(u)
    <3>1. [t \in Turn |-> Phase(t)]' =
            [[t \in Turn |-> Phase(t)] EXCEPT ![u] = "announced"]
      BY <1>2, <2>3 DEF SeesSame
    <3>2. ASSUME NEW v, v = Verdict(u)
          PROVE  [t \in Turn |-> Announced(t)]' =
                   [[t \in Turn |-> Announced(t)] EXCEPT ![u] = v]
      BY <1>2, <2>3, <2>4, <3>2 DEF SeesSame
    <3>3. /\ [t \in Turn |-> Owner(t)]' = [t \in Turn |-> Owner(t)]
          /\ [t \in Turn |-> turns[t].cancel]' = [t \in Turn |-> turns[t].cancel]
          /\ [t \in Turn |-> Verdict(t)]' = [t \in Turn |-> Verdict(t)]
      BY <1>1, <1>2, <2>2, <2>4 DEF SeesSame
    <3> QED
      BY <2>3, <3>1, <3>2, <3>3 DEF Service!Announce, Verdict
  <2> QED
    BY <2>5 DEF Service!Next
<1> QED
  BY <1>3, <1>4

LEMMA WorkStep ==
  ASSUME IInv, Stream, View, View', NEW u \in Turn,
         \/ Launch(u) \/ Attach(u) \/ WriteStdin(u) \/ Eof(u) \/ Waited(u)
         \/ CheckInterrupted(u) \/ WaitFails(u) \/ ReadLine(u)
  PROVE  UNCHANGED Service!vars
<1>1. \A t \in Turn \ {u} : SeesSame(t)
  BY OthersSeeSame, Zenon DEF Runner
<1>2. GoesOn(u)
  BY WorkIsQuiet, ReadGoesOn, Zenon DEF GoesOn
<1>3. SameMandate(u)
  BY RunnerKeepsMandates, Zenon DEF Runner
<1>4. SeesSame(u)
  BY <1>2, <1>3, SameView DEF SeesSame, SameMandate
<1> QED
  BY <1>1, <1>4, ServiceStutters

\* Handlers other than turn/start and turn/interrupt, the processor's sends, claude,
\* and the cancellation task: the service sees nothing of them.
LEMMA UnseenStep ==
  ASSUME IInv, Stream, View, View', [Next]_vars,
         ~ \E th \in Thread, content \in Content : TurnStart(th, content),
         ~ \E th \in Thread : TurnInterrupt(th),
         \/ Handler \/ Processor \/ UNCHANGED <<pc, outbox, log, turns>>
  PROVE  UNCHANGED Service!vars
<1>1. ASSUME NEW t \in Turn
      PROVE  SeesSame(t)
  <2>1. SameMandate(t)
    BY OthersKeepMandates, Zenon
  <2>2. UNCHANGED <<pc, outbox, log, turns>> => StaysQuiet(t)
    BY DEF StaysQuiet
  <2>3. GoesOn(t)
    BY <2>2, HandlerIsQuiet, ProcessorGoesOn, Zenon DEF GoesOn
  <2> QED
    BY <2>1, <2>3, SameView DEF SeesSame, SameMandate
<1> QED
  BY <1>1, ServiceStutters

LEMMA ServiceStep ==
  ASSUME IInv, IInv', Stream, Mandates, View, View', [Next]_vars
  PROVE  Service!Next \/ UNCHANGED Service!vars
<1>1. CASE \E th \in Thread, content \in Content : TurnStart(th, content)
  BY <1>1, BeginStep
<1>2. CASE \E th \in Thread : TurnInterrupt(th)
  BY <1>2, AskStep
<1>3. CASE \E u \in Turn : Finish(u) \/ Fail(u)
  BY <1>3, EndStep
<1>4. CASE \E u \in Turn : Notify(u)
  BY <1>4, AnnounceStep
<1>5. CASE \E u \in Turn : \/ Launch(u) \/ Attach(u) \/ WriteStdin(u) \/ Eof(u)
                           \/ Waited(u) \/ CheckInterrupted(u) \/ WaitFails(u)
                           \/ ReadLine(u)
  BY <1>5, WorkStep
<1>6. CASE Handler \/ Processor \/ UNCHANGED <<pc, outbox, log, turns>>
  BY <1>1, <1>2, <1>6, UnseenStep
<1>7. ASSUME NEW u \in Turn, CancelKill(u) \/ ChildExit(u) \/ StdoutCloses(u)
      PROVE  UNCHANGED <<pc, outbox, log, turns>>
  BY <1>7 DEF CancelKill, ChildExit, StdoutCloses, serverVars, runnerVars
<1>8. Terminated \/ UNCHANGED vars => UNCHANGED <<pc, outbox, log, turns>>
  BY DEF Terminated, vars, serverVars, runnerVars
<1> QED
  BY <1>3, <1>4, <1>5, <1>6, <1>7, <1>8, Zenon DEF Next, Runner

\* A turn that has a thread and no runner is being started, and only turns with a
\* thread were asked to stop; a runner that found its turn interrupted between its
\* last two critical sections was asked to: Mandates is inductive.
THEOREM MandateInvariant == Spec => []Mandates
<1>1. Init => Mandates
  BY DEF Init, Mandates, SpawnedOf, AskedOf, Owner, NewTurn
<1>2. IInv /\ Stream /\ Mandates /\ [Next]_vars => Mandates'
  BY StepMandates
<1> QED
  BY <1>1, <1>2, InductiveInvariant, StreamInvariant, PTL DEF Spec

\* Seen through turn ids, phases and verdicts the store, the runners, the cancellation
\* tasks and the processes do what TurnService promises: one turn at a time on a
\* thread, one verdict each, "interrupted" only when asked for, told as it was reached.
THEOREM TurnServiceImplemented == Spec => ImplementsService
<1>1. Init => Service!Init
  BY InitService
<1>2. IInv /\ IInv' /\ Stream /\ Mandates /\ View /\ View' /\ [Next]_vars
        => [Service!Next]_(Service!vars)
  BY ServiceStep
<1>3. IInv /\ Stream => View
  BY StreamGivesView
<1> QED
  BY <1>1, <1>2, <1>3, InductiveInvariant, StreamInvariant, MandateInvariant, PTL
     DEF Spec, ImplementsService, Service!Spec

-----------------------------------------------------------------------------
(* A claude process and its runner: there is none before the launch, and   *)
(* it has been reaped once the wait is over.                               *)

ChildOf(t) ==
  /\ pc[t] \in {"none", "launch"} => claude[t].child = "none"
  /\ pc[t] \in {"check", "finish"} => claude[t].child # "running"
  /\ claude[t].child = "running" => InFlight(t) \/ turns[t].status = "error"

Children == \A t \in Turn : ChildOf(t)

\* A step that moves no runner past the wait and starts no process.
LEMMA QuietChild ==
  ASSUME NEW t \in Turn, ChildOf(t),
         pc'[t] = pc[t],
         \/ claude'[t].child = claude[t].child
         \/ claude[t].child # "none" /\ claude'[t].child \in {"ok", "failed"},
         pc[t] = "done" => turns'[t] = turns[t]
  PROVE  ChildOf(t)'
<1>1. CASE pc[t] = "done"
  BY <1>1 DEF ChildOf, InFlight
<1>2. CASE pc[t] # "done"
  BY <1>2 DEF ChildOf, InFlight
<1> QED
  BY <1>1, <1>2

LEMMA OwnRunnerChild ==
  ASSUME IInv, Stream, Children, [Next]_vars, NEW t \in Turn,
         Runner(t) \/ ReadLine(t) \/ WaitFails(t)
  PROVE  ChildOf(t)'
<1>1. ChildOf(t) /\ claude[t] \in ChildState /\ pc \in [Turn -> RunnerPlace]
  BY DEF Children, IInv, TypeOK
<1>2. CASE Launch(t)
  <2>1. pc[t] = "launch" /\ claude[t].child = "none"
    BY <1>1, <1>2 DEF Launch, At, ChildOf
  <2>2. \/ pc' = [pc EXCEPT ![t] = "attach"]
        \/ pc' = [pc EXCEPT ![t] = "fail"]
    BY <1>2, Zenon DEF Launch, Goto
  <2>3. pc'[t] \in {"attach", "fail"}
    BY <1>1, <2>2
  <2> QED
    BY <2>3 DEF ChildOf, InFlight
<1>3. CASE Attach(t) \/ WriteStdin(t) \/ Eof(t) \/ ReadError(t)
  <2>1. pc'[t] \in {"stdin", "read", "wait", "fail"}
    BY <1>1, <1>3 DEF Attach, WriteStdin, Eof, ReadError, Goto
  <2> QED
    BY <2>1 DEF ChildOf, InFlight
<1>4. CASE Waited(t) \/ WaitFails(t)
  <2>1. /\ claude' = claude /\ claude[t].child # "running"
        /\ pc'[t] \in {"check", "fail"}
    BY <1>1, <1>4 DEF Waited, Reaped, WaitFails, Goto, childVars
  <2> QED
    BY <2>1 DEF ChildOf
<1>5. CASE CheckInterrupted(t)
  <2>1. pc[t] = "check" /\ claude' = claude
    BY <1>5 DEF CheckInterrupted, At, childVars
  <2>2. pc' = [pc EXCEPT ![t] = "fail"] \/ pc' = [pc EXCEPT ![t] = "finish"]
    BY <1>5, Zenon DEF CheckInterrupted, Goto
  <2>3. pc'[t] \in {"fail", "finish"}
    BY <1>1, <2>2
  <2> QED
    BY <1>1, <2>1, <2>3 DEF ChildOf
<1>6. CASE Finish(t)
  <2>1. pc[t] = "finish" /\ claude' = claude /\ pc'[t] = "done"
    BY <1>1, <1>6 DEF Finish, At, Goto, childVars
  <2> QED
    BY <1>1, <2>1 DEF ChildOf
<1>7. CASE Fail(t)
  <2>1. pc'[t] = "done" /\ ActiveOf(t) = t
    BY <1>1, <1>7, RunnerTurn DEF Fail, At, Goto
  <2>2. turns'[t].status = "error"
    BY <1>7, <2>1 DEF Fail, IInv, TypeOK, TurnState
  <2> QED
    BY <2>1, <2>2 DEF ChildOf
<1>8. CASE pc' = pc /\ claude' = claude
  BY <1>1, <1>8, QuietChild, DoneIsFrozen
<1> QED
  BY <1>2, <1>3, <1>4, <1>5, <1>6, <1>7, <1>8
     DEF Runner, ReadLine, Notify, ReadSession, ReadResult, ReadItem, ReadProgress,
         TakeLine, childVars

LEMMA StepChildren ==
  ASSUME IInv, Stream, Children, [Next]_vars
  PROVE  Children'
<1> SUFFICES ASSUME NEW t \in Turn PROVE ChildOf(t)'
  BY DEF Children
<1>1. /\ ChildOf(t)
      /\ pc[t] = "done" => turns'[t] = turns[t]
      /\ claude \in [Turn -> ChildState] /\ pc \in [Turn -> RunnerPlace]
  BY DoneIsFrozen DEF Children, IInv, TypeOK
<1>2. CASE Handler
  <2>1. pc' = pc /\ claude' = claude
    BY <1>2 DEF Handler, ThreadStart, ThreadFork, TurnStart, TurnSteer, TurnInterrupt,
                ApprovalRespond, ReadOrRefuse, Handle, runnerVars, childVars
  <2> QED
    BY <1>1, <2>1, QuietChild
<1>3. CASE NotifyStarted
  <2> DEFINE u == processor.msg.turn
  <2>1. u \in Turn /\ pc[u] = "none"
    BY <1>3 DEF NotifyStarted, IInv, Ownership, StartingHasTurn, ClaimedTurnIsBorn,
                Starting
  <2>2. claude' = claude /\ pc'[t] = IF t = u THEN "launch" ELSE pc[t]
    BY <1>1, <1>3, <2>1 DEF NotifyStarted, childVars
  <2>3. CASE t = u
    BY <1>1, <2>1, <2>2, <2>3 DEF ChildOf
  <2>4. CASE t # u
    BY <1>1, <2>2, <2>4, QuietChild
  <2> QED
    BY <2>3, <2>4
<1>4. CASE SendResponse
  <2>1. pc' = pc /\ claude' = claude
    BY <1>4 DEF SendResponse, runnerVars, childVars
  <2> QED
    BY <1>1, <2>1, QuietChild
<1>5. ASSUME NEW u \in Turn, Runner(u) \/ ReadLine(u) \/ WaitFails(u), u # t
      PROVE  ChildOf(t)'
  <2>1. pc'[t] = pc[t]
    BY <1>1, <1>5
       DEF Runner, ReadLine, Launch, Attach, WriteStdin, Eof, Waited,
           CheckInterrupted, Finish, Fail, Notify, ReadSession, ReadResult, ReadItem,
           ReadProgress, ReadError, WaitFails, Goto
  <2>2. claude'[t] = claude[t]
    BY <1>1, <1>5
       DEF Runner, ReadLine, Launch, Attach, WriteStdin, Eof, Waited,
           CheckInterrupted, Finish, Fail, Notify, ReadSession, ReadResult, ReadItem,
           ReadProgress, ReadError, TakeLine, WaitFails, childVars
  <2> QED
    BY <1>1, <2>1, <2>2, QuietChild
<1>6. ASSUME NEW u \in Turn, CancelKill(u) \/ ChildExit(u) \/ StdoutCloses(u)
      PROVE  ChildOf(t)'
  <2>1. pc' = pc
    BY <1>6 DEF CancelKill, ChildExit, StdoutCloses, runnerVars
  <2>2. \/ claude'[t].child = claude[t].child
        \/ claude[t].child # "none" /\ claude'[t].child \in {"ok", "failed"}
    BY <1>1, <1>6 DEF CancelKill, ChildExit, StdoutCloses, ChildState
  <2> QED
    BY <1>1, <2>1, <2>2, QuietChild
<1>7. CASE Terminated \/ UNCHANGED vars
  <2>1. pc' = pc /\ claude' = claude
    BY <1>7 DEF Terminated, vars, runnerVars, childVars
  <2> QED
    BY <1>1, <2>1, QuietChild
<1> QED
  BY <1>2, <1>3, <1>4, <1>5, <1>6, <1>7, OwnRunnerChild DEF Next, Processor

\* A turn that completes or is interrupted has reaped its claude process: a process
\* that outlives its turn is that of a turn in error.
THEOREM OrphansOnlyAfterFailure == Spec => []OrphanOnlyAfterFailure
<1>1. Init => Children
  BY DEF Init, Children, ChildOf
<1>2. IInv /\ Stream /\ Children /\ [Next]_vars => Children'
  BY StepChildren
<1>3. Children => OrphanOnlyAfterFailure
  BY DEF Children, ChildOf, OrphanOnlyAfterFailure
<1> QED
  BY <1>1, <1>2, <1>3, InductiveInvariant, StreamInvariant, PTL DEF Spec

-----------------------------------------------------------------------------
(* Which conversation a turn is launched on.  The turns of a thread are    *)
(* done, but for the active one, which is the last; so nobody tells an     *)
(* earlier turn of a session any more, and the thread's session is what    *)
(* its newest turn that was told of one was told.                          *)

Listed(th) == threads[th].turns

\* Where the turns before the n-th that were told of a session are in the list.
Earlier(th, n) == {i \in 1..(n - 1) : told[Listed(th)[i]] # None}

IsNewest(last, places) == last \in places /\ \A i \in places : i <= last

ListOf(th) ==
  /\ \A n \in DOMAIN Listed(th) :
       /\ Owner(Listed(th)[n]) = th
       /\ \/ pc[Listed(th)[n]] = "done"
          \/ n = Len(Listed(th)) /\ threads[th].active = Listed(th)[n]
  /\ Busy(th) => Listed(th) # << >> /\ threads[th].active = Listed(th)[Len(Listed(th))]

\* The session the thread has reached before its n-th turn.
Reached(th, n, session) ==
  IF Earlier(th, n) = {} THEN session = None
  ELSE \E last \in Earlier(th, n) :
         /\ IsNewest(last, Earlier(th, n))
         /\ session = told[Listed(th)[last]]

SessionOf(th) == Reached(th, Len(Listed(th)) + 1, threads[th].session)

\* What the n-th turn of the thread may have been launched as.
Continues(th, n, how, session) ==
  IF Earlier(th, n) # {}
  THEN \E last \in Earlier(th, n) :
         /\ IsNewest(last, Earlier(th, n))
         /\ how = "resume" /\ session = told[Listed(th)[last]]
  ELSE IF threads[th].forkFrom # None
       THEN how = "fork" /\ session = threads[th].forkFrom
       ELSE how = "new"

LaunchesOf(th) ==
  \A n \in DOMAIN Listed(th) :
    LET t == Listed(th)[n] IN
      launch[t].how # "none" => Continues(th, n, launch[t].how, launch[t].session)

SilentBefore(t) ==
  pc[t] \in {"none", "launch"} => told[t] = None /\ launch[t].how = "none"

Conversations ==
  /\ \A th \in Thread : ListOf(th) /\ SessionOf(th) /\ LaunchesOf(th)
  /\ \A t \in Turn : SilentBefore(t)

\* Nothing happens to the conversation of th, but that its active turn may be done.
Undisturbed(th) ==
  /\ threads'[th].turns = threads[th].turns
  /\ threads'[th].session = threads[th].session
  /\ threads'[th].forkFrom = threads[th].forkFrom
  /\ \A u \in Turn : Owner(u) = th =>
       /\ Owner(u)' = th /\ told'[u] = told[u] /\ launch'[u] = launch[u]
       /\ pc[u] = "done" => pc'[u] = "done"
  /\ \/ threads'[th].active = threads[th].active
     \/ threads'[th].active = None /\ pc'[threads[th].active] = "done"

\* What is listed are turns, and the list counts from 1.
LEMMA ListedTurns ==
  ASSUME IInv, NEW th \in Thread
  PROVE  /\ Listed(th) \in Seq(Turn)
         /\ Len(Listed(th)) \in Nat
         /\ DOMAIN Listed(th) = 1..Len(Listed(th))
         /\ \A n \in DOMAIN Listed(th) : Listed(th)[n] \in Turn
         /\ \A n \in DOMAIN Listed(th) \cup {Len(Listed(th)) + 1} :
              Earlier(th, n) \subseteq DOMAIN Listed(th)
<1>1. Listed(th) \in Seq(Turn)
  BY DEF IInv, TypeOK, ThreadState, Listed
<1> QED
  BY <1>1 DEF Earlier

LEMMA UndisturbedKeeps ==
  ASSUME IInv, NEW th \in Thread, Undisturbed(th), ListOf(th), SessionOf(th),
         LaunchesOf(th)
  PROVE  ListOf(th)' /\ SessionOf(th)' /\ LaunchesOf(th)'
<1>1. /\ Listed(th)' = Listed(th)
      /\ threads'[th].session = threads[th].session
      /\ threads'[th].forkFrom = threads[th].forkFrom
  BY DEF Undisturbed, Listed
<1>2. \A n \in DOMAIN Listed(th) :
        LET u == Listed(th)[n] IN
          /\ u \in Turn /\ Owner(u) = th /\ turns'[u].thread = th
          /\ told'[u] = told[u] /\ launch'[u] = launch[u]
          /\ pc[u] = "done" => pc'[u] = "done"
  <2> SUFFICES ASSUME NEW n \in DOMAIN Listed(th), NEW u, u = Listed(th)[n]
               PROVE  /\ u \in Turn /\ Owner(u) = th /\ turns'[u].thread = th
                      /\ told'[u] = told[u] /\ launch'[u] = launch[u]
                      /\ pc[u] = "done" => pc'[u] = "done"
    OBVIOUS
  <2>1. u \in Turn /\ Owner(u) = th
    BY ListedTurns DEF ListOf
  <2> QED
    BY <2>1 DEF Undisturbed, Owner
<1>3. \A n \in DOMAIN Listed(th) \cup {Len(Listed(th)) + 1} :
        Earlier(th, n)' = Earlier(th, n)
  <2> SUFFICES ASSUME NEW n \in DOMAIN Listed(th) \cup {Len(Listed(th)) + 1}
               PROVE  Earlier(th, n)' = Earlier(th, n)
    OBVIOUS
  <2>1. 1..(n - 1) \subseteq DOMAIN Listed(th)
    BY ListedTurns
  <2> QED
    BY <1>1, <1>2, <2>1 DEF Earlier
<1>4. ListOf(th)'
  BY <1>1, <1>2 DEF Undisturbed, ListOf, Busy, Owner
<1>5. SessionOf(th)'
  <2> DEFINE n == Len(Listed(th)) + 1
  <2>1. Earlier(th, n)' = Earlier(th, n) /\ Earlier(th, n) \subseteq DOMAIN Listed(th)
    BY <1>1, <1>3, ListedTurns
  <2> QED
    BY <1>1, <1>2, <2>1 DEF SessionOf, Reached
<1>6. LaunchesOf(th)'
  <2> SUFFICES ASSUME NEW n \in DOMAIN Listed(th),
                      launch[Listed(th)[n]].how # "none"
               PROVE  Continues(th, n, launch[Listed(th)[n]].how,
                                launch[Listed(th)[n]].session)'
    BY <1>1, <1>2 DEF LaunchesOf
  <2>1. Continues(th, n, launch[Listed(th)[n]].how, launch[Listed(th)[n]].session)
    BY DEF LaunchesOf
  <2>2. /\ Earlier(th, n)' = Earlier(th, n)
        /\ \A i \in Earlier(th, n) : told'[Listed(th)[i]] = told[Listed(th)[i]]
    BY <1>2, <1>3, ListedTurns
  <2>3. launch'[Listed(th)[n]] = launch[Listed(th)[n]]
    BY <1>2
  <2> QED
    BY <1>1, <2>1, <2>2, <2>3 DEF Continues
<1> QED
  BY <1>4, <1>5, <1>6

\* A turn that turn/start claims is nobody's, and nothing is known of it.
LEMMA TurnStartConverses ==
  ASSUME IInv, Conversations, NEW th \in Thread, NEW content \in Content,
         TurnStart(th, content)
  PROVE  \A h \in Thread : ListOf(h)' /\ SessionOf(h)' /\ LaunchesOf(h)'
<1>1. PICK t \in Turn :
        /\ turns[t].thread = None
        /\ turns' = [turns EXCEPT ![t] = NewTurn(th, content)]
        /\ threads' = [threads EXCEPT ![th].active = t,
                                      ![th].turns = Append(@, t)]
  BY DEF TurnStart
<1>2. /\ pc' = pc /\ told' = told /\ launch' = launch
      /\ turns'[t].thread = th
      /\ \A u \in Turn \ {t} : turns'[u] = turns[u]
  BY <1>1 DEF TurnStart, Handle, runnerVars, childVars, IInv, TypeOK, NewTurn
<1>3. pc[t] = "none" /\ told[t] = None /\ launch[t].how = "none"
  BY <1>1 DEF IInv, Ownership, RunnerHasTurn, Owner, Conversations, SilentBefore
<1> SUFFICES ASSUME NEW h \in Thread
             PROVE  ListOf(h)' /\ SessionOf(h)' /\ LaunchesOf(h)'
  OBVIOUS
<1>4. ListOf(h) /\ SessionOf(h) /\ LaunchesOf(h)
  BY DEF Conversations
<1>5. CASE h # th
  <2>1. threads'[h] = threads[h]
    BY <1>1, <1>5 DEF IInv, TypeOK
  <2>2. \A u \in Turn : Owner(u) = h => u # t
    BY <1>1, NoneAssumption DEF Owner
  <2>3. Undisturbed(h)
    BY <1>2, <2>1, <2>2 DEF Undisturbed, Owner
  <2> QED
    BY <1>4, <2>3, UndisturbedKeeps
<1>6. CASE h = th
  <2>0. PICK L \in Seq(Turn), k \in Nat : L = Listed(h) /\ k = Len(L)
    BY ListedTurns
  <2>1. /\ Listed(h)' = Append(L, t)
        /\ threads'[h].active = t
        /\ threads'[h].session = threads[h].session
        /\ threads'[h].forkFrom = threads[h].forkFrom
    BY <1>1, <1>6, <2>0 DEF IInv, TypeOK, ThreadState, Listed
  <2>2. DOMAIN L = 1..k /\ \A n \in 1..k : L[n] \in Turn
    BY <2>0, ListedTurns
  <2>3. /\ Len(Listed(h)') = k + 1 /\ DOMAIN Listed(h)' = 1..(k + 1)
        /\ Listed(h)'[k + 1] = t
        /\ \A n \in 1..k : Listed(h)'[n] = L[n]
    BY <2>0, <2>1, <2>2
  <2>4. \A n \in 1..k : pc[L[n]] = "done" /\ Owner(L[n]) = h /\ L[n] # t
    <3>1. threads[h].active = None
      BY <1>6 DEF TurnStart, Busy
    <3> QED
      BY <1>3, <1>4, <2>0, <2>2, <3>1, NoneAssumption DEF ListOf
  <2>5. \A n \in 1..(k + 1) : Earlier(h, n)' = Earlier(h, n) /\ Earlier(h, n) \subseteq 1..k
    <3> SUFFICES ASSUME NEW n \in 1..(k + 1)
                 PROVE  Earlier(h, n)' = Earlier(h, n) /\ Earlier(h, n) \subseteq 1..k
      OBVIOUS
    <3>1. 1..(n - 1) \subseteq 1..k
      OBVIOUS
    <3> QED
      BY <1>2, <2>0, <2>3, <3>1 DEF Earlier
  <2>6. Earlier(h, k + 2)' = Earlier(h, k + 1)
    BY <1>2, <1>3, <2>0, <2>2, <2>3 DEF Earlier
  <2>7. ListOf(h)'
    <3>1. \A n \in 1..k : turns'[L[n]].thread = h
      BY <1>2, <2>2, <2>4 DEF Owner
    <3>2. Listed(h)' # << >>
      BY <2>2, <2>3
    <3> QED
      BY <1>2, <1>6, <2>1, <2>2, <2>3, <2>4, <3>1, <3>2 DEF ListOf, Owner
  <2>8. SessionOf(h)'
    <3>1. Len(Listed(h)') + 1 = k + 2
      BY <2>2, <2>3
    <3>2. Reached(h, k + 1, threads[h].session)
      BY <1>4, <2>0 DEF SessionOf
    <3>3. Reached(h, k + 2, threads[h].session)'
      <4>1. \A i \in Earlier(h, k + 1) : told'[Listed(h)'[i]] = told[Listed(h)[i]]
        BY <1>2, <2>0, <2>3, <2>5
      <4> QED
        BY <2>1, <2>6, <3>2, <4>1 DEF Reached
    <3> QED
      BY <3>1, <3>3 DEF SessionOf
  <2>9. LaunchesOf(h)'
    <3> SUFFICES ASSUME NEW n \in 1..k, launch[L[n]].how # "none"
                 PROVE  Continues(h, n, launch[L[n]].how, launch[L[n]].session)'
      BY <1>2, <1>3, <2>0, <2>2, <2>3 DEF LaunchesOf
    <3>1. Continues(h, n, launch[L[n]].how, launch[L[n]].session)
      BY <1>4, <2>0, <2>2 DEF LaunchesOf
    <3> QED
      BY <1>2, <2>0, <2>1, <2>2, <2>3, <2>5, <3>1 DEF Continues
  <2> QED
    BY <2>7, <2>8, <2>9
<1> QED
  BY <1>5, <1>6

\* A turn that is launched is the last of its thread, and no session is known of it.
LEMMA LaunchConverses ==
  ASSUME IInv, Conversations, NEW t \in Turn, Launch(t)
  PROVE  \A h \in Thread : ListOf(h)' /\ SessionOf(h)' /\ LaunchesOf(h)'
<1>0. PICK th \in Thread : th = Owner(t)
  BY RunnerTurn DEF Launch, At
<1>1. /\ pc[t] = "launch" /\ threads[th].active = t
      /\ told[t] = None /\ launch[t].how = "none" /\ t # None
  BY <1>0, RunnerTurn, NoneAssumption
     DEF Launch, At, Conversations, SilentBefore, ActiveOf
<1>2. /\ threads' = threads /\ turns' = turns /\ told' = told
      /\ \A u \in Turn \ {t} : launch'[u] = launch[u]
      /\ launch'[t].how = LaunchHow(th).how
      /\ launch'[t].session = LaunchHow(th).session
  BY <1>0 DEF Launch, serverVars, IInv, TypeOK
<1>3. \A u \in Turn : pc[u] = "done" => u # t /\ pc'[u] = "done"
  <2>1. \/ pc' = [pc EXCEPT ![t] = "attach"]
        \/ pc' = [pc EXCEPT ![t] = "fail"]
    BY Zenon DEF Launch, Goto
  <2> QED
    BY <1>1, <2>1 DEF IInv, TypeOK
<1> SUFFICES ASSUME NEW h \in Thread
             PROVE  ListOf(h)' /\ SessionOf(h)' /\ LaunchesOf(h)'
  OBVIOUS
<1>4. ListOf(h) /\ SessionOf(h) /\ LaunchesOf(h)
  BY DEF Conversations
<1>5. CASE h # th
  <2>1. Undisturbed(h)
    BY <1>0, <1>2, <1>3, <1>5 DEF Undisturbed, Owner
  <2> QED
    BY <1>4, <2>1, UndisturbedKeeps
<1>6. CASE h = th
  <2>0. PICK L \in Seq(Turn), k \in Nat : L = Listed(th) /\ k = Len(L)
    BY ListedTurns
  <2>1. /\ DOMAIN L = 1..k
        /\ \A n \in 1..k : L[n] \in Turn
        /\ \A n \in 1..(k + 1) : Earlier(th, n) \subseteq 1..k
    BY <2>0, ListedTurns
  <2>2. k \in 1..k /\ L[k] = t /\ \A n \in 1..(k - 1) : pc[L[n]] = "done" /\ L[n] # t
    <3>1. L # << >> /\ threads[th].active = L[k] /\ threads[th].active = t
      BY <1>1, <1>4, <1>6, <2>0 DEF ListOf, Busy
    <3>2. \A n \in 1..(k - 1) : pc[L[n]] = "done"
      BY <1>4, <1>6, <2>0, <2>1 DEF ListOf
    <3> QED
      BY <1>3, <2>1, <3>1, <3>2
  <2>3. \A n \in 1..(k + 1) : Earlier(th, n)' = Earlier(th, n)
    BY <1>2 DEF Earlier, Listed
  <2>4. ListOf(h)'
    BY <1>2, <1>3, <1>4, <1>6, <2>0, <2>1 DEF ListOf, Listed, Owner, Busy
  <2>5. SessionOf(h)'
    BY <1>2, <1>4, <1>6, <2>0, <2>1, <2>3 DEF SessionOf, Reached, Listed
  <2>6. Earlier(th, k + 1) = Earlier(th, k)
    BY <1>1, <2>0, <2>1, <2>2 DEF Earlier
  <2>7. Continues(th, k, LaunchHow(th).how, LaunchHow(th).session)
    <3>1. Reached(th, k, threads[th].session)
      BY <1>4, <1>6, <2>0, <2>6 DEF SessionOf, Reached
    <3>2. CASE Earlier(th, k) = {}
      BY <3>1, <3>2 DEF Reached, Continues, LaunchHow
    <3>3. CASE Earlier(th, k) # {}
      <4>1. PICK last \in Earlier(th, k) :
              /\ IsNewest(last, Earlier(th, k))
              /\ threads[th].session = told[L[last]]
        BY <2>0, <3>1, <3>3 DEF Reached
      <4>2. threads[th].session # None
        BY <2>0, <4>1 DEF Earlier
      <4> QED
        BY <2>0, <3>3, <4>1, <4>2 DEF Continues, LaunchHow
    <3> QED
      BY <3>2, <3>3
  <2>8. LaunchesOf(h)'
    <3> SUFFICES ASSUME NEW n \in 1..k, launch'[L[n]].how # "none"
                 PROVE  Continues(th, n, launch[L[n]].how, launch[L[n]].session)'
      BY <1>2, <1>6, <2>0, <2>1 DEF LaunchesOf, Listed
    <3>1. Continues(th, n, launch'[L[n]].how, launch'[L[n]].session)
      <4>1. CASE n = k
        BY <1>2, <2>2, <2>7, <4>1
      <4>2. CASE n # k
        <5>1. n \in 1..(k - 1)
          BY <2>1, <4>2
        <5>2. launch'[L[n]] = launch[L[n]]
          BY <1>2, <2>1, <2>2, <5>1
        <5> QED
          BY <1>4, <1>6, <2>0, <2>1, <5>2 DEF LaunchesOf
      <4> QED
        BY <4>1, <4>2
    <3> QED
      BY <1>2, <2>0, <2>1, <2>3, <3>1 DEF Continues, Listed
  <2> QED
    BY <2>4, <2>5, <2>8
<1> QED
  BY <1>5, <1>6

\* A session is reported to the active turn, the last of its thread.
LEMMA ReportConverses ==
  ASSUME IInv, Conversations, NEW t \in Turn, NEW s \in Session,
         pc[t] = "read", pc'[t] = "read", UNCHANGED launch,
         \A u \in Turn \ {t} : pc'[u] = pc[u],
         \A u \in Turn : Owner(u)' = Owner(u),
         threads' = [threads EXCEPT ![Owner(t)].session = s],
         told' = [told EXCEPT ![t] = s]
  PROVE  \A h \in Thread : ListOf(h)' /\ SessionOf(h)' /\ LaunchesOf(h)'
<1>0. PICK th \in Thread : th = Owner(t)
  BY RunnerTurn
<1>1. /\ threads[th].active = t /\ t # None
      /\ told'[t] = s /\ s # None
      /\ \A u \in Turn \ {t} : told'[u] = told[u]
  BY <1>0, RunnerTurn, NoneAssumption DEF ActiveOf, IInv, TypeOK
<1> SUFFICES ASSUME NEW h \in Thread
             PROVE  ListOf(h)' /\ SessionOf(h)' /\ LaunchesOf(h)'
  OBVIOUS
<1>2. ListOf(h) /\ SessionOf(h) /\ LaunchesOf(h)
  BY DEF Conversations
<1>3. CASE h # th
  <2>1. threads'[h] = threads[h]
    BY <1>0, <1>3 DEF IInv, TypeOK
  <2>2. Undisturbed(h)
    BY <1>0, <1>1, <1>3, <2>1 DEF Undisturbed
  <2> QED
    BY <1>2, <2>2, UndisturbedKeeps
<1>4. CASE h = th
  <2>0. PICK L \in Seq(Turn), k \in Nat : L = Listed(h) /\ k = Len(L)
    BY ListedTurns
  <2>1. /\ DOMAIN L = 1..k /\ \A n \in 1..k : L[n] \in Turn
        /\ \A n \in 1..(k + 1) : Earlier(h, n) \subseteq 1..k
    BY <2>0, ListedTurns
  <2>2. /\ Listed(h)' = L /\ threads'[h].session = s
        /\ threads'[h].active = t
        /\ threads'[h].forkFrom = threads[h].forkFrom
    BY <1>0, <1>1, <1>4, <2>0 DEF IInv, TypeOK, ThreadState, Listed
  <2>3. k \in 1..k /\ L[k] = t /\ \A n \in 1..(k - 1) : pc[L[n]] = "done" /\ L[n] # t
    <3>1. L # << >> /\ L[k] = t
      BY <1>1, <1>2, <1>4, <2>0 DEF ListOf, Busy
    <3> QED
      BY <1>2, <2>0, <2>1, <3>1 DEF ListOf
  <2>4. \A n \in 1..k : Earlier(h, n)' = Earlier(h, n)
    <3> SUFFICES ASSUME NEW n \in 1..k
                 PROVE  Earlier(h, n)' = Earlier(h, n)
      OBVIOUS
    <3>1. \A i \in 1..(n - 1) : told'[L[i]] = told[L[i]]
      <4>1. 1..(n - 1) \subseteq 1..(k - 1)
        OBVIOUS
      <4> QED
        BY <1>1, <2>1, <2>3, <4>1
    <3> QED
      BY <2>0, <2>2, <3>1 DEF Earlier
  <2>5. k \in Earlier(h, k + 1)' /\ Earlier(h, k + 1)' \subseteq 1..k
    BY <1>1, <2>2, <2>3 DEF Earlier
  <2>6. ListOf(h)'
    <3> SUFFICES ASSUME NEW n \in 1..k
                 PROVE  \/ pc'[L[n]] = "done"
                        \/ n = k /\ threads'[h].active = L[n]
      BY <1>2, <2>0, <2>1, <2>2, <2>3 DEF ListOf
    <3>1. CASE n = k
      BY <2>2, <2>3, <3>1
    <3>2. CASE n # k
      BY <2>1, <2>3, <3>2
    <3> QED
      BY <3>1, <3>2
  <2>7. SessionOf(h)'
    <3>1. IsNewest(k, Earlier(h, k + 1))'
      BY <2>5 DEF IsNewest
    <3>2. threads'[h].session = told'[Listed(h)'[k]]
      BY <1>1, <2>2, <2>3
    <3>3. Reached(h, k + 1, threads[h].session)'
      BY <2>5, <3>1, <3>2 DEF Reached
    <3> QED
      BY <2>0, <2>2, <3>3 DEF SessionOf
  <2>8. LaunchesOf(h)'
    <3> SUFFICES ASSUME NEW n \in 1..k, launch[L[n]].how # "none"
                 PROVE  Continues(h, n, launch[L[n]].how, launch[L[n]].session)'
      BY <2>1, <2>2 DEF LaunchesOf
    <3>1. Continues(h, n, launch[L[n]].how, launch[L[n]].session)
      BY <1>2, <2>0, <2>1 DEF LaunchesOf
    <3>2. \A i \in Earlier(h, n) : told'[L[i]] = told[L[i]]
      <4>1. Earlier(h, n) \subseteq 1..(k - 1)
        BY DEF Earlier
      <4> QED
        BY <1>1, <2>1, <2>3, <4>1
    <3> QED
      BY <2>0, <2>2, <2>4, <3>1, <3>2 DEF Continues
  <2> QED
    BY <2>6, <2>7, <2>8
<1> QED
  BY <1>3, <1>4

\* A step of the runner of u that launches nothing and reports no session.
LEMMA RunnerConverses ==
  ASSUME IInv, Conversations, NEW u \in Turn,
         UNCHANGED <<launch, told>>,
         \A t \in Turn : Owner(t)' = Owner(t),
         \A t \in Turn : pc[t] = "done" => pc'[t] = "done",
         \/ threads' = threads
         \/ /\ threads' = [threads EXCEPT ![Owner(u)] = Release(Owner(u))]
            /\ pc'[ActiveOf(u)] = "done"
  PROVE  \A h \in Thread : ListOf(h)' /\ SessionOf(h)' /\ LaunchesOf(h)'
<1> SUFFICES ASSUME NEW h \in Thread
             PROVE  ListOf(h)' /\ SessionOf(h)' /\ LaunchesOf(h)'
  OBVIOUS
<1>1. \/ threads'[h] = threads[h]
      \/ /\ threads'[h] = [threads[h] EXCEPT !.active = None]
         /\ pc'[threads[h].active] = "done"
  BY DEF IInv, TypeOK, ActiveOf, Release
<1>2. Undisturbed(h)
  BY <1>1 DEF Undisturbed, IInv, TypeOK, ThreadState
<1> QED
  BY <1>2, UndisturbedKeeps DEF Conversations

\* A new thread has no turn and no session.
LEMMA NewThreadConverses ==
  ASSUME IInv, Conversations, NEW th \in Thread,
         NEW mode, NEW forkFrom,
         threads' = [threads EXCEPT ![th] = NewThread(mode, forkFrom)],
         UNCHANGED <<turns, pc, launch, told>>
  PROVE  \A h \in Thread : ListOf(h)' /\ SessionOf(h)' /\ LaunchesOf(h)'
<1> SUFFICES ASSUME NEW h \in Thread
             PROVE  ListOf(h)' /\ SessionOf(h)' /\ LaunchesOf(h)'
  OBVIOUS
<1>1. CASE h # th
  <2>1. Undisturbed(h)
    BY <1>1 DEF Undisturbed, Owner, IInv, TypeOK
  <2> QED
    BY <2>1, UndisturbedKeeps DEF Conversations
<1>2. CASE h = th
  <2>1. Listed(h)' = << >> /\ threads'[h].active = None /\ threads'[h].session = None
    BY <1>2 DEF IInv, TypeOK, NewThread, Listed
  <2>2. Len(Listed(h)') = 0 /\ DOMAIN Listed(h)' = {} /\ Earlier(h, 1)' = {}
    BY <2>1 DEF Earlier
  <2>3. Len(Listed(h)') + 1 = 1
    BY <2>2
  <2> QED
    BY <2>1, <2>2, <2>3 DEF ListOf, SessionOf, Reached, LaunchesOf, Busy
<1> QED
  BY <1>1, <1>2

\* A handler that starts no thread and no turn keeps what the conversations are.
LEMMA HandlerConverses ==
  ASSUME IInv, Conversations, Handler \/ Processor
  PROVE  \A h \in Thread : ListOf(h)' /\ SessionOf(h)' /\ LaunchesOf(h)'
<1>1. ASSUME NEW th \in Thread, NEW mode \in Mode, ThreadStart(th, mode)
      PROVE  \A h \in Thread : ListOf(h)' /\ SessionOf(h)' /\ LaunchesOf(h)'
  BY <1>1, NewThreadConverses DEF ThreadStart, Handle, runnerVars, childVars
<1>2. ASSUME NEW source \in Thread, NEW th \in Thread, ThreadFork(source, th)
      PROVE  \A h \in Thread : ListOf(h)' /\ SessionOf(h)' /\ LaunchesOf(h)'
  BY <1>2, NewThreadConverses DEF ThreadFork, Handle, runnerVars, childVars
<1>3. ASSUME NEW th \in Thread, NEW content \in Content, TurnStart(th, content)
      PROVE  \A h \in Thread : ListOf(h)' /\ SessionOf(h)' /\ LaunchesOf(h)'
  BY <1>3, TurnStartConverses
<1>4. ASSUME \/ \E th \in Thread, content \in Content : TurnSteer(th, content)
             \/ \E th \in Thread : TurnInterrupt(th)
             \/ \E th \in Thread, mode \in Mode, approved \in BOOLEAN :
                  ApprovalRespond(th, mode, approved)
             \/ ReadOrRefuse \/ SendResponse \/ NotifyStarted
      PROVE  \A h \in Thread : ListOf(h)' /\ SessionOf(h)' /\ LaunchesOf(h)'
  <2>1. /\ UNCHANGED <<launch, told>>
        /\ \A u \in Turn : turns'[u].thread = turns[u].thread
        /\ \A u \in Turn : pc[u] = "done" => pc'[u] = "done"
    <3>1. CASE NotifyStarted
      <4>1. pc[processor.msg.turn] = "none" /\ processor.msg.turn \in Turn
        BY <3>1 DEF NotifyStarted, IInv, Ownership, StartingHasTurn,
                    ClaimedTurnIsBorn, Starting
      <4> QED
        BY <3>1, <4>1 DEF NotifyStarted, childVars, IInv, TypeOK
    <3>2. CASE ~NotifyStarted
      <4>1. UNCHANGED <<pc, launch, told>>
        BY <1>4, <3>2
           DEF TurnSteer, TurnInterrupt, ApprovalRespond, ReadOrRefuse, SendResponse,
               Handle, runnerVars, childVars
      <4>2. CASE \E v \in Turn \cup {None} : \E q :
                   turns' = [turns EXCEPT ![v].steerQueue = q]
        BY <4>1, <4>2 DEF IInv, TypeOK, TurnState
      <4>3. CASE \E v \in Turn \cup {None} : turns' = [turns EXCEPT ![v].cancel = TRUE]
        BY <4>1, <4>3 DEF IInv, TypeOK, TurnState
      <4>4. CASE turns' = turns
        BY <4>1, <4>4
      <4>5. \A th \in Thread : threads[th].active \in Turn \cup {None}
        BY DEF IInv, TypeOK, ThreadState
      <4> QED
        BY <1>4, <3>2, <4>2, <4>3, <4>4, <4>5
           DEF TurnSteer, TurnInterrupt, ApprovalRespond, ReadOrRefuse, SendResponse
    <3> QED
      BY <3>1, <3>2
  <2>2. ASSUME NEW h \in Thread
        PROVE  /\ threads'[h].turns = threads[h].turns
               /\ threads'[h].session = threads[h].session
               /\ threads'[h].forkFrom = threads[h].forkFrom
               /\ threads'[h].active = threads[h].active
    <3>1. CASE threads' = threads
      BY <3>1
    <3>2. ASSUME NEW th \in Thread, NEW mode \in Mode,
                 threads' = [threads EXCEPT ![th].mode = mode]
          PROVE  /\ threads'[h].turns = threads[h].turns
                 /\ threads'[h].session = threads[h].session
                 /\ threads'[h].forkFrom = threads[h].forkFrom
                 /\ threads'[h].active = threads[h].active
      BY <3>2 DEF IInv, TypeOK, ThreadState
    <3> QED
      BY <1>4, <3>1, <3>2
         DEF TurnSteer, TurnInterrupt, ApprovalRespond, ReadOrRefuse, SendResponse,
             NotifyStarted
  <2>3. \A h \in Thread : Undisturbed(h)
    BY <2>1, <2>2 DEF Undisturbed, Owner
  <2> QED
    BY <2>3, UndisturbedKeeps DEF Conversations
<1> QED
  BY <1>1, <1>2, <1>3, <1>4 DEF Handler, Processor

LEMMA TurnWorkConverses ==
  ASSUME IInv, Stream, Conversations, [Next]_vars, NEW u \in Turn,
         Runner(u) \/ ReadLine(u) \/ WaitFails(u)
  PROVE  \A h \in Thread : ListOf(h)' /\ SessionOf(h)' /\ LaunchesOf(h)'
<1>1. \A t \in Turn : Owner(t)' = Owner(t)
  <2>1. CASE turns' = turns
    BY <2>1 DEF Owner
  <2>2. CASE Attach(u) \/ Finish(u) \/ Fail(u) \/ ReadItem(u)
    <3> USE DEF IInv, TypeOK, TurnState
    <3>1. CASE Attach(u)
      BY <3>1 DEF Attach, Owner
    <3>2. CASE Finish(u)
      BY <3>2, ZenonT(60) DEF Finish, Owner
    <3>3. CASE Fail(u)
      BY <3>3, ZenonT(60) DEF Fail, Owner
    <3>4. CASE ReadItem(u)
      BY <3>4 DEF ReadItem, Owner
    <3> QED
      BY <2>2, <3>1, <3>2, <3>3, <3>4
  <2>3. ASSUME NEW s \in Session \cup {None}, NEW failed \in BOOLEAN,
               NEW denied \in BOOLEAN, ReadResult(u, s, failed, denied)
        PROVE  \A t \in Turn : Owner(t)' = Owner(t)
    BY <2>3, ZenonT(60) DEF ReadResult, Owner, IInv, TypeOK, TurnState
  <2> QED
    BY <2>1, <2>2, <2>3
       DEF Runner, ReadLine, Launch, WriteStdin, Eof, Waited, CheckInterrupted, Notify,
           ReadSession, ReadProgress, ReadError, WaitFails, serverVars
<1>2. ASSUME NEW s \in Session \cup {None}, NEW failed \in BOOLEAN,
             NEW denied \in BOOLEAN,
             \/ s # None /\ ReadSession(u, s)
             \/ ReadResult(u, s, failed, denied)
      PROVE  \A h \in Thread : ListOf(h)' /\ SessionOf(h)' /\ LaunchesOf(h)'
  <2>1. pc[u] = "read" /\ pc' = pc /\ launch' = launch
    BY <1>2 DEF ReadSession, ReadResult, TakeLine, At
  <2>2. CASE s = None
    <3>1. threads' = threads /\ told' = told
      <4>1. /\ threads' = [threads EXCEPT ![Owner(u)].session =
                             threads[Owner(u)].session]
            /\ told' = told
        BY <1>2, <2>2 DEF ReadResult, SessionAfter
      <4>2. Owner(u) \in Thread
        BY <2>1, RunnerTurn
      <4>3. threads[Owner(u)] \in ThreadState /\ threads \in [Thread -> ThreadState]
        BY <4>2 DEF IInv, TypeOK
      <4>4. [threads[Owner(u)] EXCEPT !.session = threads[Owner(u)].session]
              = threads[Owner(u)]
        BY <4>3 DEF ThreadState
      <4> QED
        BY <4>1, <4>2, <4>3, <4>4
    <3> QED
      BY <1>1, <2>1, <3>1, RunnerConverses
  <2>3. CASE s # None
    <3>1. /\ threads' = [threads EXCEPT ![Owner(u)].session = s]
          /\ told' = [told EXCEPT ![u] = s]
      BY <1>2, <2>3 DEF ReadSession, ReadResult, SessionAfter
    <3> QED
      BY <1>1, <2>1, <2>3, <3>1, ReportConverses
  <2> QED
    BY <2>2, <2>3
<1>3. ASSUME NEW s \in Session, ReadSession(u, s)
      PROVE  \A h \in Thread : ListOf(h)' /\ SessionOf(h)' /\ LaunchesOf(h)'
  BY <1>2, <1>3, NoneAssumption
<1>4. CASE Launch(u)
  BY <1>4, LaunchConverses
<1>5. CASE Finish(u) \/ Fail(u)
  <2>1. pc[u] \in {"finish", "fail"} /\ ActiveOf(u) = u
    BY <1>5, RunnerTurn DEF Finish, Fail, At
  <2>2. /\ pc' = [pc EXCEPT ![u] = "done"]
        /\ threads' = [threads EXCEPT ![Owner(u)] = Release(Owner(u))]
        /\ UNCHANGED <<launch, told>>
    BY <1>5, Zenon DEF Finish, Fail, Goto, childVars
  <2>3. \A t \in Turn : pc[t] = "done" => pc'[t] = "done"
    BY <2>2 DEF IInv, TypeOK
  <2>4. pc'[ActiveOf(u)] = "done"
    BY <2>1, <2>2 DEF IInv, TypeOK
  <2> QED
    BY <1>1, <2>2, <2>3, <2>4, RunnerConverses
<1>6. CASE Attach(u) \/ WriteStdin(u) \/ Eof(u) \/ Waited(u) \/ WaitFails(u)
           \/ CheckInterrupted(u) \/ Notify(u) \/ ReadItem(u) \/ ReadProgress(u)
           \/ ReadError(u)
  <2>1. UNCHANGED <<launch, told, threads>>
    BY <1>6 DEF Attach, WriteStdin, Eof, Waited, WaitFails, CheckInterrupted, Notify,
                ReadItem, ReadProgress, ReadError, TakeLine, serverVars, childVars
  <2>2. \A t \in Turn : pc'[t] = pc[t] \/ (t = u /\ pc[u] # "done")
    BY <1>6
       DEF Attach, WriteStdin, Eof, Waited, WaitFails, CheckInterrupted, Notify,
           ReadItem, ReadProgress, ReadError, TakeLine, At, Goto, IInv, TypeOK
  <2>3. \A t \in Turn : pc[t] = "done" => pc'[t] = "done"
    BY <2>2
  <2> QED
    BY <1>1, <2>1, <2>3, RunnerConverses
<1> QED
  BY <1>2, <1>3, <1>4, <1>5, <1>6 DEF Runner, ReadLine

\* A turn is told of a session and launched only after its runner has gone on.
LEMMA StepSilent ==
  ASSUME IInv, Conversations, [Next]_vars, NEW t \in Turn
  PROVE  SilentBefore(t)'
<1>1. SilentBefore(t) /\ pc \in [Turn -> RunnerPlace]
  BY DEF Conversations, IInv, TypeOK
<1>2. CASE Handler \/ Processor
  <2>1. /\ UNCHANGED <<launch, told>>
        /\ pc'[t] \in {"none", "launch"} => pc[t] \in {"none", "launch"}
    <3>1. CASE NotifyStarted
      <4>1. pc[processor.msg.turn] = "none" /\ processor.msg.turn \in Turn
        BY <3>1 DEF NotifyStarted, IInv, Ownership, StartingHasTurn,
                    ClaimedTurnIsBorn, Starting
      <4> QED
        BY <1>1, <3>1, <4>1 DEF NotifyStarted, childVars
    <3>2. CASE ~NotifyStarted
      BY <1>2, <3>2
         DEF Handler, Processor, ThreadStart, ThreadFork, TurnStart, TurnSteer,
             TurnInterrupt, ApprovalRespond, ReadOrRefuse, SendResponse, Handle,
             runnerVars, childVars
    <3> QED
      BY <3>1, <3>2
  <2> QED
    BY <1>1, <2>1 DEF SilentBefore
<1>3. ASSUME NEW u \in Turn, Runner(u) \/ ReadLine(u) \/ WaitFails(u)
      PROVE  SilentBefore(t)'
  <2>1. CASE u # t
    <3>1. pc'[t] = pc[t] /\ told'[t] = told[t] /\ launch'[t] = launch[t]
      BY <1>1, <1>3, <2>1, ZenonT(60)
         DEF Runner, ReadLine, Launch, Attach, WriteStdin, Eof, Waited,
             CheckInterrupted, Finish, Fail, Notify, ReadSession, ReadResult, ReadItem,
             ReadProgress, ReadError, WaitFails, TakeLine, Goto, childVars, IInv, TypeOK
    <3> QED
      BY <1>1, <3>1 DEF SilentBefore
  <2>2. CASE u = t
    <3>1. \/ pc' = pc /\ UNCHANGED <<told, launch>>
          \/ pc[t] = "read" /\ pc' = pc
          \/ \E p \in RunnerPlace \ {"none", "launch"} : pc' = [pc EXCEPT ![t] = p]
      BY <1>3, <2>2
         DEF Runner, ReadLine, Launch, Attach, WriteStdin, Eof, Waited,
             CheckInterrupted, Finish, Fail, Notify, ReadSession, ReadResult, ReadItem,
             ReadProgress, ReadError, WaitFails, TakeLine, At, Goto, childVars,
             RunnerPlace
    <3> QED
      BY <1>1, <3>1 DEF SilentBefore
  <2> QED
    BY <2>1, <2>2
<1>4. CASE UNCHANGED <<pc, told, launch>>
  BY <1>1, <1>4 DEF SilentBefore
<1>5. ASSUME NEW u \in Turn, CancelKill(u) \/ ChildExit(u) \/ StdoutCloses(u)
      PROVE  SilentBefore(t)'
  BY <1>4, <1>5 DEF CancelKill, ChildExit, StdoutCloses, runnerVars
<1>6. CASE Terminated \/ UNCHANGED vars
  BY <1>4, <1>6 DEF Terminated, vars, runnerVars, childVars
<1> QED
  BY <1>2, <1>3, <1>5, <1>6 DEF Next

LEMMA StepConversations ==
  ASSUME IInv, Stream, Conversations, [Next]_vars
  PROVE  Conversations'
<1>1. \A t \in Turn : SilentBefore(t)'
  BY StepSilent
<1>2. CASE Handler \/ Processor
  BY <1>1, <1>2, HandlerConverses DEF Conversations
<1>3. ASSUME NEW u \in Turn, Runner(u) \/ ReadLine(u) \/ WaitFails(u)
      PROVE  Conversations'
  BY <1>1, <1>3, TurnWorkConverses DEF Conversations
<1>4. CASE UNCHANGED <<threads, turns, pc, told, launch>>
  <2>1. \A h \in Thread : Undisturbed(h)
    BY <1>4 DEF Undisturbed, Owner
  <2> QED
    BY <1>1, <2>1, UndisturbedKeeps DEF Conversations
<1>5. ASSUME NEW u \in Turn, CancelKill(u) \/ ChildExit(u) \/ StdoutCloses(u)
      PROVE  Conversations'
  BY <1>4, <1>5 DEF CancelKill, ChildExit, StdoutCloses, serverVars, runnerVars
<1>6. CASE Terminated \/ UNCHANGED vars
  BY <1>4, <1>6 DEF Terminated, vars, serverVars, runnerVars, childVars
<1> QED
  BY <1>2, <1>3, <1>5, <1>6 DEF Next

LEMMA InitConversations == Init => Conversations
<1> SUFFICES ASSUME Init PROVE Conversations
  OBVIOUS
<1>1. \A th \in Thread : Listed(th) = << >> /\ threads[th].session = None /\ ~Busy(th)
  BY DEF Init, Listed, NewThread, Busy
<1>2. \A th \in Thread : Earlier(th, Len(Listed(th)) + 1) = {}
  BY <1>1 DEF Earlier
<1>3. \A t \in Turn : SilentBefore(t)
  BY DEF Init, SilentBefore, NotLaunched
<1> QED
  BY <1>1, <1>2, <1>3 DEF Conversations, ListOf, SessionOf, Reached, LaunchesOf

\* At every moment the session of a thread, the sessions its turns reported and what
\* its runners launched claude with fit together: Conversations is inductive.
THEOREM ConversationInvariant == Spec => []Conversations
<1>1. IInv /\ Stream /\ Conversations /\ [Next]_vars => Conversations'
  BY StepConversations
<1> QED
  BY <1>1, InitConversations, InductiveInvariant, StreamInvariant, PTL DEF Spec

\* A turn resumes the session that the newest of the earlier turns of its thread was
\* told of; the first turn of a fork forks the source's session, and only a thread
\* with neither begins a new one.
THEOREM TurnsContinueTheirThread == Spec => []ConversationContinues
<1>1. ASSUME IInv, Conversations
      PROVE  ConversationContinues
  <2> SUFFICES ASSUME NEW th \in Thread, NEW n \in DOMAIN Listed(th),
                      NEW t, t = Listed(th)[n], launch[t].how # "none"
               PROVE  Continues(th, n, launch[t].how, launch[t].session)
    BY DEF ConversationContinues, Continues, Earlier, Listed, IsNewest
  <2> QED
    BY <1>1 DEF Conversations, LaunchesOf
<1> QED
  BY <1>1, InductiveInvariant, ConversationInvariant, PTL

=============================================================================

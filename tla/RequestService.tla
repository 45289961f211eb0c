--------------------------- MODULE RequestService ---------------------------
(***************************************************************************)
(* What the client of a connection is promised of its requests, whatever   *)
(* channels and tasks they pass: each is answered at most once, in the     *)
(* order of asking but for those refused at the door; nothing but          *)
(* initialize succeeds before an initialize did, and nothing is refused    *)
(* after it; each initialize and each turn that succeeds is told of once   *)
(* more, in a notification beside its answer, and the events of a turn     *)
(* come after that.  Whether the notification or the answer comes first is *)
(* left open: the README has the answer first.                             *)
(***************************************************************************)
EXTENDS Integers, Sequences, FiniteSets

CONSTANTS Conn, Method, Chatter

VARIABLES
  asked,  \* the messages of each client, requests and notifications
  told    \* what each client was told

vars == <<asked, told>>

Init == asked = [c \in Conn |-> << >>] /\ told = [c \in Conn |-> << >>]

\* The places of what c was told in one of these kinds.
Places(c, kinds) == {i \in DOMAIN told[c] : told[c][i].kind \in kinds}
Number(c, kind) == Cardinality(Places(c, {kind}))

Answered(c, kinds) == {told[c][i].id : i \in Places(c, kinds)}
Succeeded(c, method) == {n \in Answered(c, {"ok"}) : asked[c][n] = method}

Unanswered(c, n) ==
  /\ n \in DOMAIN asked[c]
  /\ asked[c][n] # "notice"
  /\ n \notin Answered(c, {"ok", "refused", "overloaded"})

\* The next answer but for refusals at the door.
InTurn(c, n) == Unanswered(c, n) /\ \A m \in Answered(c, {"ok", "refused"}) : m < n

Ask(c, method) ==
  /\ asked' = [asked EXCEPT ![c] = Append(@, method)]
  /\ UNCHANGED told

Tell(c, kind, n) ==
  /\ told' = [told EXCEPT ![c] = Append(@, [kind |-> kind, conn |-> c, id |-> n])]
  /\ UNCHANGED asked

Overload(c, n) == Unanswered(c, n) /\ Tell(c, "overloaded", n)

Refuse(c, n) ==
  /\ InTurn(c, n)
  /\ asked[c][n] # "initialize" /\ Succeeded(c, "initialize") = {}
  /\ Tell(c, "refused", n)

\* How many notifications c had more than answers that tell the same.
Ahead(c, kind, method) == Number(c, kind) - Cardinality(Succeeded(c, method))

\* The notification that goes with an answer just told, or to be told next.
Announce(c, kind, method) ==
  /\ \/ Ahead(c, kind, method) = -1
     \/ /\ Ahead(c, kind, method) = 0
        /\ \E n \in DOMAIN asked[c] : InTurn(c, n) /\ asked[c][n] = method
  /\ Tell(c, kind, 0)

Initialized(c) == Announce(c, "initialized", "initialize")
Started(c) == Announce(c, "started", "turn")

Succeed(c, n) ==
  /\ InTurn(c, n)
  /\ asked[c][n] = "initialize" => Ahead(c, "initialized", "initialize") \in 0..1
  /\ asked[c][n] = "turn" => Ahead(c, "started", "turn") \in 0..1
  /\ asked[c][n] # "initialize" => Succeeded(c, "initialize") # {}
  /\ Tell(c, "ok", n)

Event(c) ==
  /\ Number(c, "event") < Chatter * Number(c, "started")
  /\ Tell(c, "event", 0)

Next ==
  \E c \in Conn :
    \/ \E method \in Method : Ask(c, method)
    \/ Initialized(c) \/ Started(c) \/ Event(c)
    \/ \E n \in DOMAIN asked[c] : Overload(c, n) \/ Refuse(c, n) \/ Succeed(c, n)

Spec == Init /\ [][Next]_vars

=============================================================================

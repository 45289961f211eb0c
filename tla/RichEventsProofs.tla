-------------------------- MODULE RichEventsProofs --------------------------
(***************************************************************************)
(* Theorems about RichEvents: what the notifications about a tool call     *)
(* tell, that the texts of content blocks and of partial messages reach    *)
(* the client whole, and the types of what the runner keeps and sends.     *)
(* They hold for every set of texts, indexes, calls and messages and every *)
(* number of lines.                                                        *)
(***************************************************************************)
EXTENDS RichEvents, TLAPS, FiniteSetTheorems, SequenceTheorems, WellFoundedInduction

-----------------------------------------------------------------------------
(* The notifications about one tool item.                                  *)

Note == [what : {"started", "plan", "output", "completed", "failed"}, input : Input]
End  == {"completed", "failed"}

Tells(notes, kinds) == \E n \in DOMAIN notes : notes[n].what \in kinds

TellsOnce(notes, kinds) ==
  \A n, m \in DOMAIN notes :
    notes[n].what \in kinds /\ notes[m].what \in kinds => n = m

StartedWith(notes, last, input) ==
  \E m \in 1..last : notes[m].what = "started" /\ notes[m].input = input

\* An end has the input of a start before it, or there is none.
EndsWell(notes) ==
  \A n \in DOMAIN notes : notes[n].what \in End =>
    \/ StartedWith(notes, n, notes[n].input)
    \/ notes[n].input = "none" /\ \A m \in 1..n : notes[m].what # "started"

PlansWell(notes) ==
  \A n \in DOMAIN notes : notes[n].what = "plan" =>
    \E m \in 1..(n - 1) : notes[m].what = "started"

\* What holds of the notes of every tool item, whatever the server remembers.
Told(notes) ==
  /\ notes \in Seq(Note)
  /\ TellsOnce(notes, End) /\ EndsWell(notes)
  /\ TellsOnce(notes, {"plan"}) /\ PlansWell(notes)

LEMMA NoteAdded ==
  ASSUME NEW notes \in Seq(Note), NEW note \in Note
  PROVE  /\ Append(notes, note) \in Seq(Note)
         /\ Len(notes) \in Nat /\ DOMAIN notes = 1..Len(notes)
         /\ DOMAIN Append(notes, note) = 1..(Len(notes) + 1)
         /\ \A n \in 1..Len(notes) : Append(notes, note)[n] = notes[n]
         /\ Append(notes, note)[Len(notes) + 1] = note
OBVIOUS

LEMMA StillTellsOnce ==
  ASSUME NEW notes \in Seq(Note), NEW note \in Note, NEW kinds,
         TellsOnce(notes, kinds), note.what \in kinds => ~Tells(notes, kinds)
  PROVE  TellsOnce(Append(notes, note), kinds)
BY NoteAdded DEF TellsOnce, Tells

LEMMA StillTells ==
  ASSUME NEW notes \in Seq(Note), NEW note \in Note, NEW kinds
  PROVE  Tells(Append(notes, note), kinds) <=> Tells(notes, kinds) \/ note.what \in kinds
BY NoteAdded DEF Tells

LEMMA StillStarted ==
  ASSUME NEW notes \in Seq(Note), NEW note \in Note, NEW last \in DOMAIN notes, NEW input
  PROVE  StartedWith(Append(notes, note), last, input) <=> StartedWith(notes, last, input)
BY NoteAdded DEF StartedWith

\* A note that neither ends nor plans, or that may, keeps what is told true.
LEMMA NoteTold ==
  ASSUME NEW notes, Told(notes), NEW note \in Note,
         note.what \in End =>
           /\ ~Tells(notes, End)
           /\ \/ StartedWith(notes, Len(notes), note.input)
              \/ note.input = "none" /\ ~Tells(notes, {"started"}),
         note.what = "plan" => ~Tells(notes, {"plan"}) /\ Tells(notes, {"started"})
  PROVE  Told(Append(notes, note))
<1> DEFINE more == Append(notes, note)
<1>1. /\ notes \in Seq(Note) /\ more \in Seq(Note)
      /\ Len(notes) \in Nat /\ DOMAIN notes = 1..Len(notes)
      /\ DOMAIN more = 1..(Len(notes) + 1)
      /\ \A n \in 1..Len(notes) : more[n] = notes[n]
      /\ more[Len(notes) + 1] = note
  BY NoteAdded DEF Told
<1>2. TellsOnce(more, End) /\ TellsOnce(more, {"plan"})
  BY <1>1, StillTellsOnce DEF Told
<1> HIDE DEF more
<1>3. EndsWell(more)
  <2> SUFFICES ASSUME NEW n \in DOMAIN more, more[n].what \in End
               PROVE  \/ StartedWith(more, n, more[n].input)
                      \/ /\ more[n].input = "none"
                         /\ \A m \in 1..n : more[m].what # "started"
    BY DEF EndsWell
  <2>1. CASE n \in 1..Len(notes)
    BY <1>1, <2>1 DEF Told, EndsWell, StartedWith
  <2>2. CASE n = Len(notes) + 1
    <3>1. CASE StartedWith(notes, Len(notes), note.input)
      BY <1>1, <2>2, <3>1 DEF StartedWith
    <3>2. CASE note.input = "none" /\ ~Tells(notes, {"started"})
      BY <1>1, <2>2, <3>2 DEF Tells, End
    <3> QED
      BY <1>1, <2>2, <3>1, <3>2
  <2> QED
    BY <1>1, <2>1, <2>2
<1>4. PlansWell(more)
  <2> SUFFICES ASSUME NEW n \in DOMAIN more, more[n].what = "plan"
               PROVE  \E m \in 1..(n - 1) : more[m].what = "started"
    BY DEF PlansWell
  <2>1. CASE n \in 1..Len(notes)
    BY <1>1, <2>1 DEF Told, PlansWell
  <2>2. CASE n = Len(notes) + 1
    BY <1>1, <2>2 DEF Tells
  <2> QED
    BY <1>1, <2>1, <2>2
<1> QED
  BY <1>1, <1>2, <1>3, <1>4 DEF Told, more
-----------------------------------------------------------------------------
(* What the server remembers of a call and what it has told.               *)

\* The state of tool item t: a remembered call was started with its input, and
\* a call that was not completed, started or planned tells no end, start, plan.
CallOf(t) ==
  /\ Told(called[t])
  /\ calls[t] # "none" => StartedWith(called[t], Len(called[t]), calls[t])
  /\ t \notin completed => ~Tells(called[t], End)
  /\ t \notin completed /\ calls[t] = "none" => ~Tells(called[t], {"started"})
  /\ t \notin planned => ~Tells(called[t], {"plan"})

ToolTypes ==
  /\ calls \in [Tool -> Input] /\ DOMAIN called = Tool
  /\ completed \subseteq Tool /\ planned \subseteq Tool /\ todos \subseteq Tool

ToolInv == ToolTypes /\ \A t \in Tool : CallOf(t)

LEMMA InitTools == Init => ToolInv
<1> SUFFICES ASSUME Init PROVE ToolInv
  OBVIOUS
<1>1. ToolTypes
  BY DEF Init, ToolTypes, Input
<1>2. ASSUME NEW t \in Tool PROVE CallOf(t)
  <2>1. called[t] = << >> /\ calls[t] = "none"
    BY DEF Init
  <2>2. DOMAIN << >> = {} /\ << >> \in Seq(Note)
    OBVIOUS
  <2> QED
    BY <2>1, <2>2 DEF CallOf, Told, Tells, TellsOnce, EndsWell, PlansWell
<1> QED
  BY <1>1, <1>2 DEF ToolInv

LEMMA NotesAdded ==
  ASSUME NEW notes \in Seq(Note)
  PROVE  /\ notes \o << >> = notes
         /\ \A note \in Note : notes \o <<note>> = Append(notes, note)
<1>1. << >> \in Seq(Note) /\ \A note \in Note : <<note>> \in Seq(Note)
  OBVIOUS
<1>2. notes \o << >> = notes
  OBVIOUS
<1>3. ASSUME NEW note \in Note
      PROVE  notes \o <<note>> = Append(notes, note)
  OBVIOUS
<1> QED
  BY <1>2, <1>3

LEMMA StepCallTool ==
  ASSUME ToolInv, NEW t \in Tool, NEW input \in Input \ {"none"}, CallTool(t, input)
  PROVE  ToolInv'
<1>1. ToolTypes'
  BY DEF ToolInv, ToolTypes, CallTool, Planned
<1>2. ASSUME NEW u \in Tool, u # t PROVE CallOf(u)'
  <2>1. /\ called'[u] = called[u] /\ calls'[u] = calls[u]
        /\ completed' = completed /\ (u \in planned' <=> u \in planned)
    BY <1>2 DEF ToolInv, ToolTypes, CallTool, Planned
  <2> QED
    BY <2>1 DEF ToolInv, CallOf
<1>3. CallOf(t)'
  <2> DEFINE start == ToolNote("started", input)
             plan  == ToolNote("plan", input)
  <2>1. start \in Note /\ plan \in Note /\ start.what = "started" /\ start.input = input
        /\ plan.what = "plan" /\ plan.input = input
    BY DEF ToolNote, Note, Input
  <2>2. CallOf(t) /\ called[t] \in Seq(Note)
    BY DEF ToolInv, CallOf, Told
  <2>3. PICK before : before = called[t] \o (IF calls[t] # "none" THEN << >> ELSE <<start>>)
    OBVIOUS
  <2>4. /\ before = called[t] \/ before = Append(called[t], start)
        /\ calls[t] = "none" => before = Append(called[t], start)
        /\ calls[t] # "none" => before = called[t]
    BY <2>1, <2>2, <2>3, NotesAdded
  <2> HIDE DEF start, plan
  <2>5. /\ Told(before) /\ before \in Seq(Note)
        /\ Tells(before, {"started"})
        /\ StartedWith(before, Len(before), calls'[t]) /\ calls'[t] # "none"
        /\ Tells(before, End) <=> Tells(called[t], End)
        /\ Tells(before, {"plan"}) <=> Tells(called[t], {"plan"})
    <3>1. CASE calls[t] # "none"
      <4>1. before = called[t] /\ calls'[t] = calls[t]
        BY <2>4, <3>1 DEF CallTool
      <4>2. StartedWith(before, Len(before), calls[t])
        BY <2>2, <3>1, <4>1 DEF CallOf
      <4>3. Tells(before, {"started"})
        BY <2>2, <4>1, <4>2 DEF Tells, StartedWith
      <4> QED
        BY <2>2, <3>1, <4>1, <4>2, <4>3 DEF CallOf
    <3>2. CASE calls[t] = "none"
      <4>1. before = Append(called[t], start) /\ calls'[t] = input
        BY <2>4, <3>2 DEF CallTool, ToolInv, ToolTypes
      <4>2. Told(before)
        BY <2>1, <2>2, <4>1, NoteTold DEF CallOf, End
      <4>3. StartedWith(before, Len(before), input)
        BY <2>1, <2>2, <4>1, NoteAdded DEF StartedWith
      <4>4. /\ Tells(before, {"started"})
            /\ Tells(before, End) <=> Tells(called[t], End)
            /\ Tells(before, {"plan"}) <=> Tells(called[t], {"plan"})
        BY <2>1, <2>2, <4>1, StillTells DEF End
      <4> QED
        BY <4>1, <4>2, <4>3, <4>4 DEF Told
    <3> QED
      BY <3>1, <3>2
  <2>6. /\ completed' = completed /\ t \in planned'
        /\ called'[t] = before
             \o (IF t \in TodoWrite /\ input = "full" /\ t \notin planned
                 THEN <<plan>> ELSE << >>)
    BY <2>3 DEF ToolInv, ToolTypes, CallTool, Planned, start, plan
  <2>7. called'[t] = before \/ (called'[t] = Append(before, plan) /\ t \notin planned)
    BY <2>1, <2>5, <2>6, NotesAdded
  <2>8. CASE called'[t] = before
    BY <2>2, <2>5, <2>6, <2>8 DEF CallOf
  <2>9. CASE called'[t] = Append(before, plan) /\ t \notin planned
    <3>1. Told(Append(before, plan))
      BY <2>1, <2>2, <2>5, <2>9, NoteTold DEF CallOf, End
    <3>2. StartedWith(Append(before, plan), Len(Append(before, plan)), calls'[t])
      BY <2>1, <2>5, NoteAdded DEF StartedWith
    <3>3. Tells(Append(before, plan), End) <=> Tells(before, End)
      BY <2>1, <2>5, StillTells DEF End
    <3> QED
      BY <2>2, <2>5, <2>6, <2>9, <3>1, <3>2, <3>3 DEF CallOf
  <2> QED
    BY <2>7, <2>8, <2>9
<1> QED
  BY <1>1, <1>2, <1>3 DEF ToolInv

LEMMA StepToolResult ==
  ASSUME ToolInv, NEW t \in Tool, NEW failed \in BOOLEAN, NEW output \in BOOLEAN,
         ToolResult(t, failed, output)
  PROVE  ToolInv'
<1>1. CASE ~FirstResult(t)
  <2>1. UNCHANGED <<calls, completed, planned, called, todos>>
    BY <1>1 DEF ToolResult
  <2> QED
    BY <2>1 DEF ToolInv, ToolTypes, CallOf
<1>2. CASE FirstResult(t)
  <2>1. ToolTypes' /\ completed' = completed \cup {t} /\ planned' = planned
    BY <1>2 DEF ToolInv, ToolTypes, ToolResult, Input
  <2>2. ASSUME NEW u \in Tool, u # t PROVE CallOf(u)'
    <3>1. /\ called'[u] = called[u] /\ calls'[u] = calls[u]
          /\ (u \in completed' <=> u \in completed)
      BY <1>2, <2>1, <2>2 DEF ToolInv, ToolTypes, ToolResult
    <3> QED
      BY <2>1, <3>1 DEF ToolInv, CallOf
  <2>3. CallOf(t)'
    <3> DEFINE shown == ToolNote("output", calls[t])
               end   == ToolNote(IF failed THEN "failed" ELSE "completed", calls[t])
    <3>1. /\ shown \in Note /\ shown.what = "output"
          /\ end \in Note /\ end.what \in End /\ end.input = calls[t]
      BY DEF ToolNote, Note, End, ToolInv, ToolTypes
    <3>2. CallOf(t) /\ called[t] \in Seq(Note) /\ t \notin completed
      BY <1>2 DEF ToolInv, CallOf, Told, FirstResult
    <3>3. PICK before :
            before = called[t] \o (IF t \in Bash /\ calls[t] # "none" /\ output
                                   THEN <<shown>> ELSE << >>)
      OBVIOUS
    <3>4. before = called[t] \/ before = Append(called[t], shown)
      BY <3>1, <3>2, <3>3, NotesAdded
    <3>5. called'[t] = before \o <<end>>
      BY <1>2, <3>3 DEF ToolInv, ToolTypes, ToolResult
    <3> HIDE DEF shown, end
    <3>6. /\ Told(before) /\ before \in Seq(Note) /\ ~Tells(before, End)
          /\ calls[t] # "none" => StartedWith(before, Len(before), calls[t])
          /\ calls[t] = "none" => ~Tells(before, {"started"})
          /\ Tells(before, {"plan"}) <=> Tells(called[t], {"plan"})
      <4>1. CASE before = called[t]
        BY <3>2, <4>1 DEF CallOf
      <4>2. CASE before = Append(called[t], shown)
        <5>1. Told(before)
          BY <3>1, <3>2, <4>2, NoteTold DEF CallOf, End
        <5>2. /\ Tells(before, {"started"}) <=> Tells(called[t], {"started"})
              /\ Tells(before, End) <=> Tells(called[t], End)
              /\ Tells(before, {"plan"}) <=> Tells(called[t], {"plan"})
          BY <3>1, <3>2, <4>2, StillTells DEF End
        <5>3. calls[t] # "none" => StartedWith(before, Len(before), calls[t])
          BY <3>1, <3>2, <4>2, NoteAdded DEF CallOf, StartedWith
        <5> QED
          BY <3>2, <5>1, <5>2, <5>3 DEF CallOf, Told
      <4> QED
        BY <3>4, <4>1, <4>2
    <3>7. called'[t] = Append(before, end)
      BY <3>1, <3>5, <3>6, NotesAdded
    <3>8. Told(Append(before, end))
      BY <3>1, <3>6, NoteTold DEF End
    <3>9. Tells(Append(before, end), {"plan"}) <=> Tells(before, {"plan"})
      BY <3>1, <3>6, StillTells DEF End
    <3>10. calls'[t] = "none" /\ t \in completed'
      BY <1>2, <2>1 DEF ToolInv, ToolTypes, ToolResult
    <3> QED
      BY <2>1, <3>2, <3>6, <3>7, <3>8, <3>9, <3>10 DEF CallOf
  <2> QED
    BY <2>1, <2>2, <2>3 DEF ToolInv
<1> QED
  BY <1>1, <1>2

LEMMA StepTools ==
  ASSUME ToolInv, [Next]_vars
  PROVE  ToolInv'
<1>1. CASE UNCHANGED toolVars
  BY <1>1 DEF ToolInv, ToolTypes, CallOf, toolVars
<1>2. ASSUME NEW t \in Tool, NEW input \in Input \ {"none"}, CallTool(t, input)
      PROVE  ToolInv'
  BY <1>2, StepCallTool
<1>3. CASE StreamLine
  BY <1>1, <1>2, <1>3
     DEF StreamLine, StartBlock, ApplyDelta, CompleteBlock, StartToolBlock, StartResultBlock
<1>4. CASE AssistantBlock
  BY <1>1, <1>2, <1>4 DEF AssistantBlock, FinalText, PartialText, FinalTool
<1>5. CASE UserBlock
  BY <1>5, StepToolResult DEF UserBlock
<1>6. CASE EndOfTurn \/ UNCHANGED vars
  BY <1>1, <1>6 DEF EndOfTurn, vars
<1> QED
  BY <1>3, <1>4, <1>5, <1>6 DEF Next

\* What the server remembers of a call agrees with what it has told of it:
\* ToolInv is inductive.
THEOREM ToolInvariant == Spec => []ToolInv
<1>1. Init => ToolInv
  BY InitTools
<1>2. ToolInv /\ [Next]_vars => ToolInv'
  BY StepTools
<1> QED
  BY <1>1, <1>2, PTL DEF Spec

LEMMA OnceIsOne ==
  ASSUME NEW notes, NEW kinds, TellsOnce(notes, kinds)
  PROVE  Cardinality({n \in DOMAIN notes : notes[n].what \in kinds}) <= 1
<1> DEFINE S == {n \in DOMAIN notes : notes[n].what \in kinds}
<1>1. CASE S = {}
  BY <1>1, FS_EmptySet
<1>2. CASE S # {}
  <2>1. PICK n : n \in S
    BY <1>2
  <2>2. S = {n}
    BY <2>1 DEF TellsOnce
  <2>3. Cardinality({n}) = 1
    BY FS_Singleton
  <2> QED
    BY <2>2, <2>3
<1> QED
  BY <1>1, <1>2

\* Whatever lines claude streams, in whatever order, the first tool_result of a
\* call ends its item, once, with the input that started it.
THEOREM ToolsAddUp == Spec => []ToolItemsAddUp
<1>1. ToolInv => ToolItemsAddUp
  <2> SUFFICES ASSUME ToolInv, NEW t \in Tool
               PROVE  LET ends == {n \in DOMAIN called[t] : called[t][n].what \in End}
                      IN  /\ Cardinality(ends) <= 1
                          /\ \A n \in ends :
                               LET inputs == {called[t][m].input :
                                     m \in {k \in 1..n : called[t][k].what = "started"}}
                               IN  called[t][n].input
                                     \in (IF inputs = {} THEN {"none"} ELSE inputs)
    BY DEF ToolItemsAddUp, End
  <2>1. TellsOnce(called[t], End) /\ EndsWell(called[t])
    BY DEF ToolInv, CallOf, Told
  <2>2. Cardinality({n \in DOMAIN called[t] : called[t][n].what \in End}) <= 1
    BY <2>1, OnceIsOne
  <2>3. ASSUME NEW n \in DOMAIN called[t], called[t][n].what \in End
        PROVE  LET inputs == {called[t][m].input :
                     m \in {k \in 1..n : called[t][k].what = "started"}}
               IN  called[t][n].input \in (IF inputs = {} THEN {"none"} ELSE inputs)
    <3>1. CASE StartedWith(called[t], n, called[t][n].input)
      BY <3>1 DEF StartedWith
    <3>2. CASE /\ called[t][n].input = "none"
               /\ \A m \in 1..n : called[t][m].what # "started"
      BY <3>2
    <3> QED
      BY <2>1, <2>3, <3>1, <3>2 DEF EndsWell
  <2> QED
    BY <2>2, <2>3
<1> QED
  BY <1>1, ToolInvariant, PTL

\* plan_tool_calls: a call that comes in a content block and in a final message
\* updates the plan once, and a client has the item by then.
THEOREM PlansUpdateOnce == Spec => []PlanUpdatedOnce
<1>1. ToolInv => PlanUpdatedOnce
  <2> SUFFICES ASSUME ToolInv, NEW t \in Tool
               PROVE  /\ Count(called[t], {"plan"}) <= 1
                      /\ PlansWell(called[t])
    BY DEF PlanUpdatedOnce, PlansWell
  <2> QED
    BY OnceIsOne DEF ToolInv, CallOf, Told, Count
<1> QED
  BY <1>1, ToolInvariant, PTL

-----------------------------------------------------------------------------
(* Texts are joined by a recursive function: what it computes is proved by *)
(* taking the least number at which it would not.                          *)

\* Induction by a least counterexample: the naturals are well founded.
LEMMA LeastNumber ==
  ASSUME NEW T, T \subseteq Nat, T # {}
  PROVE  \E x \in T : \A y \in T : x <= y
<1>1. PICK x \in T : \A y \in T : <<y, x>> \notin OpToRel(<, Nat)
  BY WFMin, NatLessThanWellFounded
<1>2. ASSUME NEW y \in T PROVE ~(y < x)
  <2>1. x \in Nat /\ y \in Nat
    OBVIOUS
  <2>2. <<y, x>> \notin {ss \in Nat \X Nat : ss[1] < ss[2]}
    BY <1>1 DEF OpToRel
  <2> QED
    BY <2>1, <2>2
<1>3. x \in Nat /\ \A y \in T : y \in Nat /\ ~(y < x)
  BY <1>2
<1>4. \A a, b \in Nat : ~(b < a) => a <= b
  OBVIOUS
<1>5. \A y \in T : x <= y
  BY <1>3, <1>4
<1> QED
  BY <1>5

\* f[i] joins the first i texts.
Joins(f, texts, k) ==
  \A i \in 1..k : f[i] = IF i = 1 THEN texts[i] ELSE f[i - 1] \o texts[i]

LEMMA JoinExists ==
  ASSUME NEW S, NEW texts \in Seq(Seq(S))
  PROVE  \E f \in [1..Len(texts) -> Seq(S)] : Joins(f, texts, Len(texts))
<1> DEFINE Has(k) == \E f \in [1..k -> Seq(S)] : Joins(f, texts, k)
           Lacks == {k \in 0..Len(texts) : ~Has(k)}
<1>1. /\ Len(texts) \in Nat
      /\ \A i \in 1..Len(texts) : texts[i] \in Seq(S)
  OBVIOUS
<1>2. CASE Lacks = {}
  BY <1>1, <1>2
<1>3. CASE Lacks # {}
  <2>1. Lacks \subseteq Nat
    BY <1>1
  <2>2. PICK k \in Lacks : \A j \in Lacks : k <= j
    BY <1>3, <2>1, LeastNumber
  <2>3. k \in 0..Len(texts) /\ ~Has(k)
    BY <2>2
  <2>4. CASE k = 0
    <3>1. [i \in 1..k |-> << >>] \in [1..k -> Seq(S)] /\ 1..k = {}
      BY <2>4
    <3>2. Joins([i \in 1..k |-> << >>], texts, k)
      BY <3>1 DEF Joins
    <3> QED
      BY <2>3, <3>1, <3>2
  <2>5. CASE k # 0
    <3>1. k - 1 \in 0..Len(texts) /\ k \in 1..Len(texts)
      BY <1>1, <2>3, <2>5
    <3>2. Has(k - 1)
      <4>1. k - 1 \notin Lacks
        <5> HIDE DEF Lacks
        <5> QED
          BY <2>2, <3>1
      <4> QED
        BY <3>1, <4>1
    <3>3. PICK f \in [1..(k - 1) -> Seq(S)] : Joins(f, texts, k - 1)
      BY <3>2
    <3> DEFINE last == IF k = 1 THEN texts[1] ELSE f[k - 1] \o texts[k]
               g    == [i \in 1..k |-> IF i = k THEN last ELSE f[i]]
    <3>4. last \in Seq(S)
      <4>1. CASE k = 1
        BY <1>1, <3>1, <4>1
      <4>2. CASE k # 1
        <5>1. f[k - 1] \in Seq(S) /\ texts[k] \in Seq(S)
          BY <1>1, <3>1, <3>3, <4>2
        <5>2. f[k - 1] \o texts[k] \in Seq(S)
          BY <5>1, ConcatProperties
        <5> QED
          BY <4>2, <5>2
      <4> QED
        BY <4>1, <4>2
    <3>5. g \in [1..k -> Seq(S)]
      BY <1>1, <3>1, <3>3, <3>4
    <3>6. Joins(g, texts, k)
      <4> SUFFICES ASSUME NEW i \in 1..k
                   PROVE  g[i] = IF i = 1 THEN texts[i] ELSE g[i - 1] \o texts[i]
        BY DEF Joins
      <4>1. CASE i = k
        BY <1>1, <3>1, <4>1
      <4>2. CASE i # k
        <5>1. i \in 1..(k - 1) /\ i - 1 # k /\ i - 1 \in 0..(k - 1)
          BY <3>1, <4>2
        <5>2. g[i] = f[i]
          BY <4>2
        <5>3. i # 1 => g[i - 1] = f[i - 1]
          BY <3>1, <5>1
        <5>4. f[i] = IF i = 1 THEN texts[i] ELSE f[i - 1] \o texts[i]
          BY <3>3, <5>1 DEF Joins
        <5> HIDE DEF g
        <5> QED
          BY <5>2, <5>3, <5>4
      <4> QED
        BY <4>1, <4>2
    <3> QED
      BY <2>3, <3>5, <3>6
  <2> QED
    BY <2>4, <2>5
<1> QED
  BY <1>2, <1>3

LEMMA JoinUnique ==
  ASSUME NEW f, NEW g, NEW texts, NEW more, NEW n \in Nat,
         Joins(f, texts, n), Joins(g, more, n), \A i \in 1..n : texts[i] = more[i]
  PROVE  \A i \in 1..n : f[i] = g[i]
<1> DEFINE Differ == {i \in 1..n : f[i] # g[i]}
<1>1. CASE Differ = {}
  BY <1>1
<1>2. CASE Differ # {}
  <2>1. Differ \subseteq Nat
    OBVIOUS
  <2>2. PICK k \in Differ : \A j \in Differ : k <= j
    BY <1>2, <2>1, LeastNumber
  <2>3. k \in 1..n /\ f[k] # g[k] /\ texts[k] = more[k]
    BY <2>2
  <2>4. CASE k = 1
    BY <2>3, <2>4 DEF Joins
  <2>5. CASE k # 1
    <3>1. k - 1 \in 1..n /\ ~(k <= k - 1)
      BY <2>3, <2>5
    <3>2. k - 1 \notin Differ
      <4> HIDE DEF Differ
      <4> QED
        BY <2>2, <3>1
    <3>3. f[k - 1] = g[k - 1]
      BY <3>1, <3>2
    <3>4. f[k] = f[k - 1] \o texts[k] /\ g[k] = g[k - 1] \o more[k]
      BY <2>3, <2>5 DEF Joins
    <3> QED
      BY <2>3, <3>3, <3>4
  <2> QED
    BY <2>4, <2>5
<1> QED
  BY <1>1, <1>2

LEMMA FlattenJoins ==
  ASSUME NEW S, NEW texts \in Seq(Seq(S)), texts # << >>
  PROVE  \E f \in [1..Len(texts) -> Seq(S)] :
           Joins(f, texts, Len(texts)) /\ FlattenSeq(texts) = f[Len(texts)]
<1> DEFINE Unfolds(f) ==
             f = [i \in 1..Len(texts) |-> IF i = 1 THEN texts[i] ELSE f[i - 1] \o texts[i]]
<1>1. Len(texts) \in Nat /\ Len(texts) # 0
  OBVIOUS
<1>2. FlattenSeq(texts) = (CHOOSE f : Unfolds(f))[Len(texts)]
  BY <1>1 DEF FlattenSeq
<1>3. PICK f \in [1..Len(texts) -> Seq(S)] : Joins(f, texts, Len(texts))
  BY JoinExists
<1>4. Unfolds(f)
  BY <1>3 DEF Joins
<1>5. PICK g : g = (CHOOSE h : Unfolds(h))
  OBVIOUS
<1>6. Unfolds(g)
  BY <1>4, <1>5
<1>7. Joins(g, texts, Len(texts)) /\ DOMAIN g = 1..Len(texts)
      /\ g = [i \in 1..Len(texts) |-> g[i]]
  BY <1>6 DEF Joins
<1>8. \A i \in 1..Len(texts) : g[i] = f[i]
  <2>1. PICK n \in Nat : n = Len(texts)
    BY <1>1
  <2>2. Joins(g, texts, n) /\ Joins(f, texts, n) /\ \A i \in 1..n : texts[i] = texts[i]
    BY <1>3, <1>7, <2>1
  <2>3. \A i \in 1..n : g[i] = f[i]
    BY <2>2, JoinUnique
  <2> QED
    BY <2>1, <2>3
<1>9. g = f
  BY <1>3, <1>7, <1>8
<1> QED
  BY <1>2, <1>3, <1>5, <1>9

\* Adding a text to the texts joins it at the end.
LEMMA FlattenAppend ==
  ASSUME NEW S, NEW texts \in Seq(Seq(S)), NEW text \in Seq(S)
  PROVE  /\ FlattenSeq(texts) \in Seq(S)
         /\ FlattenSeq(Append(texts, text)) = FlattenSeq(texts) \o text
<1> DEFINE n    == Len(texts)
           more == Append(texts, text)
<1>1. /\ n \in Nat /\ more \in Seq(Seq(S)) /\ more # << >> /\ Len(more) = n + 1
      /\ more[n + 1] = text /\ \A i \in 1..n : more[i] = texts[i]
      /\ n = 0 <=> texts = << >>
  <2>1. PICK T : T = Seq(S)
    OBVIOUS
  <2>2. texts \in Seq(T) /\ text \in T
    BY <2>1
  <2>3. /\ n \in Nat /\ more \in Seq(T) /\ more # << >> /\ Len(more) = n + 1
        /\ more[n + 1] = text /\ \A i \in 1..n : more[i] = texts[i]
        /\ n = 0 <=> texts = << >>
    BY <2>2
  <2> QED
    BY <2>1, <2>3
<1>2. PICK g \in [1..Len(more) -> Seq(S)] :
        Joins(g, more, Len(more)) /\ FlattenSeq(more) = g[Len(more)]
  BY <1>1, FlattenJoins
<1> HIDE DEF n, more
<1>3. g[n + 1] = IF n + 1 = 1 THEN text ELSE g[n] \o text
  <2>1. n + 1 \in 1..Len(more) /\ (n + 1) - 1 = n
    BY <1>1
  <2> QED
    BY <1>1, <1>2, <2>1 DEF Joins
<1>4. CASE n = 0
  <2>1. FlattenSeq(texts) = << >>
    BY <1>1, <1>4 DEF FlattenSeq, n
  <2>2. << >> \o text = text
    OBVIOUS
  <2> QED
    BY <1>1, <1>2, <1>3, <1>4, <2>1, <2>2 DEF more
<1>5. CASE n # 0
  <2>1. PICK f \in [1..n -> Seq(S)] : Joins(f, texts, n) /\ FlattenSeq(texts) = f[n]
    BY <1>1, <1>5, FlattenJoins DEF n
  <2>2. Joins(g, more, n)
    <3>1. \A i \in 1..n : i \in 1..Len(more)
      BY <1>1
    <3> QED
      BY <1>2, <3>1 DEF Joins
  <2>3. \A i \in 1..n : f[i] = g[i]
    <3>1. n \in Nat /\ \A i \in 1..n : texts[i] = more[i]
      BY <1>1
    <3>2. Joins(f, texts, n)
      BY <2>1
    <3> QED
      BY <2>2, <3>1, <3>2, JoinUnique
  <2>4. f[n] = g[n] /\ f[n] \in Seq(S)
    BY <1>1, <1>5, <2>1, <2>3
  <2> QED
    BY <1>1, <1>2, <1>3, <1>5, <2>1, <2>4 DEF more
<1> QED
  BY <1>4, <1>5
-----------------------------------------------------------------------------
(* What a client has of a text after the notes about it.                   *)

Speech == [what : {"started", "delta", "completed"}, text : Seq(Chunks)]

\* What a client that appends deltas adds at a note.
Heard(note) == IF note.what = "completed" THEN << >> ELSE note.text

LEMMA SpeechAdded ==
  ASSUME NEW notes \in Seq(Speech), NEW note \in Speech
  PROVE  /\ Append(notes, note) \in Seq(Speech)
         /\ Len(notes) \in Nat /\ DOMAIN notes = 1..Len(notes)
         /\ Len(Append(notes, note)) = Len(notes) + 1
         /\ DOMAIN Append(notes, note) = 1..(Len(notes) + 1)
         /\ \A n \in 1..Len(notes) :
              Append(notes, note)[n] = notes[n] /\ notes[n] \in Speech
         /\ Append(notes, note)[Len(notes) + 1] = note
OBVIOUS

LEMMA AccumulatedGrows ==
  /\ Accumulated(<< >>) = << >>
  /\ \A notes \in Seq(Speech), note \in Speech :
       /\ Accumulated(notes) \in Seq(Chunks)
       /\ Accumulated(Append(notes, note)) = Accumulated(notes) \o Heard(note)
<1>1. Accumulated(<< >>) = << >>
  <2>1. [n \in DOMAIN << >> |->
          IF << >>[n].what = "completed" THEN << >> ELSE << >>[n].text] = << >>
    OBVIOUS
  <2> QED
    BY <2>1 DEF Accumulated, FlattenSeq
<1>2. ASSUME NEW notes \in Seq(Speech), NEW note \in Speech
      PROVE  /\ Accumulated(notes) \in Seq(Chunks)
             /\ Accumulated(Append(notes, note)) = Accumulated(notes) \o Heard(note)
  <2> DEFINE more   == Append(notes, note)
             texts  == [n \in 1..Len(notes) |-> Heard(notes[n])]
             longer == [n \in 1..Len(more) |-> Heard(more[n])]
  <2>1. /\ more \in Seq(Speech) /\ Len(notes) \in Nat /\ DOMAIN notes = 1..Len(notes)
        /\ Len(more) = Len(notes) + 1 /\ DOMAIN more = 1..Len(more)
        /\ \A n \in 1..Len(notes) : more[n] = notes[n] /\ notes[n] \in Speech
        /\ more[Len(notes) + 1] = note
    BY SpeechAdded
  <2>2. \A any \in Speech : Heard(any) \in Seq(Chunks)
    BY DEF Heard, Speech
  <2>3. Accumulated(notes) = FlattenSeq(texts) /\ Accumulated(more) = FlattenSeq(longer)
    BY <2>1 DEF Accumulated, Heard
  <2> HIDE DEF more
  <2>4. /\ texts \in Seq(Seq(Chunks)) /\ Heard(note) \in Seq(Chunks)
        /\ longer = Append(texts, Heard(note))
    <3>1. PICK T : T = Seq(Chunks)
      OBVIOUS
    <3>2. texts \in [1..Len(notes) -> T] /\ Heard(note) \in T
      BY <2>1, <2>2, <3>1
    <3>3. texts \in Seq(T) /\ Len(texts) = Len(notes)
      BY <2>1, <3>2
    <3>4. longer = Append(texts, Heard(note))
      <4>1. /\ longer \in [1..Len(more) -> T] /\ Len(more) \in Nat
            /\ \A n \in 1..Len(more) :
                 longer[n] = IF n = Len(notes) + 1 THEN Heard(note) ELSE texts[n]
        BY <2>1, <2>2, <3>1
      <4> HIDE DEF longer, texts
      <4>2. longer \in Seq(T) /\ Len(longer) = Len(notes) + 1
        BY <2>1, <4>1
      <4>3. PICK joined : joined = Append(texts, Heard(note))
        OBVIOUS
      <4>4. /\ joined \in Seq(T) /\ Len(joined) = Len(notes) + 1
            /\ \A n \in 1..(Len(notes) + 1) :
                 joined[n] = IF n = Len(notes) + 1 THEN Heard(note) ELSE texts[n]
        BY <3>2, <3>3, <4>3
      <4>5. longer = joined
        BY <2>1, <4>1, <4>2, <4>4, SeqEqual
      <4> QED
        BY <4>3, <4>5
    <3> QED
      BY <3>1, <3>2, <3>3, <3>4
  <2>5. FlattenSeq(texts) \in Seq(Chunks)
        /\ FlattenSeq(Append(texts, Heard(note))) = FlattenSeq(texts) \o Heard(note)
    <3> HIDE DEF texts
    <3> QED
      BY <2>4, FlattenAppend
  <2> QED
    BY <2>3, <2>4, <2>5 DEF more
<1> QED
  BY <1>1, <1>2

\* The n-th note comes after the start at first and before the next one.
Begins(notes, n, first) ==
  /\ first \in 1..n /\ notes[first].what = "started"
  /\ \A k \in 1..n : notes[k].what = "started" => k <= first

LEMMA SinceStart ==
  ASSUME NEW notes, NEW n \in Nat, NEW first, Begins(notes, n, first)
  PROVE  Since(notes, n) = SubSeq(notes, first, n)
<1> DEFINE starts == {m \in 1..n : notes[m].what = "started"}
<1>1. first \in starts /\ \A k \in starts : k <= first
  BY DEF Begins
<1>2. starts # {} /\ starts \subseteq Nat
  BY <1>1
<1>3. PICK last : last = CHOOSE m \in starts : \A k \in starts : k <= m
  OBVIOUS
<1>4. last \in starts /\ \A k \in starts : k <= last
  BY <1>1, <1>3
<1>5. last = first
  <2>1. last \in Nat /\ first \in Nat /\ last <= first /\ first <= last
    BY <1>1, <1>2, <1>4
  <2> QED
    BY <2>1
<1> QED
  BY <1>2, <1>3, <1>5 DEF Since

LEMMA SinceNone ==
  ASSUME NEW notes, NEW n, \A k \in 1..n : notes[k].what # "started"
  PROVE  Since(notes, n) = << >>
BY DEF Since

\* The last start before the n-th note, if there is one.
LEMMA SomeStart ==
  ASSUME NEW notes, NEW n \in Nat
  PROVE  \/ \A k \in 1..n : notes[k].what # "started"
         \/ \E first \in 1..n : Begins(notes, n, first)
<1> DEFINE after == {n - k : k \in {m \in 1..n : notes[m].what = "started"}}
<1>1. CASE after = {}
  BY <1>1
<1>2. CASE after # {}
  <2>1. after \subseteq Nat
    OBVIOUS
  <2>2. PICK d \in after : \A e \in after : d <= e
    BY <1>2, <2>1, LeastNumber
  <2>3. PICK first \in 1..n : notes[first].what = "started" /\ d = n - first
    BY <2>2
  <2>4. ASSUME NEW k \in 1..n, notes[k].what = "started"
        PROVE  k <= first
    <3>1. n - k \in after
      BY <2>4
    <3>2. d <= n - k
      <4> HIDE DEF after
      <4> QED
        BY <2>2, <3>1
    <3> QED
      BY <2>3, <3>2
  <2> QED
    BY <2>3, <2>4 DEF Begins
<1> QED
  BY <1>1, <1>2

LEMMA SubSeqSame ==
  ASSUME NEW notes \in Seq(Speech), NEW more, NEW n \in 1..Len(notes), NEW first \in 1..n,
         \A k \in 1..Len(notes) : more[k] = notes[k]
  PROVE  SubSeq(more, first, n) = SubSeq(notes, first, n)
<1>1. Len(notes) \in Nat /\ \A k \in 1..Len(notes) : notes[k] \in Speech
  OBVIOUS
<1>2. \A k \in first..n : k \in 1..Len(notes)
  BY <1>1
<1>3. /\ \A k \in first..n : more[k] = notes[k] /\ more[k] \in Speech
      /\ first \in Int /\ n \in Int
  BY <1>1, <1>2
<1>4. /\ SubSeq(more, first, n) \in Seq(Speech)
      /\ SubSeq(notes, first, n) \in Seq(Speech)
      /\ Len(SubSeq(more, first, n)) = n - first + 1
      /\ Len(SubSeq(notes, first, n)) = n - first + 1
      /\ \A k \in 1..(n - first + 1) : SubSeq(more, first, n)[k] = more[first + k - 1]
      /\ \A k \in 1..(n - first + 1) : SubSeq(notes, first, n)[k] = notes[first + k - 1]
  BY <1>3, SubSeqProperties
<1>5. \A k \in 1..(n - first + 1) : first + k - 1 \in first..n
  BY <1>1
<1>6. \A k \in 1..(n - first + 1) :
        SubSeq(more, first, n)[k] = SubSeq(notes, first, n)[k]
  BY <1>3, <1>4, <1>5
<1> QED
  BY <1>4, <1>6, SeqEqual

\* A note changes nothing in what was told before it.
LEMMA SinceSame ==
  ASSUME NEW notes \in Seq(Speech), NEW note \in Speech, NEW n \in 1..Len(notes)
  PROVE  Since(Append(notes, note), n) = Since(notes, n)
<1>1. PICK more : more = Append(notes, note)
  OBVIOUS
<1>2. Len(notes) \in Nat /\ n \in Nat /\ \A k \in 1..Len(notes) : more[k] = notes[k]
  BY <1>1
<1>3. \A k \in 1..n : k \in 1..Len(notes) /\ more[k] = notes[k]
  BY <1>2
<1>4. CASE \A k \in 1..n : notes[k].what # "started"
  BY <1>1, <1>3, <1>4, SinceNone
<1>5. ASSUME NEW first \in 1..n, Begins(notes, n, first)
      PROVE  Since(more, n) = Since(notes, n)
  <2>1. Begins(more, n, first)
    BY <1>3, <1>5 DEF Begins
  <2>2. SubSeq(more, first, n) = SubSeq(notes, first, n)
    BY <1>2, SubSeqSame
  <2> QED
    BY <1>2, <1>5, <2>1, <2>2, SinceStart
<1> QED
  BY <1>1, <1>2, <1>4, <1>5, SomeStart

Now(notes) == Since(notes, Len(notes))

LEMMA NowStarted ==
  ASSUME NEW notes \in Seq(Speech), NEW note \in Speech, note.what = "started"
  PROVE  Now(Append(notes, note)) = <<note>>
<1>1. PICK more, n : more = Append(notes, note) /\ n = Len(more)
  OBVIOUS
<1>2. /\ Len(notes) \in Nat /\ n = Len(notes) + 1 /\ n \in Nat /\ n \in Int
      /\ more[n] = note
  BY <1>1
<1>3. Begins(more, n, n) /\ n..n = {n}
  BY <1>2 DEF Begins
<1>4. Now(more) = SubSeq(more, n, n)
  BY <1>1, <1>2, <1>3, SinceStart DEF Now
<1>5. /\ SubSeq(more, n, n) \in Seq(Speech)
      /\ Len(SubSeq(more, n, n)) = 1
      /\ SubSeq(more, n, n)[1] = more[n]
  <2>1. n - n + 1 = 1 /\ n + 1 - 1 = n
    BY <1>2
  <2>2. \A i \in n..n : more[i] \in Speech
    BY <1>2, <1>3
  <2> QED
    BY <1>2, <2>1, <2>2, SubSeqProperties
<1>6. <<note>> \in Seq(Speech) /\ Len(<<note>>) = 1 /\ <<note>>[1] = note
  OBVIOUS
<1>7. PICK one : one = SubSeq(more, n, n)
  OBVIOUS
<1>8. one = <<note>>
  <2>1. \A i \in 1..Len(one) : one[i] = <<note>>[i]
    BY <1>2, <1>5, <1>6, <1>7
  <2> QED
    BY <1>5, <1>6, <1>7, <2>1, SeqEqual
<1> QED
  BY <1>1, <1>4, <1>7, <1>8

LEMMA NowContinued ==
  ASSUME NEW notes \in Seq(Speech), NEW note \in Speech, note.what # "started",
         Now(notes) # << >>
  PROVE  /\ Now(notes) \in Seq(Speech)
         /\ Now(Append(notes, note)) = Append(Now(notes), note)
<1>1. PICK more, n : more = Append(notes, note) /\ n = Len(notes)
  OBVIOUS
<1>2. /\ n \in Nat /\ Len(more) = n + 1 /\ more[n + 1] = note
      /\ more \in Seq(Speech) /\ \A k \in 1..n : more[k] = notes[k]
      /\ \A k \in 1..(n + 1) : more[k] \in Speech
      /\ \A k \in 1..n : notes[k] \in Speech
  BY <1>1
<1>3. PICK first \in 1..n : Begins(notes, n, first)
  BY <1>1, <1>2, SomeStart, SinceNone DEF Now
<1>4. Begins(more, n + 1, first)
  <2>1. \A k \in 1..(n + 1) : k \in 1..n \/ k = n + 1
    BY <1>2
  <2> QED
    BY <1>2, <1>3, <2>1 DEF Begins
<1>5. /\ Now(notes) = SubSeq(notes, first, n)
      /\ Now(more) = SubSeq(more, first, n + 1)
  <2>1. Since(notes, n) = SubSeq(notes, first, n)
    BY <1>2, <1>3, SinceStart
  <2>2. PICK last : last = n + 1
    OBVIOUS
  <2>3. last \in Nat /\ Begins(more, last, first) /\ Len(more) = last
    BY <1>2, <1>4, <2>2
  <2>4. Since(more, last) = SubSeq(more, first, last)
    BY <2>3, SinceStart
  <2> QED
    BY <1>1, <2>1, <2>2, <2>3, <2>4 DEF Now
<1>6. PICK d \in Nat : d = n - first + 1 /\ d + 1 = (n + 1) - first + 1
  BY <1>2, <1>3
<1>7. PICK some, all : some = SubSeq(notes, first, n) /\ all = SubSeq(more, first, n + 1)
  OBVIOUS
<1>8. /\ some \in Seq(Speech) /\ Len(some) = d
      /\ \A i \in 1..d : some[i] = notes[first + i - 1]
  <2>1. \A i \in first..n : i \in 1..n
    BY <1>2, <1>3
  <2>2. \A i \in first..n : notes[i] \in Speech
    BY <1>2, <2>1
  <2>3. first \in Int /\ n \in Int /\ first <= n
    BY <1>2, <1>3
  <2> QED
    BY <1>6, <1>7, <2>2, <2>3, SubSeqProperties
<1>9. /\ all \in Seq(Speech) /\ Len(all) = d + 1
      /\ \A i \in 1..(d + 1) : all[i] = more[first + i - 1]
  <2>1. \A i \in first..(n + 1) : i \in 1..(n + 1)
    BY <1>2, <1>3
  <2>2. \A i \in first..(n + 1) : more[i] \in Speech
    BY <1>2, <2>1
  <2>3. first \in Int /\ n + 1 \in Int /\ first <= n + 1
    BY <1>2, <1>3
  <2> QED
    BY <1>6, <1>7, <2>2, <2>3, SubSeqProperties
<1>10. PICK grown : grown = Append(some, note)
  OBVIOUS
<1>11. /\ grown \in Seq(Speech) /\ Len(grown) = d + 1
       /\ \A i \in 1..d : grown[i] = some[i]
       /\ grown[d + 1] = note
  BY <1>8, <1>10
<1>12. ASSUME NEW i \in 1..(d + 1) PROVE all[i] = grown[i]
  <2>1. CASE i = d + 1
    <3>1. first + i - 1 = n + 1
      BY <1>2, <1>3, <1>6, <2>1
    <3> QED
      BY <1>2, <1>9, <1>11, <2>1, <3>1
  <2>2. CASE i # d + 1
    <3>1. i \in 1..d /\ first + i - 1 \in 1..n
      BY <1>2, <1>3, <1>6, <2>2
    <3> QED
      BY <1>2, <1>8, <1>9, <1>11, <3>1
  <2> QED
    BY <2>1, <2>2
<1>13. all = grown
  BY <1>9, <1>11, <1>12, SeqEqual
<1> QED
  BY <1>1, <1>5, <1>7, <1>8, <1>10, <1>13

-----------------------------------------------------------------------------
(* The state of a text item: what it has told so far.                      *)

LEMMA CountGrows ==
  ASSUME NEW notes \in Seq(Speech), NEW note \in Speech, NEW kinds
  PROVE  /\ Count(notes, kinds) \in Nat
         /\ Count(Append(notes, note), kinds)
              = Count(notes, kinds) + (IF note.what \in kinds THEN 1 ELSE 0)
<1> DEFINE more   == Append(notes, note)
           last   == Len(notes) + 1
           some   == {n \in 1..Len(notes) : notes[n].what \in kinds}
           all    == {n \in 1..last : more[n].what \in kinds}
<1>1. /\ Len(notes) \in Nat /\ DOMAIN notes = 1..Len(notes) /\ DOMAIN more = 1..last
      /\ \A n \in 1..Len(notes) : more[n] = notes[n]
      /\ more[last] = note
  BY SpeechAdded
<1>2. Count(notes, kinds) = Cardinality(some) /\ Count(more, kinds) = Cardinality(all)
  BY <1>1 DEF Count
<1>3. IsFiniteSet(some) /\ last \notin some
  <2>1. IsFiniteSet(1..Len(notes)) /\ some \subseteq 1..Len(notes)
    BY <1>1, FS_Interval
  <2> QED
    BY <1>1, <2>1, FS_Subset
<1>4. Cardinality(some) \in Nat /\ Cardinality(some \cup {last}) = Cardinality(some) + 1
  BY <1>3, FS_CardinalityType, FS_AddElement
<1>5. all = IF note.what \in kinds THEN some \cup {last} ELSE some
  <2>1. 1..last = 1..Len(notes) \cup {last} /\ last \notin 1..Len(notes)
    BY <1>1
  <2> HIDE DEF more, last
  <2>2. ASSUME NEW n PROVE n \in all <=> n \in some \/ (n = last /\ note.what \in kinds)
    BY <1>1, <2>1
  <2> QED
    BY <2>2
<1> HIDE DEF more, some, all
<1>6. Count(more, kinds) = Count(notes, kinds) + (IF note.what \in kinds THEN 1 ELSE 0)
  <2>1. CASE note.what \in kinds
    BY <1>2, <1>4, <1>5, <2>1
  <2>2. CASE note.what \notin kinds
    BY <1>2, <1>4, <1>5, <2>2
  <2> QED
    BY <2>1, <2>2
<1> QED
  BY <1>2, <1>4, <1>6 DEF more

\* A completed note has what was heard since the start, and is alone.
WholeAt(notes, n) ==
  /\ Since(notes, n) # << >>
  /\ notes[n].what = "completed" =>
       /\ Count(Since(notes, n), {"completed"}) <= 1
       /\ notes[n].text = Accumulated(Since(notes, n))

WholeTexts(notes) == \A n \in DOMAIN notes : WholeAt(notes, n)

\* A client with these notes has this text, completed so many times.
Has(notes, text, ends) ==
  /\ notes \in Seq(Speech) /\ WholeTexts(notes)
  /\ Now(notes) # << >>
  /\ Accumulated(Now(notes)) = text
  /\ Count(Now(notes), {"completed"}) = ends

LEMMA StillWhole ==
  ASSUME NEW notes \in Seq(Speech), NEW note \in Speech, WholeTexts(notes),
         Now(Append(notes, note)) # << >>,
         note.what = "completed" =>
           /\ Count(Now(Append(notes, note)), {"completed"}) <= 1
           /\ note.text = Accumulated(Now(Append(notes, note)))
  PROVE  WholeTexts(Append(notes, note))
<1>1. PICK more, n : more = Append(notes, note) /\ n = Len(notes)
  OBVIOUS
<1>2. /\ n \in Nat /\ DOMAIN notes = 1..n /\ DOMAIN more = 1..(n + 1)
      /\ Len(more) = n + 1 /\ more[n + 1] = note
      /\ \A k \in 1..n : more[k] = notes[k]
  BY <1>1, SpeechAdded
<1>3. ASSUME NEW k \in 1..n PROVE WholeAt(more, k)
  <2>1. Since(more, k) = Since(notes, k)
    BY <1>1, SinceSame
  <2> QED
    BY <1>2, <1>3, <2>1 DEF WholeTexts, WholeAt
<1>4. Since(more, n + 1) = Now(more)
  BY <1>2 DEF Now
<1>5. WholeAt(more, n + 1)
  BY <1>1, <1>2, <1>4 DEF WholeAt
<1>6. \A k \in 1..(n + 1) : k \in 1..n \/ k = n + 1
  BY <1>2
<1> QED
  BY <1>1, <1>2, <1>3, <1>5, <1>6 DEF WholeTexts

LEMMA SaysStarted ==
  ASSUME NEW notes \in Seq(Speech), WholeTexts(notes)
  PROVE  Has(Append(notes, Started), << >>, 0)
<1>1. Started \in Speech /\ Started.what = "started" /\ Started.text = << >>
  <2>1. << >> \in Seq(Chunks)
    OBVIOUS
  <2> QED
    BY <2>1 DEF Started, Speech
<1>2. PICK more : more = Append(notes, Started)
  OBVIOUS
<1>3. more \in Seq(Speech) /\ Now(more) = <<Started>>
  BY <1>1, <1>2, SpeechAdded, NowStarted
<1>4. << >> \in Seq(Speech) /\ <<Started>> = Append(<< >>, Started) /\ <<Started>> # << >>
  OBVIOUS
<1>5. Accumulated(<<Started>>) = << >>
  <2>1. Accumulated(<<Started>>) = Accumulated(<< >>) \o Heard(Started)
    BY <1>1, <1>4, AccumulatedGrows
  <2>2. << >> \o << >> = << >>
    OBVIOUS
  <2> QED
    BY <1>1, <2>1, <2>2, AccumulatedGrows DEF Heard
<1>6. Count(<<Started>>, {"completed"}) = 0
  <2>1. Count(<< >>, {"completed"}) = 0
    BY FS_EmptySet DEF Count
  <2>2. PICK none, kinds : none = << >> /\ kinds = {"completed"}
    OBVIOUS
  <2>3. none \in Seq(Speech) /\ Started.what \notin kinds
    BY <1>1, <1>4, <2>2
  <2>4. Count(Append(none, Started), kinds)
          = Count(none, kinds) + (IF Started.what \in kinds THEN 1 ELSE 0)
    BY <1>1, <2>3, CountGrows
  <2> QED
    BY <1>4, <2>1, <2>2, <2>3, <2>4
<1>7. WholeTexts(more)
  BY <1>1, <1>2, <1>3, <1>4, StillWhole
<1> QED
  BY <1>2, <1>3, <1>4, <1>5, <1>6, <1>7 DEF Has

LEMMA SaysDelta ==
  ASSUME NEW notes, NEW text, NEW ends, NEW delta \in Seq(Chunks), Has(notes, text, ends)
  PROVE  Has(Append(notes, Delta(delta)), text \o delta, ends)
<1>1. /\ Delta(delta) \in Speech /\ Delta(delta).what = "delta"
      /\ Heard(Delta(delta)) = delta
  BY DEF Delta, Speech, Heard
<1>2. PICK note, more : note = Delta(delta) /\ more = Append(notes, note)
  OBVIOUS
<1>3. /\ notes \in Seq(Speech) /\ more \in Seq(Speech)
      /\ Now(notes) \in Seq(Speech) /\ Now(more) = Append(Now(notes), note)
  BY <1>1, <1>2, SpeechAdded, NowContinued DEF Has
<1>4. Now(more) # << >>
  BY <1>2, <1>3
<1>5. Accumulated(Now(more)) = text \o delta
  BY <1>1, <1>2, <1>3, AccumulatedGrows DEF Has
<1>6. Count(Now(more), {"completed"}) = ends
  <2>1. Count(Now(more), {"completed"}) = Count(Now(notes), {"completed"}) + 0
    BY <1>1, <1>2, <1>3, CountGrows
  <2> QED
    BY <1>3, <2>1, CountGrows, <1>1 DEF Has
<1>7. WholeTexts(more)
  BY <1>1, <1>2, <1>3, <1>4, StillWhole DEF Has
<1> QED
  BY <1>2, <1>3, <1>4, <1>5, <1>6, <1>7 DEF Has

LEMMA SaysCompleted ==
  ASSUME NEW notes, NEW text \in Seq(Chunks), Has(notes, text, 0)
  PROVE  Has(Append(notes, Completed(text)), text, 1)
<1>1. /\ Completed(text) \in Speech /\ Completed(text).what = "completed"
      /\ Heard(Completed(text)) = << >> /\ Completed(text).text = text
  BY DEF Completed, Speech, Heard
<1>2. PICK note, more : note = Completed(text) /\ more = Append(notes, note)
  OBVIOUS
<1>3. /\ notes \in Seq(Speech) /\ more \in Seq(Speech)
      /\ Now(notes) \in Seq(Speech) /\ Now(more) = Append(Now(notes), note)
  BY <1>1, <1>2, SpeechAdded, NowContinued DEF Has
<1>4. Now(more) # << >>
  BY <1>2, <1>3
<1>5. Accumulated(Now(more)) = text
  <2>1. Accumulated(Now(more)) = text \o << >>
    BY <1>1, <1>2, <1>3, AccumulatedGrows DEF Has
  <2>2. text \o << >> = text
    OBVIOUS
  <2> QED
    BY <2>1, <2>2
<1>6. Count(Now(more), {"completed"}) = 1
  <2>1. Count(Now(more), {"completed"}) = Count(Now(notes), {"completed"}) + 1
    BY <1>1, <1>2, <1>3, CountGrows
  <2> QED
    BY <2>1 DEF Has
<1>7. WholeTexts(more)
  <2>1. /\ Now(Append(notes, note)) # << >> /\ note \in Speech
        /\ Count(Now(Append(notes, note)), {"completed"}) <= 1
        /\ note.text = Accumulated(Now(Append(notes, note)))
    BY <1>1, <1>2, <1>4, <1>5, <1>6
  <2>2. notes \in Seq(Speech) /\ WholeTexts(notes)
    BY DEF Has
  <2> QED
    BY <1>2, <2>1, <2>2, StillWhole
<1> QED
  BY <1>2, <1>3, <1>4, <1>5, <1>6, <1>7 DEF Has

-----------------------------------------------------------------------------
(* The content blocks and what was told of them.                           *)

Block == [kind : TextKind \cup {"tool", "none"}, text : Seq(Chunks), completed : BOOLEAN]

TextTypes ==
  /\ blocks \in [Index -> Block] /\ streamed \in BOOLEAN
  /\ ~streamed => \A i \in Index : blocks[i] = NoBlock
  /\ spoken \in [TextItem -> Seq(Speech)]

\* The text of an open or completed block is what its client has.
BlockTold(i) ==
  blocks[i].kind \in TextKind =>
    Has(spoken[StreamItem(i)], blocks[i].text, IF blocks[i].completed THEN 1 ELSE 0)

TextInv ==
  /\ TextTypes
  /\ \A item \in TextItem : WholeTexts(spoken[item])
  /\ \A i \in Index : BlockTold(i)

LEMMA ItemsApart ==
  /\ \A i \in Index : StreamItem(i) \in TextItem
  /\ \A m \in Msg, i \in Index : FinalItem(m, i) \in TextItem
  /\ \A i, j \in Index : StreamItem(i) = StreamItem(j) => i = j
  /\ \A m \in Msg, i, j \in Index : StreamItem(i) # FinalItem(m, j)
<1>1. ASSUME NEW m \in Msg, NEW i \in Index, NEW j \in Index
      PROVE  StreamItem(i) # FinalItem(m, j)
  <2>1. StreamItem(i)[1] = "stream" /\ FinalItem(m, j)[1] = "final"
    BY DEF StreamItem, FinalItem
  <2> QED
    BY <2>1
<1>2. ASSUME NEW i \in Index, NEW j \in Index, StreamItem(i) = StreamItem(j)
      PROVE  i = j
  <2>1. StreamItem(i)[2] = i /\ StreamItem(j)[2] = j
    BY DEF StreamItem
  <2> QED
    BY <1>2, <2>1
<1>3. \A i \in Index : StreamItem(i) \in TextItem
  BY DEF TextItem
<1>4. \A m \in Msg, i \in Index : FinalItem(m, i) \in TextItem
  BY DEF TextItem
<1> QED
  BY <1>1, <1>2, <1>3, <1>4

LEMMA InitTexts == Init => TextInv
<1> SUFFICES ASSUME Init PROVE TextInv
  OBVIOUS
<1>1. << >> \in Seq(Chunks) /\ << >> \in Seq(Speech) /\ DOMAIN << >> = {}
  OBVIOUS
<1>2. TextTypes
  BY <1>1 DEF Init, TextTypes, Block, NoBlock
<1>3. \A item \in TextItem : WholeTexts(spoken[item])
  BY <1>1 DEF Init, WholeTexts
<1>4. \A i \in Index : BlockTold(i)
  BY DEF Init, BlockTold, NoBlock, TextKind
<1> QED
  BY <1>2, <1>3, <1>4 DEF TextInv

\* What a step says of one item, and what it makes of the block of that item.
LEMMA Speaks ==
  ASSUME TextInv, TextTypes', NEW item \in TextItem,
         \A other \in TextItem : other # item => spoken'[other] = spoken[other],
         WholeTexts(spoken'[item]),
         \A i \in Index : \/ StreamItem(i) # item /\ blocks'[i] = blocks[i]
                          \/ StreamItem(i) = item /\ BlockTold(i)'
  PROVE  TextInv'
<1>1. \A other \in TextItem : WholeTexts(spoken'[other])
  BY DEF TextInv
<1>2. \A i \in Index : BlockTold(i)'
  BY ItemsApart DEF TextInv, BlockTold
<1> QED
  BY <1>1, <1>2 DEF TextInv

LEMMA SaidIs ==
  ASSUME TextTypes, NEW item \in TextItem, NEW notes, Say(item, notes)
  PROVE  /\ spoken'[item] = spoken[item] \o notes
         /\ \A other \in TextItem : other # item => spoken'[other] = spoken[other]
BY DEF Say, TextTypes

\* One note after another.
LEMMA SpeechJoined ==
  ASSUME NEW notes \in Seq(Speech)
  PROVE  /\ notes \o << >> = notes
         /\ \A note \in Speech : notes \o <<note>> = Append(notes, note)
<1>1. notes \o << >> = notes
  OBVIOUS
<1>2. ASSUME NEW note \in Speech PROVE notes \o <<note>> = Append(notes, note)
  OBVIOUS
<1> QED
  BY <1>1, <1>2

LEMMA SaysDeltas ==
  ASSUME NEW notes, NEW text, NEW ends, NEW delta \in Seq(Chunks), Has(notes, text, ends)
  PROVE  Has(notes \o Deltas(delta), text \o delta, ends)
<1>1. notes \in Seq(Speech)
  BY DEF Has
<1>2. CASE delta = << >>
  <2>1. Accumulated(Now(notes)) \in Seq(Chunks)
    <3>1. Delta(delta) \in Speech /\ Delta(delta).what # "started"
      BY DEF Delta, Speech
    <3>2. Now(notes) \in Seq(Speech)
      BY <1>1, <3>1, NowContinued DEF Has
    <3> QED
      BY <3>1, <3>2, AccumulatedGrows
  <2>2. text \o delta = text
    BY <1>2, <2>1, ConcatEmptySeq DEF Has
  <2>3. notes \o Deltas(delta) = notes
    BY <1>1, <1>2, SpeechJoined DEF Deltas
  <2> QED
    BY <2>2, <2>3
<1>3. CASE delta # << >>
  <2>1. Delta(delta) \in Speech
    BY DEF Delta, Speech
  <2>2. notes \o Deltas(delta) = Append(notes, Delta(delta))
    BY <1>1, <1>3, <2>1, SpeechJoined DEF Deltas
  <2> QED
    BY <2>2, SaysDelta
<1> QED
  BY <1>2, <1>3

\* A text that starts anew, and one that is told as a whole.
LEMMA Opening ==
  ASSUME NEW notes \in Seq(Speech), WholeTexts(notes), NEW text \in Seq(Chunks)
  PROVE  /\ Has(notes \o (<<Started>> \o Deltas(text)), text, 0)
         /\ Has(notes \o (<<Started>> \o Deltas(text) \o <<Completed(text)>>), text, 1)
<1>1. /\ Started \in Speech /\ Delta(text) \in Speech /\ Completed(text) \in Speech
  <2>1. << >> \in Seq(Chunks)
    OBVIOUS
  <2> QED
    BY <2>1 DEF Started, Delta, Completed, Speech
<1>2. PICK begin, deltas, end :
        begin = <<Started>> /\ deltas = Deltas(text) /\ end = <<Completed(text)>>
  OBVIOUS
<1>3. begin \in Seq(Speech) /\ deltas \in Seq(Speech) /\ end \in Seq(Speech)
  <2>1. << >> \in Seq(Speech) /\ \A note \in Speech : <<note>> \in Seq(Speech)
    OBVIOUS
  <2> QED
    BY <1>1, <1>2, <2>1 DEF Deltas
<1>4. Has(notes \o begin, << >>, 0)
  BY <1>1, <1>2, SpeechJoined, SaysStarted
<1>5. Has((notes \o begin) \o deltas, text, 0)
  <2>1. << >> \o text = text
    OBVIOUS
  <2> QED
    BY <1>2, <1>4, <2>1, SaysDeltas
<1>6. Has(((notes \o begin) \o deltas) \o end, text, 1)
  <2>1. ((notes \o begin) \o deltas) \o end
          = Append((notes \o begin) \o deltas, Completed(text))
    BY <1>1, <1>2, <1>5, SpeechJoined DEF Has
  <2> QED
    BY <1>5, <2>1, SaysCompleted
<1>7. /\ notes \o (begin \o deltas) = (notes \o begin) \o deltas
      /\ notes \o ((begin \o deltas) \o end) = (notes \o (begin \o deltas)) \o end
  <2>1. PICK both : both = begin \o deltas
    OBVIOUS
  <2>2. both \in Seq(Speech)
    BY <1>3, <2>1, ConcatProperties
  <2>3. notes \o both = (notes \o begin) \o deltas
    BY <1>3, <2>1, ConcatAssociative, SMTT(30)
  <2>4. \A a, b, c \in Seq(Speech) : (a \o b) \o c = a \o (b \o c)
    BY ConcatAssociative
  <2>5. notes \o (both \o end) = (notes \o both) \o end
    BY <1>3, <2>2, <2>4
  <2> QED
    BY <2>1, <2>3, <2>5
<1> QED
  BY <1>2, <1>5, <1>6, <1>7

-----------------------------------------------------------------------------
(* The steps that tell texts.                                              *)

LEMMA StepStartBlock ==
  ASSUME TextInv, NEW i \in Index, NEW kind \in TextKind, NEW text \in Text,
         StartBlock(i, kind, text)
  PROVE  TextInv'
<1>1. text \in Seq(Chunks)
  BY TextAssumption
<1>2. PICK item : item = StreamItem(i)
  OBVIOUS
<1>3. /\ item \in TextItem /\ TextTypes /\ WholeTexts(spoken[item])
      /\ spoken[item] \in Seq(Speech)
  BY <1>2, ItemsApart DEF TextInv, TextTypes
<1>4. PICK block : block = [kind |-> kind, text |-> text, completed |-> FALSE]
  OBVIOUS
<1>5. block \in Block /\ blocks' = [blocks EXCEPT ![i] = block] /\ streamed' = TRUE
  BY <1>1, <1>4 DEF StartBlock, Block, SawStream
<1>6. /\ blocks' \in [Index -> Block] /\ blocks'[i] = block
      /\ \A j \in Index : j # i => blocks'[j] = blocks[j]
  BY <1>3, <1>5 DEF TextTypes
<1>7. /\ spoken'[item] = spoken[item] \o (<<Started>> \o Deltas(text))
      /\ \A other \in TextItem : other # item => spoken'[other] = spoken[other]
  BY <1>2, <1>3, SaidIs DEF StartBlock
<1>8. Has(spoken'[item], text, 0)
  BY <1>1, <1>3, <1>7, Opening
<1>9. TextTypes'
  <2>1. spoken' = [spoken EXCEPT ![item] = spoken'[item]]
    BY <1>2, <1>3, <1>7 DEF StartBlock, Say, TextTypes
  <2>2. spoken'[item] \in Seq(Speech)
    BY <1>8 DEF Has
  <2>3. spoken' \in [TextItem -> Seq(Speech)]
    BY <1>3, <2>1, <2>2 DEF TextTypes
  <2> QED
    BY <1>5, <1>6, <2>3 DEF TextTypes
<1>10. BlockTold(i)'
  BY <1>2, <1>4, <1>6, <1>8 DEF BlockTold
<1>11. WholeTexts(spoken'[item])
  BY <1>8 DEF Has
<1>12. \A j \in Index : \/ StreamItem(j) # item /\ blocks'[j] = blocks[j]
                        \/ StreamItem(j) = item /\ BlockTold(j)'
  BY <1>2, <1>6, <1>10, ItemsApart
<1> QED
  BY <1>3, <1>7, <1>9, <1>11, <1>12, Speaks

LEMMA StepApplyDelta ==
  ASSUME TextInv, NEW i \in Index, NEW kind \in TextKind, NEW text \in Text,
         ApplyDelta(i, kind, text)
  PROVE  TextInv'
<1>1. CASE blocks[i].kind # kind
  <2>1. UNCHANGED <<blocks, streamed, spoken>>
    BY <1>1 DEF ApplyDelta
  <2> QED
    BY <2>1 DEF TextInv, TextTypes, BlockTold
<1>2. CASE blocks[i].kind = kind
  <2>1. text \in Seq(Chunks)
    BY TextAssumption
  <2>2. PICK item : item = StreamItem(i)
    OBVIOUS
  <2>3. PICK ends : ends = IF blocks[i].completed THEN 1 ELSE 0
    OBVIOUS
  <2>4. /\ item \in TextItem /\ TextTypes /\ blocks[i] \in Block
        /\ Has(spoken[item], blocks[i].text, ends)
    BY <1>2, <2>2, <2>3, ItemsApart DEF TextInv, TextTypes, BlockTold
  <2>5. PICK grown : grown = blocks[i].text \o text
    OBVIOUS
  <2>6. grown \in Seq(Chunks)
    <3>1. blocks[i].text \in Seq(Chunks)
      BY <2>4 DEF Block
    <3> QED
      BY <2>1, <2>5, <3>1, ConcatProperties
  <2>7. PICK block : block = [blocks[i] EXCEPT !.text = grown]
    OBVIOUS
  <2>8. /\ block \in Block /\ block.text = grown /\ block.completed = blocks[i].completed
        /\ block.kind = kind /\ block.kind # "none"
    BY <1>2, <2>4, <2>6, <2>7 DEF Block, TextKind
  <2>9. blocks' = [blocks EXCEPT ![i] = block] /\ streamed' = streamed
    BY <1>2, <2>4, <2>5, <2>7 DEF ApplyDelta, Grown, TextTypes
  <2>10. /\ blocks' \in [Index -> Block] /\ blocks'[i] = block
         /\ \A j \in Index : j # i => blocks'[j] = blocks[j]
    BY <2>4, <2>8, <2>9 DEF TextTypes
  <2>11. /\ spoken'[item] = spoken[item] \o <<Delta(text)>>
         /\ \A other \in TextItem : other # item => spoken'[other] = spoken[other]
    BY <1>2, <2>2, <2>4, SaidIs DEF ApplyDelta
  <2>12. Has(spoken'[item], grown, ends)
    <3>1. Delta(text) \in Speech
      BY <2>1 DEF Delta, Speech
    <3>2. spoken'[item] = Append(spoken[item], Delta(text))
      BY <2>4, <2>11, <3>1, SpeechJoined DEF Has
    <3> QED
      BY <2>1, <2>4, <2>5, <3>2, SaysDelta
  <2>13. TextTypes'
    <3>1. spoken' = [spoken EXCEPT ![item] = spoken'[item]]
      BY <1>2, <2>2, <2>4 DEF ApplyDelta, Say, TextTypes
    <3>2. spoken'[item] \in Seq(Speech)
      BY <2>12 DEF Has
    <3>3. spoken' \in [TextItem -> Seq(Speech)]
      BY <2>4, <3>1, <3>2 DEF TextTypes
    <3>4. streamed
      BY <1>2, <2>4, <2>8 DEF TextTypes, NoBlock
    <3> QED
      BY <2>4, <2>9, <2>10, <3>3, <3>4 DEF TextTypes
  <2>14. BlockTold(i)'
    BY <2>2, <2>3, <2>8, <2>10, <2>12 DEF BlockTold
  <2>15. WholeTexts(spoken'[item])
    BY <2>12 DEF Has
  <2>16. \A j \in Index : \/ StreamItem(j) # item /\ blocks'[j] = blocks[j]
                          \/ StreamItem(j) = item /\ BlockTold(j)'
    BY <2>2, <2>10, <2>14, ItemsApart
  <2> QED
    BY <2>4, <2>11, <2>13, <2>15, <2>16, Speaks
<1> QED
  BY <1>1, <1>2

LEMMA StepCompleteBlock ==
  ASSUME TextInv, NEW i \in Index, CompleteBlock(i)
  PROVE  TextInv'
<1>1. CASE ~OpenBlock(i)
  <2>1. UNCHANGED <<blocks, streamed, spoken>>
    BY <1>1 DEF CompleteBlock
  <2> QED
    BY <2>1 DEF TextInv, TextTypes, BlockTold
<1>2. CASE OpenBlock(i)
  <2>1. PICK item, text : item = StreamItem(i) /\ text = blocks[i].text
    OBVIOUS
  <2>2. /\ item \in TextItem /\ TextTypes /\ blocks[i] \in Block
        /\ text \in Seq(Chunks) /\ Has(spoken[item], text, 0)
    BY <1>2, <2>1, ItemsApart DEF TextInv, TextTypes, BlockTold, OpenBlock, Block
  <2>3. PICK block : block = [blocks[i] EXCEPT !.completed = TRUE]
    OBVIOUS
  <2>4. /\ block \in Block /\ block.text = text /\ block.completed = TRUE
        /\ blocks[i].kind # "none"
    BY <1>2, <2>1, <2>2, <2>3 DEF Block, OpenBlock, TextKind
  <2>5. blocks' = [blocks EXCEPT ![i] = block] /\ streamed' = streamed
    BY <1>2, <2>2, <2>3 DEF CompleteBlock, TextTypes
  <2>6. /\ blocks' \in [Index -> Block] /\ blocks'[i] = block
        /\ \A j \in Index : j # i => blocks'[j] = blocks[j]
    BY <2>2, <2>4, <2>5 DEF TextTypes
  <2>7. /\ spoken'[item] = spoken[item] \o <<Completed(text)>>
        /\ \A other \in TextItem : other # item => spoken'[other] = spoken[other]
    BY <1>2, <2>1, <2>2, SaidIs DEF CompleteBlock
  <2>8. Has(spoken'[item], text, 1)
    <3>1. Completed(text) \in Speech
      BY <2>2 DEF Completed, Speech
    <3>2. spoken'[item] = Append(spoken[item], Completed(text))
      BY <2>2, <2>7, <3>1, SpeechJoined DEF Has
    <3> QED
      BY <2>2, <3>2, SaysCompleted
  <2>9. TextTypes'
    <3>1. spoken' = [spoken EXCEPT ![item] = spoken'[item]]
      BY <1>2, <2>1, <2>2 DEF CompleteBlock, Say, TextTypes
    <3>2. spoken'[item] \in Seq(Speech)
      BY <2>8 DEF Has
    <3>3. spoken' \in [TextItem -> Seq(Speech)]
      BY <2>2, <3>1, <3>2 DEF TextTypes
    <3>4. streamed
      BY <2>2, <2>4 DEF TextTypes, NoBlock
    <3> QED
      BY <2>2, <2>5, <2>6, <3>3, <3>4 DEF TextTypes
  <2>10. BlockTold(i)'
    BY <2>1, <2>4, <2>6, <2>8 DEF BlockTold
  <2>11. WholeTexts(spoken'[item])
    BY <2>8 DEF Has
  <2>12. \A j \in Index : \/ StreamItem(j) # item /\ blocks'[j] = blocks[j]
                          \/ StreamItem(j) = item /\ BlockTold(j)'
    BY <2>1, <2>6, <2>10, ItemsApart
  <2> QED
    BY <2>2, <2>7, <2>9, <2>11, <2>12, Speaks
<1> QED
  BY <1>1, <1>2

\* A text that comes whole, told already, completing a block or told at once.
LEMMA StepFinalText ==
  ASSUME TextInv, NEW m \in Msg, NEW i \in Index, NEW kind \in TextKind,
         NEW text \in Text, FinalText(m, i, kind, text)
  PROVE  TextInv'
<1> DEFINE found == {j \in Index : blocks[j].kind = kind}
<1>1. CASE streamed
  <2>1. UNCHANGED <<blocks, streamed, spoken>>
    BY <1>1 DEF FinalText
  <2> QED
    BY <2>1 DEF TextInv, TextTypes, BlockTold
<1>2. CASE ~streamed
  <2>1. TextTypes /\ found = {} /\ streamed' = streamed
    BY <1>2 DEF TextInv, TextTypes, NoBlock, TextKind, FinalText
  <2>2. /\ Say(FinalItem(m, i), <<Started>> \o Deltas(text) \o <<Completed(text)>>)
        /\ blocks' = blocks
    BY <1>2, <2>1 DEF FinalText
  <2>3. text \in Seq(Chunks)
    BY TextAssumption
  <2>4. PICK item : item = FinalItem(m, i)
    OBVIOUS
  <2>5. item \in TextItem /\ WholeTexts(spoken[item]) /\ spoken[item] \in Seq(Speech)
    BY <2>1, <2>4, ItemsApart DEF TextInv, TextTypes
  <2>6. /\ spoken'[item]
             = spoken[item] \o (<<Started>> \o Deltas(text) \o <<Completed(text)>>)
        /\ \A other \in TextItem : other # item => spoken'[other] = spoken[other]
    BY <2>1, <2>2, <2>4, <2>5, SaidIs
  <2>7. Has(spoken'[item], text, 1)
    BY <2>3, <2>5, <2>6, Opening
  <2>8. TextTypes'
    <3>1. spoken' = [spoken EXCEPT ![item] = spoken'[item]]
      BY <2>1, <2>2, <2>4, <2>5 DEF Say, TextTypes
    <3>2. spoken'[item] \in Seq(Speech)
      BY <2>7 DEF Has
    <3>3. spoken' \in [TextItem -> Seq(Speech)]
      BY <2>1, <3>1, <3>2 DEF TextTypes
    <3> QED
      BY <2>1, <2>2, <3>3 DEF TextTypes
  <2>9. WholeTexts(spoken'[item])
    BY <2>7 DEF Has
  <2>10. \A j \in Index : StreamItem(j) # item /\ blocks'[j] = blocks[j]
    BY <2>2, <2>4, ItemsApart
  <2> QED
    BY <2>5, <2>6, <2>8, <2>9, <2>10, Speaks
<1> QED
  BY <1>1, <1>2

\* The block of a tool takes the place of one of text.
LEMMA StepToolBlock ==
  ASSUME TextInv, NEW i \in Index, NEW t \in Tool, NEW input, StartToolBlock(i, t, input)
  PROVE  TextInv'
<1>1. PICK block : block = [NoBlock EXCEPT !.kind = "tool"]
  OBVIOUS
<1>2. block \in Block /\ block.kind = "tool"
  <2>1. << >> \in Seq(Chunks)
    OBVIOUS
  <2> QED
    BY <1>1, <2>1 DEF NoBlock, Block
<1>3. TextTypes /\ blocks' = [blocks EXCEPT ![i] = block] /\ streamed' = TRUE
      /\ spoken' = spoken
  BY <1>1 DEF TextInv, StartToolBlock, SawStream
<1>4. /\ blocks' \in [Index -> Block] /\ blocks'[i] = block
      /\ \A j \in Index : j # i => blocks'[j] = blocks[j]
  BY <1>2, <1>3 DEF TextTypes
<1>5. TextTypes'
  BY <1>3, <1>4 DEF TextTypes
<1>6. ASSUME NEW j \in Index PROVE BlockTold(j)'
  <2>1. CASE j = i
    BY <1>2, <1>4, <2>1 DEF BlockTold, TextKind
  <2>2. CASE j # i
    BY <1>3, <1>4, <2>2 DEF BlockTold, TextInv
  <2> QED
    BY <2>1, <2>2
<1> QED
  BY <1>3, <1>5, <1>6 DEF TextInv

LEMMA StepTexts ==
  ASSUME TextInv, [Next]_vars
  PROVE  TextInv'
<1>1. CASE UNCHANGED textVars
  BY <1>1 DEF TextInv, TextTypes, BlockTold, textVars
<1>2. CASE StartResultBlock
  <2>1. streamed' = TRUE /\ UNCHANGED <<blocks, spoken>>
    BY <1>2 DEF StartResultBlock, SawStream
  <2> QED
    BY <2>1 DEF TextInv, TextTypes, BlockTold
<1>3. CASE StreamLine
  BY <1>2, <1>3, StepStartBlock, StepApplyDelta, StepCompleteBlock, StepToolBlock
     DEF StreamLine
<1>4. CASE AssistantBlock
  BY <1>1, <1>4, StepFinalText DEF AssistantBlock, PartialText, FinalTool
<1>5. CASE UserBlock \/ EndOfTurn \/ UNCHANGED vars
  BY <1>1, <1>5 DEF UserBlock, ToolResult, EndOfTurn, vars, textVars
<1> QED
  BY <1>3, <1>4, <1>5 DEF Next

\* The text of every content block is what its client has: TextInv is inductive.
THEOREM TextInvariant == Spec => []TextInv
<1>1. Init => TextInv
  BY InitTexts
<1>2. TextInv /\ [Next]_vars => TextInv'
  BY StepTexts
<1> QED
  BY <1>1, <1>2, PTL DEF Spec

\* item/completed carries the whole text: what its item/.../delta notifications
\* add up to since item/started, for streamed and for final texts.
THEOREM TextsAreWhole == Spec => []CompletedTextIsWhole
<1>1. TextInv => CompletedTextIsWhole
  BY DEF TextInv, CompletedTextIsWhole, WholeTexts, WholeAt
<1> QED
  BY <1>1, TextInvariant, PTL

\* A client that appends deltas has, at every moment, the text of the server's
\* content block, and knows whether it is complete.
THEOREM ClientsAgree == Spec => []ClientAgreesWithServer
<1>1. TextInv => ClientAgreesWithServer
  BY DEF TextInv, ClientAgreesWithServer, BlockTold, Has, Now
<1> QED
  BY <1>1, TextInvariant, PTL

-----------------------------------------------------------------------------
(* item/progress: what a client has of an assistant message.               *)

LEMMA PrefixSplits ==
  ASSUME NEW s \in Seq(Chunks), NEW t \in Seq(Chunks), IsPrefix(s, t)
  PROVE  t = s \o SubSeq(t, Len(s) + 1, Len(t))
<1>1. PICK k, n : k = Len(s) /\ n = Len(t)
  OBVIOUS
<1>2. k \in Nat /\ n \in Nat /\ k <= n /\ SubSeq(s, 1, k) = SubSeq(t, 1, k)
  BY <1>1 DEF IsPrefix
<1>3. SubSeq(s, 1, k) = s /\ SubSeq(t, 1, n) = t
  BY <1>1, SubSeqFull
<1>4. SubSeq(t, 1, k) \o SubSeq(t, k + 1, n) = SubSeq(t, 1, n)
  <2>1. 1 \in 1..(n + 1) /\ k \in (1 - 1)..n /\ n \in k..n
    BY <1>2
  <2> QED
    BY <1>1, <2>1, ConcatAdjacentSubSeq
<1> QED
  BY <1>1, <1>2, <1>3, <1>4

LEMMA RestIsText ==
  ASSUME NEW s \in Seq(Chunks), NEW t \in Seq(Chunks), IsPrefix(s, t)
  PROVE  SubSeq(t, Len(s) + 1, Len(t)) \in Seq(Chunks)
<1>1. Len(s) \in Nat /\ Len(t) \in Nat /\ Len(s) + 1 \in Int /\ Len(t) \in Int
  OBVIOUS
<1>2. \A i \in (Len(s) + 1)..Len(t) : i \in 1..Len(t) /\ t[i] \in Chunks
  BY <1>1
<1> QED
  BY <1>1, <1>2, SubSeqProperties

LEMMA EndIsSuffix ==
  ASSUME NEW x \in Seq(Chunks), NEW s \in Seq(Chunks), NEW t, t = x \o s
  PROVE  IsSuffix(s, t)
<1>1. PICK k, n : k = Len(s) /\ n = Len(t)
  OBVIOUS
<1>2. /\ k \in Nat /\ n \in Nat /\ k <= n /\ t \in Seq(Chunks)
      /\ \A i \in 1..k : t[n - i + 1] = s[k - i + 1]
  <2>1. /\ Len(x) \in Nat /\ t \in Seq(Chunks) /\ k \in Nat /\ n = Len(x) + k
        /\ \A i \in 1..(Len(x) + k) : t[i] = IF i <= Len(x) THEN x[i] ELSE s[i - Len(x)]
    BY <1>1, ConcatProperties
  <2>2. ASSUME NEW i \in 1..k PROVE t[n - i + 1] = s[k - i + 1]
    <3>1. /\ n - i + 1 \in 1..(Len(x) + k) /\ ~(n - i + 1 <= Len(x))
          /\ (n - i + 1) - Len(x) = k - i + 1
      BY <2>1
    <3> QED
      BY <2>1, <3>1
  <2>3. n \in Nat /\ k <= n
    BY <2>1
  <2> QED
    BY <2>1, <2>2, <2>3
<1>3. PICK back, all : back = Reverse(s) /\ all = Reverse(t)
  OBVIOUS
<1>4. /\ back = [i \in 1..k |-> s[k - i + 1]]
      /\ all = [i \in 1..n |-> t[n - i + 1]]
  BY <1>1, <1>3 DEF Reverse
<1>5. /\ \A i \in 1..k : k - i + 1 \in 1..k /\ s[k - i + 1] \in Chunks
      /\ \A i \in 1..n : n - i + 1 \in 1..n /\ t[n - i + 1] \in Chunks
  BY <1>1, <1>2
<1>6. /\ back \in Seq(Chunks) /\ Len(back) = k /\ all \in Seq(Chunks) /\ Len(all) = n
  <2>1. back \in [1..k -> Chunks] /\ all \in [1..n -> Chunks]
    BY <1>4, <1>5
  <2>2. \A j \in Nat : \A f \in [1..j -> Chunks] : f \in Seq(Chunks) /\ Len(f) = j
    OBVIOUS
  <2> QED
    BY <1>2, <2>1, <2>2
<1>7. \A i \in 1..k : i \in 1..n /\ all[i] = back[i] /\ back[i] \in Chunks
  <2>1. \A i \in 1..k : i \in 1..n
    BY <1>2
  <2>2. \A i \in 1..k : back[i] = s[k - i + 1]
    BY <1>4
  <2>3. \A i \in 1..n : all[i] = t[n - i + 1]
    BY <1>4
  <2> QED
    BY <1>2, <1>5, <2>1, <2>2, <2>3
<1>8. SubSeq(back, 1, k) = SubSeq(all, 1, k)
  <2>1. PICK a, b : a = SubSeq(back, 1, k) /\ b = SubSeq(all, 1, k)
    OBVIOUS
  <2>2. 1 \in Int /\ k \in Int /\ \A i \in 1..k : back[i] \in Chunks /\ all[i] \in Chunks
    BY <1>2, <1>7
  <2>3. /\ a \in Seq(Chunks) /\ b \in Seq(Chunks) /\ Len(a) = k /\ Len(b) = k
        /\ \A i \in 1..k : a[i] = back[i] /\ b[i] = all[i]
    <3>1. k - 1 + 1 = k /\ (IF 1 <= k THEN k ELSE 0) = k /\ \A i \in 1..k : 1 + i - 1 = i
      BY <1>2
    <3> QED
      BY <2>1, <2>2, <3>1, SubSeqProperties
  <2>4. a = b
    BY <1>7, <2>3, SeqEqual
  <2> QED
    BY <2>1, <2>4
<1> QED
  BY <1>2, <1>3, <1>6, <1>8 DEF IsSuffix, IsPrefix

EndsWith(told, text) == \E x \in Seq(Chunks) : told = x \o text

\* Every text extends the one before.
Chain(texts) == \A n \in 1..(Len(texts) - 1) : IsPrefix(texts[n], texts[n + 1])

\* What a client was told of a message, what partial_text has of it and the
\* texts read since the last final one.
Talk(told, tell, texts) ==
  /\ told \in Seq(Chunks) /\ tell \in Seq(Chunks) /\ texts \in Seq(Text)
  /\ EndsWith(told, tell)
  /\ texts = << >> => told = << >> /\ tell = << >>
  /\ texts # << >> /\ Chain(texts) => told = Last(texts) /\ tell = Last(texts)

\* The text told last is a final one: partial_text has no entry any more.
Over(m) ==
  /\ partial[m] = << >> /\ read[m] # << >> /\ read[m] \in Seq(Text)
  /\ EndsWith(Accumulated(progress[m]), Last(read[m]))
  /\ Chain(read[m]) => Accumulated(progress[m]) = Last(read[m])
  /\ Last(progress[m]).text = Last(read[m])

\* A client always has the text read last, whatever came before it.
Running(m) ==
  /\ Talk(Accumulated(progress[m]), partial[m], read[m])
  /\ read[m] # << >> => EndsWith(Accumulated(progress[m]), Last(read[m]))

ProgressInv ==
  /\ partial \in [Msg -> Text \cup {<< >>}]
  /\ DOMAIN progress = Msg /\ DOMAIN read = Msg
  /\ \A m \in Msg :
       /\ progress[m] \in Seq(Speech)
       /\ IF Ended(m) THEN Over(m) ELSE Running(m)

\* strip_prefix, and what partial_text keeps when something new was told.
Stripped(tell, text) ==
  IF IsPrefix(tell, text) THEN SubSeq(text, Len(tell) + 1, Len(text)) ELSE text
Kept(tell, new, text) == IF new = << >> THEN tell ELSE text

\* What is told next makes the client's text end with this one.
TellsNext(told, text, new, after, next) ==
  /\ new \in Seq(Chunks) /\ told \o new \in Seq(Chunks)
  /\ after \in Seq(Text) /\ after # << >> /\ Last(after) = text
  /\ EndsWith(told \o new, text)
  /\ Chain(after) => told \o new = text
  /\ Talk(told \o new, next, after)

LEMMA TellNext ==
  ASSUME NEW told, NEW tell, NEW texts, Talk(told, tell, texts), NEW text \in Text
  PROVE  TellsNext(told, text, Stripped(tell, text), Append(texts, text),
                   Kept(tell, Stripped(tell, text), text))
<1> SUFFICES ASSUME NEW new, new = Stripped(tell, text),
                    NEW after, after = Append(texts, text),
                    NEW next, next = Kept(tell, new, text)
             PROVE  TellsNext(told, text, new, after, next)
  OBVIOUS
<1>1. /\ told \in Seq(Chunks) /\ tell \in Seq(Chunks) /\ texts \in Seq(Text)
      /\ text \in Seq(Chunks) /\ << >> \in Seq(Chunks)
  BY TextAssumption DEF Talk
<1>2. new \in Seq(Chunks)
  BY <1>1, RestIsText DEF Stripped
<1>3. IsPrefix(tell, text) => text = tell \o new
  BY <1>1, PrefixSplits DEF Stripped
<1>4. /\ after \in Seq(Text) /\ after # << >> /\ Len(after) = Len(texts) + 1
      /\ Len(texts) \in Nat /\ after[Len(texts) + 1] = text
      /\ \A i \in 1..Len(texts) : after[i] = texts[i]
  BY <1>1
<1>5. Last(after) = text
  BY <1>4 DEF Last
<1>6. PICK now : now = told \o new
  OBVIOUS
<1>7. now \in Seq(Chunks)
  BY <1>1, <1>2, <1>6, ConcatProperties
<1>8. EndsWith(now, text)
  <2>1. CASE IsPrefix(tell, text)
    <3>1. PICK x \in Seq(Chunks) : told = x \o tell
      BY DEF Talk, EndsWith
    <3>2. (x \o tell) \o new = x \o (tell \o new)
      <4>1. \A a, b, c \in Seq(Chunks) : (a \o b) \o c = a \o (b \o c)
        BY ConcatAssociative, SMTT(30)
      <4> QED
        BY <1>1, <1>2, <4>1, Zenon
    <3> QED
      BY <1>3, <1>6, <2>1, <3>1, <3>2 DEF EndsWith
  <2>2. CASE ~IsPrefix(tell, text)
    BY <1>1, <1>6, <2>2 DEF EndsWith, Stripped
  <2> QED
    BY <2>1, <2>2
<1>9. ASSUME Chain(after)
       PROVE  now = text /\ text = tell \o new
  <2>1. CASE texts = << >>
    <3>1. told = << >> /\ tell = << >>
      BY <2>1 DEF Talk
    <3>2. IsPrefix(tell, text)
      <4>1. PICK none : none = Len(tell)
        OBVIOUS
      <4>2. none = 0 /\ Len(text) \in Nat
        BY <1>1, <3>1, <4>1
      <4>3. SubSeq(tell, 1, 0) = << >> /\ SubSeq(text, 1, 0) = << >>
        BY SubSeqEmpty
      <4>4. none <= Len(text) /\ SubSeq(tell, 1, none) = SubSeq(text, 1, none)
        BY <4>2, <4>3
      <4> QED
        BY <4>1, <4>4 DEF IsPrefix
    <3> QED
      BY <1>3, <1>6, <3>1, <3>2
  <2>2. CASE texts # << >>
    <3>1. Len(texts) \in 1..(Len(after) - 1)
      BY <1>1, <1>4, <2>2
    <3>2. IsPrefix(texts[Len(texts)], text)
      <4>1. IsPrefix(after[Len(texts)], after[Len(texts) + 1])
        BY <1>9, <3>1 DEF Chain
      <4>2. after[Len(texts)] = texts[Len(texts)]
        BY <1>4, <3>1
      <4> QED
        BY <1>4, <4>1, <4>2
    <3>3. Chain(texts)
      <4> SUFFICES ASSUME NEW n \in 1..(Len(texts) - 1)
                   PROVE  IsPrefix(texts[n], texts[n + 1])
        BY DEF Chain
      <4>1. n \in 1..(Len(after) - 1) /\ n \in 1..Len(texts) /\ n + 1 \in 1..Len(texts)
        BY <1>4
      <4>2. IsPrefix(after[n], after[n + 1])
        BY <1>9, <4>1 DEF Chain
      <4>3. after[n] = texts[n] /\ after[n + 1] = texts[n + 1]
        BY <1>4, <4>1
      <4> QED
        BY <4>2, <4>3
    <3>4. told = Last(texts) /\ tell = Last(texts)
      BY <2>2, <3>3 DEF Talk
    <3> QED
      BY <1>3, <1>6, <3>2, <3>4 DEF Last
  <2> QED
    BY <2>1, <2>2
<1>10. next \in Seq(Chunks) /\ EndsWith(now, next)
  <2>1. CASE new = << >>
    <3>1. now = told
      BY <1>1, <1>6, <2>1, ConcatEmptySeq
    <3> QED
      BY <1>1, <2>1, <3>1 DEF Talk, Kept
  <2>2. CASE new # << >>
    BY <1>1, <1>8, <2>2 DEF Kept
  <2> QED
    BY <2>1, <2>2
<1>11. Chain(after) => next = text
  <2> SUFFICES ASSUME Chain(after), new = << >> PROVE tell = text
    BY DEF Kept
  <2>1. text = tell \o << >>
    BY <1>9
  <2> QED
    BY <1>1, <2>1, ConcatEmptySeq
<1>12. Talk(now, next, after)
  BY <1>4, <1>5, <1>7, <1>9, <1>10, <1>11 DEF Talk
<1> QED
  BY <1>2, <1>4, <1>5, <1>6, <1>7, <1>8, <1>9, <1>12 DEF TellsNext

LEMMA InitProgress == Init => ProgressInv
<1> SUFFICES ASSUME Init PROVE ProgressInv
  OBVIOUS
<1>1. << >> \in Seq(Chunks) /\ << >> \in Seq(Text) /\ << >> \in Seq(Speech)
  OBVIOUS
<1>2. partial \in [Msg -> Text \cup {<< >>}] /\ DOMAIN progress = Msg /\ DOMAIN read = Msg
  BY DEF Init
<1>3. ASSUME NEW m \in Msg
      PROVE  progress[m] \in Seq(Speech) /\ ~Ended(m) /\ Running(m)
  <2>1. progress[m] = << >> /\ partial[m] = << >> /\ read[m] = << >>
    BY DEF Init
  <2>2. EndsWith(<< >>, << >>)
    <3>1. << >> \o << >> = << >>
      OBVIOUS
    <3> QED
      BY <1>1, <3>1 DEF EndsWith
  <2> QED
    BY <1>1, <2>1, <2>2, AccumulatedGrows DEF Running, Talk, Ended
<1> QED
  BY <1>2, <1>3 DEF ProgressInv

\* A message keeps what was told of it while another one is told.
LEMMA OtherMessages ==
  ASSUME ProgressInv, NEW m \in Msg, NEW n \in Msg, n # m,
         partial'[n] = partial[n], read'[n] = read[n], progress'[n] = progress[n]
  PROVE  /\ progress'[n] \in Seq(Speech)
         /\ IF Ended(n)' THEN Over(n)' ELSE Running(n)'
<1>1. progress[n] \in Seq(Speech) /\ IF Ended(n) THEN Over(n) ELSE Running(n)
  BY DEF ProgressInv
<1>2. /\ Ended(n)' <=> Ended(n)
      /\ Over(n)' <=> Over(n)
      /\ Running(n)' <=> Running(n)
  BY DEF Ended, Over, Running
<1> QED
  BY <1>1, <1>2

LEMMA StepProgress ==
  ASSUME ProgressInv, NEW m \in Msg, NEW text \in Text, NEW final \in BOOLEAN,
         Progress(m, text, final)
  PROVE  ProgressInv'
<1>1. PICK new, before, texts :
        /\ new = Untold(m, text)
        /\ before = IF Ended(m) THEN << >> ELSE progress[m]
        /\ texts = IF Ended(m) THEN << >> ELSE read[m]
  OBVIOUS
<1>2. PICK told : told = Accumulated(before)
  OBVIOUS
<1>3. /\ before \in Seq(Speech) /\ Talk(told, partial[m], texts)
      /\ before # << >> => Last(before).what # "completed"
  <2>1. CASE Ended(m)
    <3>1. before = << >> /\ texts = << >> /\ partial[m] = << >>
      BY <1>1, <2>1 DEF ProgressInv, Over
    <3>2. << >> \in Seq(Chunks) /\ << >> \in Seq(Text) /\ << >> \in Seq(Speech)
      OBVIOUS
    <3>3. told = << >>
      BY <1>2, <3>1, AccumulatedGrows
    <3>4. EndsWith(<< >>, << >>)
      <4>1. << >> \o << >> = << >>
        OBVIOUS
      <4> QED
        BY <3>2, <4>1 DEF EndsWith
    <3> QED
      BY <3>1, <3>2, <3>3, <3>4 DEF Talk
  <2>2. CASE ~Ended(m)
    BY <1>1, <1>2, <2>2 DEF ProgressInv, Running, Ended
  <2> QED
    BY <2>1, <2>2
<1>4. PICK after, tell :
        after = Append(texts, text) /\ tell = IF new = << >> THEN partial[m] ELSE text
  OBVIOUS
<1>5. /\ new \in Seq(Chunks) /\ told \o new \in Seq(Chunks)
      /\ after \in Seq(Text) /\ after # << >> /\ Last(after) = text
      /\ EndsWith(told \o new, text)
      /\ Chain(after) => told \o new = text
      /\ Talk(told \o new, tell, after)
  <2>1. PICK old : old = partial[m]
    OBVIOUS
  <2>2. Talk(told, old, texts)
    BY <1>3, <2>1
  <2>3. new = Stripped(old, text)
    BY <1>1, <2>1 DEF Untold, Stripped
  <2>4. after = Append(texts, text) /\ tell = Kept(old, new, text)
    BY <1>4, <2>1 DEF Kept
  <2>5. TellsNext(told, text, Stripped(old, text), Append(texts, text),
                  Kept(old, Stripped(old, text), text))
    BY <2>2, TellNext
  <2> QED
    BY <2>3, <2>4, <2>5 DEF TellsNext
<1>6. PICK now, deltas : now = before \o deltas /\ deltas = Deltas(new)
  OBVIOUS
<1>7. /\ now \in Seq(Speech) /\ Accumulated(now) = told \o new
      /\ now # << >> => Last(now).what # "completed"
  <2>1. CASE new = << >>
    <3>1. now = before
      BY <1>3, <1>6, <2>1, SpeechJoined DEF Deltas
    <3>2. told \o new = told
      BY <1>3, <2>1, ConcatEmptySeq DEF Talk
    <3> QED
      BY <1>2, <1>3, <3>1, <3>2
  <2>2. CASE new # << >>
    <3>1. PICK note : note = Delta(new)
      OBVIOUS
    <3>2. note \in Speech /\ note.what = "delta" /\ Heard(note) = new
      BY <1>5, <3>1 DEF Delta, Speech, Heard
    <3>3. now = Append(before, note)
      BY <1>3, <1>6, <2>2, <3>1, <3>2, SpeechJoined DEF Deltas
    <3>4. now \in Seq(Speech) /\ Last(now) = note
      BY <1>3, <3>2, <3>3, SpeechAdded DEF Last
    <3> QED
      BY <1>2, <1>3, <3>2, <3>3, <3>4, AccumulatedGrows
  <2> QED
    BY <2>1, <2>2
<1>8. /\ partial' = [partial EXCEPT ![m] = IF final THEN << >> ELSE tell]
      /\ read' = [read EXCEPT ![m] = after]
      /\ progress' = [progress EXCEPT ![m] =
           now \o (IF final THEN <<Completed(text)>> ELSE << >>)]
  <2>1. partial' = [partial EXCEPT ![m] = IF final THEN << >> ELSE tell]
    BY <1>1, <1>4 DEF Progress, ProgressInv
  <2>2. read' = [read EXCEPT ![m] = after]
    <3>1. << >> \o <<text>> = <<text>> /\ Append(<< >>, text) = <<text>>
      OBVIOUS
    <3> QED
      BY <1>1, <1>4, <3>1 DEF Progress, ProgressInv
  <2>3. progress' = [progress EXCEPT ![m] =
           now \o (IF final THEN <<Completed(text)>> ELSE << >>)]
    BY <1>1, <1>6 DEF Progress
  <2> QED
    BY <2>1, <2>2, <2>3
<1>9. /\ partial' \in [Msg -> Text \cup {<< >>}]
      /\ DOMAIN progress' = Msg /\ DOMAIN read' = Msg
      /\ partial'[m] = IF final THEN << >> ELSE tell
      /\ read'[m] = after
      /\ progress'[m] = now \o (IF final THEN <<Completed(text)>> ELSE << >>)
      /\ \A n \in Msg : n # m =>
           partial'[n] = partial[n] /\ read'[n] = read[n] /\ progress'[n] = progress[n]
  <2>1. tell \in Text \cup {<< >>}
    BY <1>4 DEF ProgressInv
  <2>2. partial' \in [Msg -> Text \cup {<< >>}]
    BY <1>8, <2>1 DEF ProgressInv
  <2> QED
    BY <1>8, <2>2 DEF ProgressInv
<1>10. CASE final
  <2>1. PICK note : note = Completed(text)
    OBVIOUS
  <2>2. note \in Speech /\ note.what = "completed" /\ note.text = text /\ Heard(note) = << >>
    BY <2>1, TextAssumption DEF Completed, Speech, Heard
  <2>3. progress'[m] = Append(now, note) /\ partial'[m] = << >>
    BY <1>7, <1>9, <1>10, <2>1, <2>2, SpeechJoined
  <2>4. /\ progress'[m] \in Seq(Speech) /\ Last(progress'[m]) = note
        /\ progress'[m] # << >>
    BY <1>7, <2>2, <2>3, SpeechAdded DEF Last
  <2>5. Accumulated(progress'[m]) = told \o new
    <3>1. Accumulated(progress'[m]) = (told \o new) \o << >>
      BY <1>7, <2>2, <2>3, AccumulatedGrows
    <3> QED
      BY <1>5, <3>1, ConcatEmptySeq
  <2>6. Ended(m)'
    BY <2>2, <2>4 DEF Ended
  <2>7. Over(m)'
    BY <1>5, <1>9, <2>2, <2>3, <2>4, <2>5 DEF Over
  <2>8. ASSUME NEW n \in Msg
        PROVE  /\ progress'[n] \in Seq(Speech)
               /\ IF Ended(n)' THEN Over(n)' ELSE Running(n)'
    BY <1>9, <2>4, <2>6, <2>7, OtherMessages
  <2> QED
    BY <1>9, <2>8 DEF ProgressInv
<1>11. CASE ~final
  <2>1. progress'[m] = now /\ partial'[m] = tell
    BY <1>7, <1>9, <1>11, SpeechJoined
  <2>2. ~Ended(m)'
    BY <1>7, <2>1 DEF Ended
  <2>3. Running(m)'
    BY <1>5, <1>7, <1>9, <2>1 DEF Running
  <2>4. ASSUME NEW n \in Msg
        PROVE  /\ progress'[n] \in Seq(Speech)
               /\ IF Ended(n)' THEN Over(n)' ELSE Running(n)'
    BY <1>7, <1>9, <2>1, <2>2, <2>3, OtherMessages
  <2> QED
    BY <1>9, <2>4 DEF ProgressInv
<1> QED
  BY <1>10, <1>11

LEMMA StepMessages ==
  ASSUME ProgressInv, [Next]_vars
  PROVE  ProgressInv'
<1>1. CASE UNCHANGED legacyVars
  BY <1>1 DEF ProgressInv, Ended, Over, Running, legacyVars
<1>2. CASE StreamLine
  BY <1>1, <1>2 DEF StreamLine, StartBlock, ApplyDelta, CompleteBlock, StartToolBlock,
                   StartResultBlock
<1>3. CASE AssistantBlock
  BY <1>1, <1>3, StepProgress DEF AssistantBlock, FinalText, PartialText, FinalTool
<1>4. CASE UserBlock \/ EndOfTurn \/ UNCHANGED vars
  BY <1>1, <1>4 DEF UserBlock, ToolResult, EndOfTurn, vars
<1> QED
  BY <1>2, <1>3, <1>4 DEF Next

\* partial_text is what the client was told of a message, unless it was told a
\* text that does not extend it: ProgressInv is inductive.
THEOREM ProgressInvariant == Spec => []ProgressInv
<1>1. Init => ProgressInv
  BY InitProgress
<1>2. ProgressInv /\ [Next]_vars => ProgressInv'
  BY StepMessages
<1> QED
  BY <1>1, <1>2, PTL DEF Spec

\* item/progress: the deltas a client joins end with the text read last, and
\* are that text if every text extended the one before; the item created at the
\* end has the same text.
THEOREM ProgressIsWhole == Spec => []ProgressAddsUp
<1>1. ProgressInv => ProgressAddsUp
  <2> SUFFICES ASSUME ProgressInv, NEW m \in Msg, read[m] # << >>
               PROVE  /\ IsSuffix(Last(read[m]), Accumulated(progress[m]))
                      /\ Chain(read[m]) => Accumulated(progress[m]) = Last(read[m])
                      /\ Ended(m) => Last(progress[m]).text = Last(read[m])
    BY DEF ProgressAddsUp, Chain
  <2>1. /\ EndsWith(Accumulated(progress[m]), Last(read[m]))
        /\ Chain(read[m]) => Accumulated(progress[m]) = Last(read[m])
        /\ Ended(m) => Last(progress[m]).text = Last(read[m])
        /\ read[m] \in Seq(Text)
    BY DEF ProgressInv, Over, Running, Talk
  <2>2. Last(read[m]) \in Seq(Chunks)
    <3>1. Last(read[m]) \in Text
      BY <2>1 DEF Last
    <3> QED
      BY <3>1, TextAssumption
  <2>3. IsSuffix(Last(read[m]), Accumulated(progress[m]))
    BY <2>1, <2>2, EndIsSuffix DEF EndsWith
  <2> QED
    BY <2>1, <2>3
<1> QED
  BY <1>1, ProgressInvariant, PTL

-----------------------------------------------------------------------------
LEMMA StepLines ==
  ASSUME lines \in 0..MaxLines, [Next]_vars
  PROVE  lines' \in 0..MaxLines
<1>1. CASE TakeLine
  BY <1>1, MaxLinesAssumption DEF TakeLine
<1>2. CASE StreamLine
  BY <1>1, <1>2 DEF StreamLine, StartBlock, ApplyDelta, CompleteBlock, StartToolBlock,
                   StartResultBlock
<1>3. CASE AssistantBlock
  BY <1>1, <1>3 DEF AssistantBlock, FinalText, PartialText, FinalTool
<1>4. CASE UserBlock
  BY <1>1, <1>4 DEF UserBlock, ToolResult
<1>5. CASE EndOfTurn \/ UNCHANGED vars
  BY <1>5 DEF EndOfTurn, vars
<1> QED
  BY <1>2, <1>3, <1>4, <1>5 DEF Next

\* Types, and: without a stream no content block is ever there, so that a final
\* text is told as a whole and never completes a block.
THEOREM RichTypesCorrect == Spec => []TypeOK
<1>1. Init => lines \in 0..MaxLines
  BY MaxLinesAssumption DEF Init
<1>2. lines \in 0..MaxLines /\ [Next]_vars => lines' \in 0..MaxLines
  BY StepLines
<1>3. Spec => [](lines \in 0..MaxLines)
  <2> DEFINE Bounded == lines \in 0..MaxLines
  <2>1. Init => Bounded
    BY <1>1
  <2>2. Bounded /\ [Next]_vars => Bounded'
    BY <1>2
  <2> HIDE DEF Bounded
  <2>3. Spec => []Bounded
    BY <2>1, <2>2, PTL DEF Spec
  <2> QED
    BY <2>3 DEF Bounded
<1>4. ToolInv /\ TextInv /\ ProgressInv /\ lines \in 0..MaxLines => TypeOK
  <2> SUFFICES ASSUME ToolInv, TextInv, ProgressInv, lines \in 0..MaxLines PROVE TypeOK
    OBVIOUS
  <2>1. ASSUME NEW i \in Index
        PROVE  /\ blocks[i].kind \in TextKind \cup {"tool", "none"}
               /\ blocks[i].completed \in BOOLEAN
               /\ ~streamed => blocks[i] = NoBlock
    BY DEF TextInv, TextTypes, Block
  <2>2. ASSUME NEW item \in TextItem, NEW n \in DOMAIN spoken[item]
        PROVE  spoken[item][n] \in Speech
    BY DEF TextInv, TextTypes
  <2>3. ASSUME NEW t \in Tool, NEW n \in DOMAIN called[t]
        PROVE  called[t][n] \in Note
    BY DEF ToolInv, CallOf, Told
  <2> QED
    BY <2>1, <2>2, <2>3
       DEF TypeOK, ToolInv, ToolTypes, TextInv, TextTypes, ProgressInv, Speech, Note
<1> QED
  BY <1>3, <1>4, ToolInvariant, TextInvariant, ProgressInvariant, PTL


=============================================================================

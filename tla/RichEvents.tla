----------------------------- MODULE RichEvents -----------------------------
(***************************************************************************)
(* RichEventState: how one turn turns the lines claude streams into rich   *)
(* notifications about items.  Text and thinking arrive as content blocks  *)
(* that start, grow and stop, or whole in a final assistant message; tools *)
(* are called in a content block, in a final message, or both, and answer  *)
(* in a tool_result.  Lines come in any order: claude owes none.           *)
(*                                                                         *)
(* A text is a sequence of chunks, a tool's input is bare or carries what  *)
(* the tool needs: a list of todos, a command.  The runner handles a line  *)
(* at a time, and an assistant line block by block: one block is one step. *)
(*                                                                         *)
(* The older item/progress notifications go beside them: a partial         *)
(* assistant message repeats its text from the start, the runner sends     *)
(* what is new, and the final text ends in an item/created.                *)
(***************************************************************************)
EXTENDS Integers, Sequences, FiniteSets, SequencesExt

CONSTANTS
  Index,       \* content block indexes
  Msg,         \* ids of assistant messages
  Text,        \* texts and deltas a line may carry: sequences of chunks
  Bash,        \* tool_use ids of Bash calls,
  TodoWrite,   \* of TodoWrite calls,
  OtherTool,   \* and of calls of other tools
  MaxLines     \* bound: content blocks, deltas and tool results read

ASSUME MaxLinesAssumption == MaxLines \in Nat

ASSUME ToolAssumption ==
  /\ Bash \cap TodoWrite = {} /\ Bash \cap OtherTool = {}
  /\ TodoWrite \cap OtherTool = {}

\* The chunks texts are made of.
Chunks == UNION {{text[n] : n \in DOMAIN text} : text \in Text}

ASSUME TextAssumption == Text \subseteq Seq(Chunks)

TextKind == {"message", "reasoning"}
Tool     == Bash \cup TodoWrite \cup OtherTool
Input    == {"none", "bare", "full"}

VARIABLES
  blocks,      \* content_blocks
  calls,       \* tool_calls: the input of each call, "none" if it has no entry
  completed,   \* completed_tools
  planned,     \* plan_tool_calls
  streamed,    \* saw_content_block_stream
  partial,     \* partial_text: the text told of each message, << >> for no entry
  lines,       \* lines handled so far
  spoken,      \* history: the notifications about each text item
  called,      \* history: the notifications about each tool item
  todos,       \* history: TodoWrite calls whose todos were received
  read,        \* history: the texts of each message up to its last final one
  progress     \* history: the item/progress and item/created sent for them

legacyVars == <<partial, read, progress>>
textVars == <<blocks, streamed, spoken>>
toolVars == <<calls, completed, planned, called, todos>>
vars     == <<textVars, toolVars, legacyVars, lines>>

StreamItem(i)     == <<"stream", i>>
FinalItem(m, i)   == <<"final", m, i>>
TextItem ==
  {StreamItem(i) : i \in Index} \cup {FinalItem(m, i) : m \in Msg, i \in Index}

NoBlock == [kind |-> "none", text |-> << >>, completed |-> FALSE]

Init ==
  /\ blocks    = [i \in Index |-> NoBlock]
  /\ calls     = [t \in Tool |-> "none"]
  /\ completed = {}
  /\ planned   = {}
  /\ streamed  = FALSE
  /\ lines     = 0
  /\ spoken    = [item \in TextItem |-> << >>]
  /\ called    = [t \in Tool |-> << >>]
  /\ todos     = {}
  /\ partial   = [m \in Msg |-> << >>]
  /\ read      = [m \in Msg |-> << >>]
  /\ progress  = [m \in Msg |-> << >>]

-----------------------------------------------------------------------------
(* Notifications.                                                          *)

Started         == [what |-> "started", text |-> << >>]
Delta(text)     == [what |-> "delta", text |-> text]
Completed(text) == [what |-> "completed", text |-> text]

\* An empty delta is not sent.
Deltas(text) == IF text = << >> THEN << >> ELSE <<Delta(text)>>

Say(item, notes) == spoken' = [spoken EXCEPT ![item] = @ \o notes]

\* A note about a tool; input "none" stands for the name "unknown" as well.
ToolNote(what, input) == [what |-> what, input |-> input]

-----------------------------------------------------------------------------
(* item/progress.                                                          *)

Whole(m, text) == text

\* strip_prefix: a text that does not begin with what was told is told whole.
Untold(m, text) ==
  IF IsPrefix(partial[m], text)
  THEN SubSeq(text, Len(partial[m]) + 1, Len(text)) ELSE text

\* The last text of message m was a final one.
Ended(m) == progress[m] # << >> /\ Last(progress[m]).what = "completed"

\* A text of an assistant message; the final one is recorded as an item, and
\* the next text of the message is read from scratch.
Progress(m, text, final) ==
  LET new    == Untold(m, text)
      before == IF Ended(m) THEN << >> ELSE progress[m]
  IN  /\ partial' = [partial EXCEPT ![m] =
                       IF final THEN << >> ELSE IF new = << >> THEN @ ELSE text]
      /\ read' = [read EXCEPT ![m] = IF Ended(m) THEN <<text>> ELSE Append(@, text)]
      /\ progress' = [progress EXCEPT ![m] =
           before \o Deltas(new) \o (IF final THEN <<Completed(text)>> ELSE << >>)]

TakeLine == lines < MaxLines /\ lines' = lines + 1

-----------------------------------------------------------------------------
(* Text and thinking.                                                      *)

SawText(kind) == streamed \/ kind # "tool"
SawStream(kind) == TRUE

\* content_block_start of a text: a new block takes the place of the old one.
StartBlock(i, kind, text) ==
  /\ TakeLine
  /\ streamed' = SawStream(kind)
  /\ blocks' = [blocks EXCEPT ![i] =
                  [kind |-> kind, text |-> text, completed |-> FALSE]]
  /\ Say(StreamItem(i), <<Started>> \o Deltas(text))
  /\ UNCHANGED <<toolVars, legacyVars>>

Replaced(i, text) == text
Grown(i, text) == blocks[i].text \o text

\* content_block_delta: only a delta of the block's own kind counts.
ApplyDelta(i, kind, text) ==
  /\ TakeLine
  /\ IF blocks[i].kind = kind
     THEN /\ blocks' = [blocks EXCEPT ![i].text = Grown(i, text)]
          /\ Say(StreamItem(i), <<Delta(text)>>)
     ELSE UNCHANGED <<blocks, spoken>>
  /\ UNCHANGED <<streamed, toolVars, legacyVars>>

OpenText(i) == blocks[i].kind \in TextKind
OpenBlock(i) == blocks[i].kind \in TextKind /\ ~blocks[i].completed

\* content_block_stop: complete a text once.
CompleteBlock(i) ==
  /\ TakeLine
  /\ IF OpenBlock(i)
     THEN /\ blocks' = [blocks EXCEPT ![i].completed = TRUE]
          /\ Say(StreamItem(i), <<Completed(blocks[i].text)>>)
     ELSE UNCHANGED <<blocks, spoken>>
  /\ UNCHANGED <<streamed, toolVars, legacyVars>>

\* A text of a partial assistant message; its thinking and tools are ignored.
PartialText(m, text) ==
  /\ TakeLine
  /\ Progress(m, text, FALSE)
  /\ UNCHANGED <<textVars, toolVars>>

\* A text of a final assistant message.  Streaming has told it already; without
\* it, a block of this kind would be completed and dropped, preferably the one
\* at the same index, and if there is none the item is told as a whole.  A
\* thinking is not told in parts: it leaves no trace in partial.
FinalText(m, i, kind, text) ==
  LET found == {j \in Index : blocks[j].kind = kind}
      pick  == IF i \in found THEN {i} ELSE found
  IN  /\ TakeLine
      /\ IF streamed THEN UNCHANGED <<blocks, spoken>>
         ELSE IF found # {}
         THEN \E j \in pick :
                /\ blocks' = [blocks EXCEPT ![j] = NoBlock]
                /\ Say(StreamItem(j), IF OpenBlock(j)
                         THEN <<Completed(blocks[j].text)>> ELSE << >>)
         ELSE /\ Say(FinalItem(m, i),
                     <<Started>> \o Deltas(text) \o <<Completed(text)>>)
              /\ UNCHANGED blocks
      /\ IF kind = "message" THEN Progress(m, text, TRUE)
         ELSE UNCHANGED legacyVars
      /\ UNCHANGED <<streamed, toolVars>>

-----------------------------------------------------------------------------
(* Tools.                                                                  *)

PlannedAgain(t) == planned
Planned(t) == planned \cup {t}

\* A call is started once, with the input it came with first, and its plan is
\* looked for once.
CallTool(t, input) ==
  LET known == calls[t] # "none"
      todo  == t \in TodoWrite /\ input = "full"
  IN  /\ calls' = IF known THEN calls ELSE [calls EXCEPT ![t] = input]
      /\ planned' = Planned(t)
      /\ called' = [called EXCEPT ![t] = @
           \o (IF known THEN << >> ELSE <<ToolNote("started", input)>>)
           \o (IF todo /\ t \notin planned THEN <<ToolNote("plan", input)>> ELSE << >>)]
      /\ todos' = IF todo THEN todos \cup {t} ELSE todos
      /\ UNCHANGED completed

\* content_block_start of a tool_use.
StartToolBlock(i, t, input) ==
  /\ TakeLine
  /\ streamed' = SawStream("tool")
  /\ CallTool(t, input)
  /\ blocks' = [blocks EXCEPT ![i] = [NoBlock EXCEPT !.kind = "tool"]]
  /\ UNCHANGED <<spoken, legacyVars>>

\* content_block_start of a tool_result: nothing but the sign of a stream.
StartResultBlock ==
  /\ TakeLine
  /\ streamed' = SawStream("result")
  /\ UNCHANGED <<blocks, spoken, toolVars, legacyVars>>

\* A tool_use of a final assistant message.
FinalTool(t, input) ==
  /\ TakeLine
  /\ CallTool(t, input)
  /\ UNCHANGED <<textVars, legacyVars>>

Reopened(t) == calls[t] # "none" \/ t \notin completed
FirstResult(t) == t \notin completed

\* A tool_result: the first one of a call completes it, whether the call was
\* seen or not; Bash shows its output before.
ToolResult(t, failed, output) ==
  /\ TakeLine
  /\ IF FirstResult(t)
     THEN /\ completed' = completed \cup {t}
          /\ calls' = [calls EXCEPT ![t] = "none"]
          /\ called' = [called EXCEPT ![t] = @
               \o (IF t \in Bash /\ calls[t] # "none" /\ output
                   THEN <<ToolNote("output", calls[t])>> ELSE << >>)
               \o <<ToolNote(IF failed THEN "failed" ELSE "completed", calls[t])>>]
     ELSE UNCHANGED <<completed, calls, called>>
  /\ UNCHANGED <<planned, todos, textVars, legacyVars>>

-----------------------------------------------------------------------------
StreamLine ==
  \/ \E i \in Index :
       \/ \E kind \in TextKind, text \in Text : StartBlock(i, kind, text)
       \/ \E kind \in TextKind, text \in Text : ApplyDelta(i, kind, text)
       \/ CompleteBlock(i)
       \/ \E t \in Tool, input \in Input \ {"none"} : StartToolBlock(i, t, input)
  \/ StartResultBlock

AssistantBlock ==
  \/ \E m \in Msg, i \in Index, kind \in TextKind, text \in Text :
       FinalText(m, i, kind, text)
  \/ \E m \in Msg, text \in Text : PartialText(m, text)
  \/ \E t \in Tool, input \in Input \ {"none"} : FinalTool(t, input)

UserBlock == \E t \in Tool, failed, output \in BOOLEAN : ToolResult(t, failed, output)

\* The end of the output drops the state; an item may stay started for ever.
EndOfTurn == lines = MaxLines /\ UNCHANGED vars

Next == StreamLine \/ AssistantBlock \/ UserBlock \/ EndOfTurn

Spec == Init /\ [][Next]_vars

-----------------------------------------------------------------------------
(* What the notifications promise.                                         *)

\* Every variable keeps its type; without a stream there are no content blocks,
\* so that a final text is always told as a whole.
TypeOK ==
  /\ \A i \in Index :
       /\ blocks[i].kind \in TextKind \cup {"tool", "none"}
       /\ blocks[i].completed \in BOOLEAN
       /\ ~streamed => blocks[i] = NoBlock
  /\ calls \in [Tool -> Input]
  /\ completed \subseteq Tool /\ planned \subseteq Tool /\ todos \subseteq Tool
  /\ streamed \in BOOLEAN
  /\ lines \in 0..MaxLines
  /\ partial \in [Msg -> Text \cup {<< >>}]
  /\ \A item \in TextItem : \A n \in DOMAIN spoken[item] : 
       spoken[item][n] \in [what: {"started", "delta", "completed"}, text: Seq(Chunks)]
  /\ \A t \in Tool : \A n \in DOMAIN called[t] :
       called[t][n] \in
         [what: {"started", "plan", "output", "completed", "failed"}, input: Input]

\* The notifications of an item since its last "started" before the n-th one.
Since(notes, n) ==
  LET starts == {m \in 1..n : notes[m].what = "started"} IN
    IF starts = {} THEN << >>
    ELSE LET first == CHOOSE m \in starts : \A k \in starts : k <= m IN
           SubSeq(notes, first, n)

\* What a client that appends deltas has of the item.
Accumulated(notes) ==
  FlattenSeq([n \in DOMAIN notes |->
                IF notes[n].what = "completed" THEN << >> ELSE notes[n].text])

Count(notes, kinds) == Cardinality({n \in DOMAIN notes : notes[n].what \in kinds})

\* The item/progress deltas of a message, joined by the client, always end with
\* the text read last; they are just that text, none of it sent twice, if every
\* text extended the one before, as the texts of one content block do.  The item
\* created at the end has the same text.
ProgressAddsUp ==
  \A m \in Msg : read[m] # << >> =>
    LET told == Accumulated(progress[m])
        last == Last(read[m])
    IN  /\ IsSuffix(last, told)
        /\ (\A n \in 1..(Len(read[m]) - 1) : IsPrefix(read[m][n], read[m][n + 1]))
             => told = last
        /\ Ended(m) => Last(progress[m]).text = last

\* A text is completed with just the text its deltas added up to since it was
\* started, and once: whether it was streamed or came in a final message.
CompletedTextIsWhole ==
  \A item \in TextItem : \A n \in DOMAIN spoken[item] :
    LET notes == Since(spoken[item], n) IN
      /\ notes # << >>
      /\ Count(notes, {"completed"}) <= 1
           \/ spoken[item][n].what # "completed"
      /\ spoken[item][n].what = "completed" =>
           spoken[item][n].text = Accumulated(notes)

\* At every moment a client that appends the deltas of a streamed text has the
\* text the server has, and knows whether it is complete.
ClientAgreesWithServer ==
  \A i \in Index : blocks[i].kind \in TextKind =>
    LET notes == Since(spoken[StreamItem(i)], Len(spoken[StreamItem(i)])) IN
      /\ Accumulated(notes) = blocks[i].text
      /\ Count(notes, {"completed"}) = (IF blocks[i].completed THEN 1 ELSE 0)

\* A tool item is completed or fails once, with the input of a call that started
\* it; it is "unknown" only if no call was seen before its result.
ToolItemsAddUp ==
  \A t \in Tool :
    LET ends == {n \in DOMAIN called[t] : called[t][n].what \in {"completed", "failed"}}
    IN  /\ Cardinality(ends) <= 1
        /\ \A n \in ends :
             LET inputs == {called[t][m].input :
                              m \in {k \in 1..n : called[t][k].what = "started"}}
             IN  called[t][n].input \in (IF inputs = {} THEN {"none"} ELSE inputs)

\* A tool call updates the plan at most once, and only after it was started.
PlanUpdatedOnce ==
  \A t \in Tool :
    /\ Count(called[t], {"plan"}) <= 1
    /\ \A n \in DOMAIN called[t] : called[t][n].what = "plan" =>
         \E m \in 1..(n - 1) : called[t][m].what = "started"

\* turn/plan/updated is a "Plan update derived from Claude TodoWrite tool calls"
\* (README.md:284): a call whose todos were received updates the plan.  The call
\* counts as planned from its content_block_start on, before its input came.
TodosUpdatePlan ==
  \A t \in todos : Count(called[t], {"plan"}) > 0

=============================================================================

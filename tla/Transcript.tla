----------------------------- MODULE Transcript -----------------------------
(***************************************************************************)
(* The canonical transcript of an agent: what one message is, how the      *)
(* reducer appends to it, when it is valid, and how the outgoing copy is   *)
(* repaired before a model request.                                        *)
(*                                                                         *)
(* Sources: crates/agent-core/src/transcript.rs,                           *)
(*          crates/agent-core/src/transitions/assistant_text.rs,           *)
(*          crates/protocol/src/messages.rs (repair_tool_history).         *)
(*                                                                         *)
(* Every message the reducer writes holds at most one block that the       *)
(* functions below tell apart (text, a tool call, a tool result, or none), *)
(* so a message is a record with one block.  Text is not kept: no function *)
(* here looks at it.                                                       *)
(***************************************************************************)
EXTENDS Naturals, Sequences, SequencesExt

CONSTANTS ToolCalls,   \* identifiers of tool calls (ToolCallId)
          NoCall       \* the call of a message that holds no tool block

ASSUME NoCallAssumption == NoCall \notin ToolCalls

Roles == {"User", "Assistant", "Tool"}

(***************************************************************************)
(* "recorded" is a result the history holds, "unavailable" the placeholder *)
(* that repair_tool_history writes for a call without one.                 *)
(***************************************************************************)
Outcomes == {"recorded", "unavailable", "none"}

Messages == [role: Roles,
             block: {"Text", "ToolUse", "ToolResult", "Empty"},
             call: ToolCalls \cup {NoCall},
             outcome: Outcomes]

UserMessage == [role |-> "User", block |-> "Text", call |-> NoCall, outcome |-> "none"]
TextMessage == [role |-> "Assistant", block |-> "Text", call |-> NoCall, outcome |-> "none"]
EmptyMessage == [role |-> "Assistant", block |-> "Empty", call |-> NoCall, outcome |-> "none"]
ToolUseMessage(c) == [role |-> "Assistant", block |-> "ToolUse", call |-> c, outcome |-> "none"]
ToolResultMessage(c, o) == [role |-> "Tool", block |-> "ToolResult", call |-> c, outcome |-> o]

-----------------------------------------------------------------------------
(***************************************************************************)
(* Appending assistant output (assistant_text.rs).                         *)
(***************************************************************************)
EndsIn(m, msg) == m # <<>> /\ m[Len(m)] = msg

EndsInAssistant(m) == m # <<>> /\ m[Len(m)].role = "Assistant"

\* Fills the message a reasoning delta opened, or opens a new one.
FillOrAppend(m, msg) ==
    IF EndsIn(m, EmptyMessage) THEN [m EXCEPT ![Len(m)] = msg] ELSE Append(m, msg)

\* A text delta extends the trailing text message or starts one.
append_assistant_text(m) ==
    IF EndsIn(m, TextMessage) THEN m ELSE FillOrAppend(m, TextMessage)

\* A reasoning delta opens an empty message unless the turn already has one.
assistant_message_id(m) ==
    IF EndsInAssistant(m) THEN m ELSE Append(m, EmptyMessage)

push_tool_use(m, c) == FillOrAppend(m, ToolUseMessage(c))

discard_trailing_empty_assistant_message(m) ==
    IF EndsIn(m, EmptyMessage) THEN SubSeq(m, 1, Len(m) - 1) ELSE m

-----------------------------------------------------------------------------
(***************************************************************************)
(* validate_transcript walks the messages with the list of calls that have *)
(* no result yet.  The first problem it meets is the answer.               *)
(***************************************************************************)
Declarations(m) == {i \in DOMAIN m : m[i].block = "ToolUse"}

\* Fault: a user message between a call and its result is let pass.
ValidateStepIgnoringUsers(m, acc, i) ==
    LET msg == m[i]
    IN IF acc.error # "None" THEN acc
       ELSE CASE msg.block = "ToolUse" -> [acc EXCEPT !.pending = Append(@, msg.call)]
              [] msg.block = "ToolResult" ->
                   IF Contains(acc.pending, msg.call)
                   THEN [acc EXCEPT !.pending = RemoveFirst(@, msg.call)]
                   ELSE [acc EXCEPT !.error = "OrphanToolResult"]
              [] OTHER -> acc

ValidateStep(m, acc, i) ==
    LET msg == m[i]
        declaredLater == \E j \in Declarations(m) : j > i /\ m[j].call = msg.call
    IN IF acc.error # "None" THEN acc
       ELSE CASE msg.role = "Assistant" /\ msg.block = "ToolUse" ->
                   [acc EXCEPT !.pending = Append(@, msg.call)]
              [] msg.role = "Tool" /\ msg.block = "ToolResult" ->
                   IF Contains(acc.pending, msg.call)
                   THEN [acc EXCEPT !.pending = RemoveFirst(@, msg.call)]
                   ELSE [acc EXCEPT !.error = IF declaredLater
                                              THEN "OutOfOrderToolResult"
                                              ELSE "OrphanToolResult"]
              [] msg.role = "User" /\ acc.pending # <<>> ->
                   [acc EXCEPT !.error = "DanglingToolCall"]
              [] OTHER -> acc

validate_transcript(m) ==
    LET walk[i \in 0..Len(m)] ==
            IF i = 0 THEN [pending |-> <<>>, error |-> "None"] ELSE ValidateStep(m, walk[i - 1], i)
        last == walk[Len(m)]
    IN IF last.error = "None" /\ last.pending # <<>>
       THEN "UnresolvedToolCall" ELSE last.error

ValidTranscript(m) == validate_transcript(m) = "None"

-----------------------------------------------------------------------------
(***************************************************************************)
(* repair_tool_history: each call is followed by its first recorded result *)
(* or by a placeholder, results of known calls are dropped from where they *)
(* stood, results of unknown calls become text of the user.                *)
(***************************************************************************)
CallsIn(m) == {m[i].call : i \in Declarations(m)}

ResultsOf(m, c) == {i \in DOMAIN m : m[i].block = "ToolResult" /\ m[i].call = c}

\* A call declared twice takes the recorded result once.
FirstDeclaration(m, i) == \A j \in Declarations(m) : m[j].call = m[i].call => i <= j

\* Fault: only results that stand after the call are looked at.
ReplyFromLaterResults(m, i) ==
    LET later == {j \in ResultsOf(m, m[i].call) : j > i}
    IN ToolResultMessage(m[i].call, IF later # {} THEN "recorded" ELSE "unavailable")

ReplyTo(m, i) ==
    LET c == m[i].call
        recorded == ResultsOf(m, c)
    IN ToolResultMessage(c,
           IF recorded # {} /\ FirstDeclaration(m, i)
           THEN m[CHOOSE j \in recorded : \A k \in recorded : j <= k].outcome
           ELSE "unavailable")

\* Fault: a result of an unknown call stays where it is.
RepairKeepingOrphans(m, i) ==
    CASE m[i].block = "ToolUse" -> <<m[i], ReplyTo(m, i)>>
      [] m[i].block = "ToolResult" -> IF m[i].call \in CallsIn(m) THEN <<>> ELSE <<m[i]>>
      [] m[i].block = "Empty" -> <<>>
      [] OTHER -> <<m[i]>>

RepairMessage(m, i) ==
    CASE m[i].block = "ToolUse" -> <<m[i], ReplyTo(m, i)>>
      [] m[i].block = "ToolResult" ->
            IF m[i].call \in CallsIn(m) THEN <<>> ELSE <<UserMessage>>
      [] m[i].block = "Empty" -> <<>>
      [] OTHER -> <<[m[i] EXCEPT !.role = IF @ = "Tool" THEN "User" ELSE @]>>

repair_tool_history(m) == FlattenSeq([i \in 1..Len(m) |-> RepairMessage(m, i)])

-----------------------------------------------------------------------------
(***************************************************************************)
(* Calls that are in the transcript and have no result in it.              *)
(***************************************************************************)
Unresolved(m) ==
    {c \in ToolCalls : /\ \E i \in 1..Len(m) : m[i].block = "ToolUse" /\ m[i].call = c
                       /\ \A i \in 1..Len(m) : m[i].block = "ToolResult" => m[i].call # c}
=============================================================================

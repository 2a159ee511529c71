---------------------------- MODULE MCTranscript ----------------------------
(***************************************************************************)
(* Every history of up to MaxMessages messages, in any order: the shapes a *)
(* stored transcript can have after interruption, truncation or restore.   *)
(***************************************************************************)
EXTENDS Transcript, FiniteSets

CONSTANT MaxMessages   \* bound on the length of a history

VARIABLE messages

Init == messages = <<>>

\* One more message reaches the stored history.
RecordMessage(msg) ==
    /\ Len(messages) < MaxMessages
    /\ messages' = Append(messages, msg)

Next == \E msg \in {UserMessage, TextMessage, EmptyMessage}
                   \cup {ToolUseMessage(c) : c \in ToolCalls}
                   \cup {ToolResultMessage(c, "recorded") : c \in ToolCalls} :
            RecordMessage(msg)

Spec == Init /\ [][Next]_messages

-----------------------------------------------------------------------------
UsesBefore(i, c) ==
    Cardinality({j \in 1..i : messages[j].block = "ToolUse" /\ messages[j].call = c})
ResultsBefore(i, c) ==
    Cardinality({j \in 1..i : messages[j].block = "ToolResult" /\ messages[j].call = c})

(***************************************************************************)
(* validate_transcript accepts exactly the histories in which every result *)
(* answers a call made before it and not answered yet, no user message     *)
(* stands between a call and its result, and no call is left unanswered.   *)
(***************************************************************************)
ValidateMatchesReference ==
    ValidTranscript(messages) <=>
        \A c \in ToolCalls :
            /\ \A i \in DOMAIN messages :
                 /\ ResultsBefore(i, c) <= UsesBefore(i, c)
                 /\ messages[i].role = "User" => ResultsBefore(i, c) = UsesBefore(i, c)
            /\ ResultsBefore(Len(messages), c) = UsesBefore(Len(messages), c)

(***************************************************************************)
(* Whatever the stored history looks like, the copy that execute_backend   *)
(* sends passes the validation that follows the repair.                    *)
(***************************************************************************)
RepairIsValid == ValidTranscript(repair_tool_history(messages))

(***************************************************************************)
(* The repair never turns a missing outcome into a recorded one and never  *)
(* loses a recorded one: a call has a recorded reply in the repaired copy  *)
(* exactly when the history holds a result for it.                         *)
(***************************************************************************)
RepairKeepsOutcomes ==
    LET repaired == repair_tool_history(messages)
    IN \A c \in CallsIn(messages) :
         (ResultsOf(messages, c) # {}) <=>
             \E i \in ResultsOf(repaired, c) : repaired[i].outcome = "recorded"

=============================================================================

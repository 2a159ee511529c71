-------------------------- MODULE ExecutionContract --------------------------
(***************************************************************************)
(* What an ExecutionBackend promises the caller of `execute`, told by the  *)
(* events it sends on the caller's sink and by nothing else: the text of   *)
(* the answer arrives once and in order whatever was retried underneath,   *)
(* no tool is asked for twice, exactly one terminal event ends the         *)
(* request, and a started request does end.  AgentRunner takes its backend *)
(* events under this contract; ModelBackend implements it.                 *)
(***************************************************************************)
EXTENDS Naturals, Sequences, FiniteSets

CONSTANTS Requests,     \* executions asked of the backend
          Errors        \* the errors an execution may end with

VARIABLES stage,        \* per request: "idle", "running" or "ended"
          sink          \* per request: the events its caller was sent

vars == <<stage, sink>>

Text(n)        == [kind |-> "TextDelta", token |-> n]
Output         == [kind |-> "Output"]           \* ReasoningDelta or UsageUpdate
ToolCall       == [kind |-> "ToolCallRequested"]
Completed(why) == [kind |-> "Completed", reason |-> why]
Failed(e)      == [kind |-> "Error", error |-> e]

IsText(e) == e.kind = "TextDelta"
IsCall(e) == e.kind = "ToolCallRequested"

\* How much of the answer has been delivered, and whether a tool was asked for.
Answered(events) == Cardinality({i \in DOMAIN events : IsText(events[i])})
Called(events)   == \E i \in DOMAIN events : IsCall(events[i])

Init ==
    /\ stage = [r \in Requests |-> "idle"]
    /\ sink = [r \in Requests |-> <<>>]

Begin(r) ==
    /\ stage[r] = "idle"
    /\ stage' = [stage EXCEPT ![r] = "running"]
    /\ UNCHANGED sink

Deliver(r, event) ==
    /\ stage[r] = "running"
    /\ sink' = [sink EXCEPT ![r] = Append(@, event)]
    /\ UNCHANGED stage

\* The next piece of the answer: nothing skipped, nothing said twice.
DeliverText(r) == Deliver(r, Text(Answered(sink[r]) + 1))

DeliverOutput(r) == Deliver(r, Output)

\* A tool call is asked for once: running it twice could repeat its effect.
DeliverCall(r) == ~Called(sink[r]) /\ Deliver(r, ToolCall)

\* A request that asked for a tool and succeeded says so, or the agent would
\* finish the run while the tool is still running.
Result(r) ==
    {Failed(e) : e \in Errors}
        \cup {Completed(why) : why \in IF Called(sink[r])
                                       THEN {"tool_use"}
                                       ELSE {"tool_use", "end_turn"}}

End(r) ==
    /\ stage[r] \in {"idle", "running"}
    /\ \E event \in Result(r) : sink' = [sink EXCEPT ![r] = Append(@, event)]
    /\ stage' = [stage EXCEPT ![r] = "ended"]

Next ==
    \E r \in Requests :
        \/ Begin(r)
        \/ DeliverText(r)
        \/ DeliverOutput(r)
        \/ DeliverCall(r)
        \/ End(r)

\* A request that runs is ended, whatever its provider does.
Spec ==
    /\ Init
    /\ [][Next]_vars
    /\ \A r \in Requests : WF_vars(stage[r] = "running" /\ End(r))
=============================================================================

------------------------------- MODULE Agent --------------------------------
(***************************************************************************)
(* The agent reducer: Agent::apply turns one command into a new state and  *)
(* a list of effects, without doing any of the work itself.                *)
(*                                                                         *)
(* Source: crates/agent-core/src/transitions.  Each operator below is one  *)
(* method of the same name.  It takes the agent's state as a record and    *)
(* returns the state it leaves, with the effects the method returns        *)
(* appended to the field fx; the caller (AgentRunner) carries them out.    *)
(*                                                                         *)
(* What the rules of a behavior profile decide depends on names, arguments *)
(* and text that are not modelled.  An oracle o gives, for every rule      *)
(* event, the outcome of evaluating the rules; Rules says which outcomes a *)
(* profile can produce for an event.                                       *)
(***************************************************************************)
EXTENDS Transcript, FiniteSets

CONSTANTS
    Inputs,            \* user inputs (prompts, steering, follow-ups)
    Oversized,         \* the inputs with an attachment over the size limit
    SessionMode,       \* [ToolCalls -> Modes]: what the session grants the call's tool
    Profiles,          \* behavior profiles
    DefaultProfile,
    NoProfile,         \* pending_profile = None
    Limits,            \* [Profiles -> [max_turns, max_tool_calls]], Unlimited = None
    Unlimited,
    Gate,              \* [Profiles -> a completion gate, or NoGate]
    NoGate,
    Scope,             \* [Profiles -> SUBSET ToolCalls]: calls whose tool the profile admits
    ProfileMode,       \* [Profiles -> [ToolCalls -> Modes]]: the profile's overrides
    Rules,             \* [Profiles -> [RuleEvents -> SUBSET Outcome]]
    Children,          \* the child agents that can be spawned
    MAX_CONSECUTIVE_TOOL_TIMEOUTS,
    FINAL_TURN_GRACE,
    MAX_SWITCHES_PER_RUN

Statuses == {"Idle", "PreparingContext", "WaitingForBackend", "Streaming", "Executing",
             "WaitingForPermission", "WaitingForChildren", "Verifying", "Paused",
             "Cancelled", "Failed"}

\* "NotOffered": no enabled tool of the session has the call's name.
Modes == {"NotOffered", "Allow", "Ask", "Deny"}

RuleEvents == {"RunStart", "ProfileEntered", "BeforeModelRequest", "PreToolUse", "PostToolUse"}

\* What evaluating the rules for one event can ask for.
Outcome == [stop: BOOLEAN,
            decision: {"None", "Deny", "Ask", "Allow"},
            switch: Profiles \cup {NoProfile}]

Quiet == [stop |-> FALSE, decision |-> "None", switch |-> NoProfile]

NoRun == 0

ASSUME AgentAssumption ==
    /\ Oversized \subseteq Inputs
    /\ SessionMode \in [ToolCalls -> Modes]
    /\ DefaultProfile \in Profiles /\ NoProfile \notin Profiles
    /\ \A p \in Profiles : Limits[p].max_turns # Unlimited => Limits[p].max_turns \in Nat \ {0}
    /\ Scope \in [Profiles -> SUBSET ToolCalls]
    /\ ProfileMode \in [Profiles -> [ToolCalls -> Modes \ {"NotOffered"}]]
    /\ Rules \in [Profiles -> [RuleEvents -> SUBSET Outcome]]
    /\ MAX_CONSECUTIVE_TOOL_TIMEOUTS \in Nat \ {0}
    /\ FINAL_TURN_GRACE \in Nat
    /\ MAX_SWITCHES_PER_RUN \in Nat

NewAgent ==
    [status |-> "Idle", messages |-> <<>>, active_run |-> NoRun,
     backend_in_flight |-> FALSE, queued_inputs |-> <<>>, pending_tools |-> {},
     pending_permissions |-> {}, children |-> {}, timeouts |-> 0,
     profile |-> DefaultProfile, pending_profile |-> NoProfile, entered |-> FALSE,
     turns |-> 0, tool_calls |-> 0, final_turn |-> FALSE, final_grace_used |-> 0,
     gate_attempts |-> 0, gate_continuations |-> 0, switches |-> 0,
     next_run |-> 1, next_request |-> 1, runs |-> 0, fx |-> <<>>]

-----------------------------------------------------------------------------
(***************************************************************************)
(* Effects.  What an Emit says is not read by anything here; where it      *)
(* stands matters, since its commit can fail.  One Emit therefore stands   *)
(* for all that a command emits before the same effects: the StateChanged  *)
(* before a request also for the BehaviorRuleFired and ContextInjected of  *)
(* that turn.                                                              *)
(***************************************************************************)
Emit(event) == [kind |-> "Emit", event |-> event]
ExecuteBackend(id, r) == [kind |-> "ExecuteBackend", id |-> id, run |-> r]
ExecuteTool(c) == [kind |-> "ExecuteTool", call |-> c]
EvaluateCompletion(r, n, p) ==
    [kind |-> "EvaluateCompletion", run |-> r, attempt |-> n, profile |-> p]
SpawnAgent == [kind |-> "SpawnAgent"]
FinishRun == [kind |-> "FinishRun"]
CancelBackend(r) == [kind |-> "CancelBackend", run |-> r]
CancelEvaluation(r) == [kind |-> "CancelEvaluation", run |-> r]
CancelTools(calls) == [kind |-> "CancelTools", calls |-> calls]  \* a CancelTool for each
CancelChildren(children) == [kind |-> "CancelChildren", children |-> children]

Events == {"StateChanged", "RunStarted", "ProfileChanged", "AssistantTextDelta", "ReasoningDelta",
           "ToolCallRequested", "ToolCallCompleted", "PermissionRequested", "Failed", "Completed",
           "CompletionGateEvaluated", "ChildAgentCompleted"}

Effects ==
    [kind: {"Emit"}, event: Events] \cup [kind: {"SpawnAgent", "FinishRun"}]
    \cup [kind: {"ExecuteBackend"}, id: Nat, run: Nat]
    \cup [kind: {"ExecuteTool"}, call: ToolCalls]
    \cup [kind: {"EvaluateCompletion"}, run: Nat, attempt: Nat, profile: Profiles]
    \cup [kind: {"CancelBackend", "CancelEvaluation"}, run: Nat]
    \cup [kind: {"CancelTools"}, calls: SUBSET ToolCalls]
    \cup [kind: {"CancelChildren"}, children: SUBSET Children]

AgentStates ==
    [status: Statuses, messages: Seq(Messages), active_run: Nat, backend_in_flight: BOOLEAN,
     queued_inputs: Seq(Inputs), pending_tools: SUBSET ToolCalls,
     pending_permissions: SUBSET ToolCalls, children: SUBSET Children, timeouts: Nat,
     profile: Profiles, pending_profile: Profiles \cup {NoProfile}, entered: BOOLEAN,
     turns: Nat, tool_calls: Nat, final_turn: BOOLEAN, final_grace_used: Nat,
     gate_attempts: Nat, gate_continuations: Nat, switches: Nat,
     next_run: Nat, next_request: Nat, runs: Nat, fx: Seq(Effects)]

With(s, effects) == [s EXCEPT !.fx = @ \o effects]

-----------------------------------------------------------------------------
(***************************************************************************)
(* Failing a run (lifecycle.rs) and finishing one (completion/mod.rs).     *)
(* Neither looks at the calls, permissions or children still pending.      *)
(***************************************************************************)
fail(s) ==
    With([s EXCEPT !.messages = discard_trailing_empty_assistant_message(@),
                   !.status = "Failed",
                   !.active_run = NoRun,
                   !.backend_in_flight = FALSE,
                   !.runs = @ + 1],
         <<Emit("Failed"), FinishRun>>)

finish_success(s) ==
    With([s EXCEPT !.status = "Idle", !.active_run = NoRun, !.runs = @ + 1],
         <<Emit("Completed"), FinishRun>>)

-----------------------------------------------------------------------------
(***************************************************************************)
(* Behavior profiles (behavior_profile.rs, behavior/state).                *)
(***************************************************************************)
evaluate(s, event, o) ==
    IF o[event] \in Rules[s.profile][event] THEN o[event] ELSE Quiet

\* A switch asked for by a rule waits for the next model request.
apply_rule_outcome(s, outcome) ==
    IF outcome.switch = NoProfile THEN s ELSE [s EXCEPT !.pending_profile = outcome.switch]

ResetRun(s) ==
    [s EXCEPT !.turns = 0, !.tool_calls = 0, !.final_turn = FALSE, !.final_grace_used = 0,
              !.gate_attempts = 0, !.gate_continuations = 0, !.switches = 0]

\* The new profile's counters start fresh; only the switch count carries over.
switched_to(s, p) ==
    [ResetRun(s) EXCEPT !.profile = p, !.switches = s.switches + 1, !.entered = TRUE]

apply_switch(s, p) ==
    IF s.profile = p THEN s
    ELSE LET t == With(switched_to(s, p), <<Emit("ProfileChanged")>>)
         IN IF t.active_run # NoRun /\ t.switches > MAX_SWITCHES_PER_RUN
            THEN fail(t) ELSE t

\* begin_turn and start_run take the pending profile before they apply it.
TakePendingProfile(s) ==
    IF s.pending_profile = NoProfile THEN s
    ELSE apply_switch([s EXCEPT !.pending_profile = NoProfile], s.pending_profile)

set_behavior_profile(s, p) ==
    IF s.active_run # NoRun THEN [s EXCEPT !.pending_profile = p] ELSE apply_switch(s, p)

\* Evaluates the rules for an event; a rule that stops the run fails it.
RunRules(s, event, o) ==
    LET outcome == evaluate(s, event, o)
        t == apply_rule_outcome(s, outcome)
    IN IF outcome.stop THEN fail(t) ELSE t

-----------------------------------------------------------------------------
(***************************************************************************)
(* One turn (turn.rs, behavior/state/turns.rs).  A turn that cannot begin  *)
(* has failed the run: active_run is NoRun in the state returned.          *)
(***************************************************************************)
Reached(limit, n) == limit # Unlimited /\ n >= limit

\* Fault: one grace turn too many.
CountTurnOffByOne(s) ==
    IF s.final_turn
    THEN IF s.final_grace_used > FINAL_TURN_GRACE THEN fail(s)
         ELSE [s EXCEPT !.final_grace_used = @ + 1]
    ELSE [s EXCEPT !.turns = @ + 1,
                   !.final_turn = \/ Reached(Limits[s.profile].max_turns, s.turns + 1)
                                  \/ Reached(Limits[s.profile].max_tool_calls, s.tool_calls)]

\* BehaviorState::begin_turn: counts the request, or spends one grace turn.
CountTurn(s) ==
    IF s.final_turn
    THEN IF s.final_grace_used >= FINAL_TURN_GRACE THEN fail(s)
         ELSE [s EXCEPT !.final_grace_used = @ + 1]
    ELSE [s EXCEPT !.turns = @ + 1,
                   !.final_turn = \/ Reached(Limits[s.profile].max_turns, s.turns + 1)
                                  \/ Reached(Limits[s.profile].max_tool_calls, s.tool_calls)]

enter_profile(s, o) ==
    IF s.entered THEN RunRules([s EXCEPT !.entered = FALSE], "ProfileEntered", o) ELSE s

IfRunning(s, Step(_)) == IF s.active_run = NoRun THEN s ELSE Step(s)

begin_turn(s, o) ==
    LET Enter(t) == enter_profile(t, o)
        Before(t) == RunRules(t, "BeforeModelRequest", o)
    IN IfRunning(IfRunning(IfRunning(TakePendingProfile(s), Enter), CountTurn), Before)

\* The request carries the transcript as it is; only its identity is kept here.
build_request(s) ==
    With([s EXCEPT !.backend_in_flight = TRUE, !.next_request = @ + 1],
         <<ExecuteBackend(s.next_request, s.active_run)>>)

\* begin_turn, and if the turn begins: the new status and the model request.
RequestTurn(s, status, o) ==
    LET Issue(t) == build_request(With([t EXCEPT !.status = status], <<Emit("StateChanged")>>))
    IN IfRunning(begin_turn(s, o), Issue)

\* Fault: the next request does not wait for the current one to end.
ContinueAtOnce(s, o) ==
    IF s.pending_tools = {} /\ s.active_run # NoRun
    THEN RequestTurn(s, "WaitingForBackend", o) ELSE s

continue_after_tools(s, o) ==
    IF s.pending_tools = {} /\ ~s.backend_in_flight /\ s.active_run # NoRun
    THEN RequestTurn(s, "WaitingForBackend", o)
    ELSE s

-----------------------------------------------------------------------------
(***************************************************************************)
(* Starting a run (run_start.rs).                                          *)
(***************************************************************************)
\* Fault: a run starts on a transcript with open calls.
StartRunUnchecked(s, input, o) ==
    LET reset == ResetRun(TakePendingProfile(s))
        started == [reset EXCEPT !.messages = Append(@, UserMessage),
                                 !.status = "PreparingContext",
                                 !.active_run = reset.next_run,
                                 !.next_run = @ + 1]
    IN RequestTurn(started, "PreparingContext", o)

start_run(s, input, o) ==
    IF ~ValidTranscript(s.messages) \/ input \in Oversized
    THEN fail(s)
    ELSE LET reset == ResetRun(TakePendingProfile(s))
             started == [reset EXCEPT !.messages = Append(@, UserMessage),
                                      !.status = "PreparingContext",
                                      !.active_run = reset.next_run,
                                      !.next_run = @ + 1]
             Request(t) == RequestTurn(t, "PreparingContext", o)
             Announce(t) == With(t, <<Emit("RunStarted")>>)
         IN IfRunning(IfRunning(RunRules(started, "RunStart", o), Request), Announce)

start_or_queue(s, input, o) ==
    IF s.active_run # NoRun
    THEN [s EXCEPT !.queued_inputs = Append(@, input)]
    ELSE start_run(s, input, o)

\* Fault: the newest input is taken first.
StartLatestQueuedRun(s, o) ==
    IF s.queued_inputs = <<>> THEN s
    ELSE start_run([s EXCEPT !.queued_inputs = Front(@)], Last(s.queued_inputs), o)

start_next_queued_run(s, o) ==
    IF s.queued_inputs = <<>> THEN s
    ELSE start_run([s EXCEPT !.queued_inputs = Tail(@)], Head(s.queued_inputs), o)

-----------------------------------------------------------------------------
(***************************************************************************)
(* Tool results (tool_result.rs).                                          *)
(***************************************************************************)
TimedOutTooOften(s) == s.timeouts >= MAX_CONSECUTIVE_TOOL_TIMEOUTS

next_after_result(s, stop, o) ==
    IF stop THEN fail(s)
    ELSE IF TimedOutTooOften(s) THEN fail([s EXCEPT !.timeouts = 0])
    ELSE continue_after_tools(s, o)

\* `executed`: the call ran, so the post-tool rules see its outcome.
record_tool_result(s, c, executed, o) ==
    LET outcome == IF executed THEN evaluate(s, "PostToolUse", o) ELSE Quiet
        t == apply_rule_outcome(s, outcome)
        u == With([t EXCEPT !.messages = Append(@, ToolResultMessage(c, "recorded"))],
                  <<Emit("ToolCallCompleted")>>)
    IN next_after_result(u, outcome.stop, o)

Settle(s, c) == [s EXCEPT !.pending_tools = @ \ {c}, !.pending_permissions = @ \ {c}]

\* Fault: a success takes one timeout off the count instead of clearing it.
ToolCompletedCountingDown(s, c, o) ==
    IF c \notin s.pending_tools THEN s
    ELSE record_tool_result([Settle(s, c) EXCEPT !.timeouts = @ - 1], c, TRUE, o)

tool_completed(s, c, o) ==
    IF c \notin s.pending_tools THEN s
    ELSE record_tool_result([Settle(s, c) EXCEPT !.timeouts = 0], c, TRUE, o)

ToolErrors == {"Timeout", "ExecutionFailed", "Denied"}

tool_failed(s, c, error, o) ==
    IF c \notin s.pending_tools THEN s
    ELSE record_tool_result([Settle(s, c) EXCEPT !.timeouts = IF error = "Timeout" THEN @ + 1 ELSE 0],
                            c, error # "Denied", o)

-----------------------------------------------------------------------------
(***************************************************************************)
(* A tool call the model asks for (tool_request/).                         *)
(***************************************************************************)
Strictness == [Allow |-> 0, Ask |-> 1, Deny |-> 2]

\* CompiledProfile::permission: the stricter of the session's and the profile's.
permission(s, c) ==
    LET session == SessionMode[c]
        profile == ProfileMode[s.profile][c]
    IN IF Strictness[profile] > Strictness[session] THEN profile ELSE session

\* A rule may tighten to Ask or deny, and relax Ask to Allow, but not lift a denial.
approval_for(s, c, decision) ==
    LET mode == permission(s, c)
    IN CASE decision = "Deny" -> "Deny"
         [] decision = "Ask" /\ mode # "Deny" -> "Ask"
         [] decision = "Allow" /\ mode = "Ask" -> "Allow"
         [] OTHER -> mode

OutOfToolBudget(s) == s.final_turn \/ Reached(Limits[s.profile].max_tool_calls, s.tool_calls)

record_tool_request(s, c) ==
    With([s EXCEPT !.messages = push_tool_use(@, c), !.pending_tools = @ \cup {c}],
         <<Emit("ToolCallRequested")>>)

execute_now(s, c) ==
    With([s EXCEPT !.status = "Executing"], <<Emit("StateChanged"), ExecuteTool(c)>>)

ask_permission(s, c) ==
    With([s EXCEPT !.status = "WaitingForPermission", !.pending_permissions = @ \cup {c}],
         <<Emit("PermissionRequested")>>)

\* Everything after the rules have let the call through.
AdmitTo(s, c, mode, o) ==
    IF mode = "Deny" \/ OutOfToolBudget(s) THEN tool_failed(s, c, "Denied", o)
    ELSE LET counted == [s EXCEPT !.tool_calls = @ + 1]
         IN IF mode = "Ask" THEN ask_permission(counted, c) ELSE execute_now(counted, c)

tool_requested(s, c, o) ==
    LET recorded == record_tool_request(s, c)
        outcome == evaluate(s, "PreToolUse", o)
        ruled == apply_rule_outcome(recorded, outcome)
    IN IF SessionMode[c] = "NotOffered" \/ c \notin Scope[s.profile]
       THEN tool_failed(recorded, c, "Denied", o)
       ELSE IF outcome.stop THEN fail(tool_failed(ruled, c, "Denied", o))
       ELSE AdmitTo(ruled, c, approval_for(s, c, outcome.decision), o)

\* Fault: the prompt stays open after it was answered.
PermissionStaysOpen(s, c, approved, o) ==
    IF c \notin s.pending_permissions THEN s
    ELSE IF approved THEN execute_now(s, c) ELSE tool_failed(s, c, "Denied", o)

\* Fault: a call the user denied gets no result.
DenialForgotten(s, c, approved, o) ==
    IF c \notin s.pending_permissions THEN s
    ELSE IF approved THEN execute_now([s EXCEPT !.pending_permissions = @ \ {c}], c)
    ELSE Settle(s, c)

\* pending_permissions is keyed by the call: a call asks for permission once.
permission_resolved(s, c, approved, o) ==
    IF c \notin s.pending_permissions THEN s
    ELSE LET t == [s EXCEPT !.pending_permissions = @ \ {c}]
         IN IF c \notin t.pending_tools THEN t
            ELSE IF approved THEN execute_now(t, c)
            ELSE tool_failed(t, c, "Denied", o)

-----------------------------------------------------------------------------
(***************************************************************************)
(* Proposing an answer and the completion gate (completion/).              *)
(***************************************************************************)
send_answer_back(s, o) ==
    RequestTurn([s EXCEPT !.gate_continuations = @ + 1, !.messages = Append(@, UserMessage)],
                "WaitingForBackend", o)

gate_decided(s, failures, o) ==
    LET gate == Gate[s.profile]
        t == With(s, <<Emit("CompletionGateEvaluated")>>)
    IN IF failures = {} THEN finish_success(t)
       ELSE IF s.gate_continuations < gate.max_continuations /\ ~s.final_turn
       THEN send_answer_back(t, o)
       ELSE IF failures \subseteq gate.waived \/ gate.on_exhausted = "Accept"
       THEN finish_success(t)
       ELSE fail(t)

\* `failures`: the declarative checks that do not hold.
propose_completion(s, failures, o) ==
    LET gate == Gate[s.profile]
        t == [s EXCEPT !.gate_attempts = @ + 1]
    IN IF gate = NoGate THEN finish_success(s)
       ELSE IF failures # {} \/ gate.evaluators = {} THEN gate_decided(t, failures, o)
       ELSE With([t EXCEPT !.status = "Verifying"],
                 <<Emit("StateChanged"), EvaluateCompletion(t.active_run, t.gate_attempts, t.profile)>>)

\* Fault: the verdict's run is not compared.
VerdictOfAnyRun(s, r, attempt) == s.status = "Verifying" /\ s.gate_attempts = attempt

VerdictExpected(s, r, attempt) ==
    s.status = "Verifying" /\ s.active_run = r /\ s.gate_attempts = attempt

\* Fault: a verdict that finds something wrong is dropped.
RejectionDropped(s, r, attempt, failures, o) ==
    IF VerdictExpected(s, r, attempt) /\ failures = {} THEN gate_decided(s, failures, o) ELSE s

completion_evaluated(s, r, attempt, failures, o) ==
    IF VerdictExpected(s, r, attempt) /\ Gate[s.profile] # NoGate
    THEN gate_decided(s, failures, o) ELSE s

-----------------------------------------------------------------------------
(***************************************************************************)
(* Backend events (backend_events.rs).  An event of a run that is not the  *)
(* active one is ignored; nothing compares the request it belongs to.      *)
(***************************************************************************)
text_delta(s) ==
    With([s EXCEPT !.status = "Streaming", !.messages = append_assistant_text(@)],
         <<Emit("AssistantTextDelta")>>)

reasoning_delta(s) ==
    With([s EXCEPT !.messages = assistant_message_id(@)], <<Emit("ReasoningDelta")>>)

FinishReasons == {"tool_use", "end_turn", "max_tokens"}

completed(s, reason, failures, o) ==
    LET t == [s EXCEPT !.backend_in_flight = FALSE,
                       !.messages = discard_trailing_empty_assistant_message(@)]
    IN CASE reason = "max_tokens" -> fail(t)
         [] reason = "tool_use" -> continue_after_tools(t, o)
         [] OTHER -> propose_completion(t, failures, o)

-----------------------------------------------------------------------------
(***************************************************************************)
(* Cancel, pause, resume (control.rs).                                     *)
(***************************************************************************)
\* Fault: open prompts survive the cancellation.
CancelKeepingPrompts(s) ==
    IF s.status \in {"Idle", "Cancelled", "Failed"} /\ s.active_run = NoRun THEN s
    ELSE With([s EXCEPT !.status = "Cancelled", !.active_run = NoRun, !.backend_in_flight = FALSE,
                        !.pending_tools = {}, !.children = {}],
              <<CancelTools(s.pending_tools), CancelChildren(s.children), Emit("Completed")>>)

cancel(s) ==
    IF s.status \in {"Idle", "Cancelled", "Failed"} /\ s.active_run = NoRun THEN s
    ELSE With([s EXCEPT !.status = "Cancelled", !.active_run = NoRun,
                        !.backend_in_flight = FALSE, !.pending_tools = {},
                        !.pending_permissions = {}, !.children = {}],
              (IF s.active_run = NoRun THEN <<>> ELSE <<CancelBackend(s.active_run)>>)
              \o (IF s.active_run # NoRun /\ s.status = "Verifying"
                  THEN <<CancelEvaluation(s.active_run)>> ELSE <<>>)
              \o <<CancelTools(s.pending_tools), CancelChildren(s.children), Emit("Completed")>>)

pause(s) ==
    IF s.status \in {"Paused", "Cancelled", "Failed", "Verifying"} THEN s
    ELSE With([s EXCEPT !.status = "Paused"], <<Emit("StateChanged")>>)

resume(s) ==
    IF s.status # "Paused" THEN s
    ELSE IF s.active_run = NoRun
    THEN With([s EXCEPT !.status = "Idle"], <<Emit("StateChanged")>>)
    ELSE build_request(With([s EXCEPT !.status = "WaitingForBackend"], <<Emit("StateChanged")>>))

-----------------------------------------------------------------------------
(***************************************************************************)
(* Child agents (children.rs).                                             *)
(***************************************************************************)
child_spawned(s, k, awaiting) ==
    LET t == [s EXCEPT !.children = @ \cup {k}]
    IN IF ~awaiting \/ s.status = "WaitingForChildren" THEN t
       ELSE With([t EXCEPT !.status = "WaitingForChildren"], <<Emit("StateChanged")>>)

\* child_completed and child_failed change the state in the same way.
child_ended(s, k) ==
    LET t == [s EXCEPT !.children = @ \ {k}]
        idle == t.children = {} /\ t.status = "WaitingForChildren"
    IN With([t EXCEPT !.status = IF idle THEN "Idle" ELSE @], <<Emit("ChildAgentCompleted")>>)
=============================================================================

---------------------------- MODULE AgentRunner -----------------------------
(***************************************************************************)
(* One agent at run time: the mailbox loop of AgentRunner, which applies a *)
(* command to the reducer (module Agent) and carries out the effects, and  *)
(* the work that runs beside the loop and reports back through the         *)
(* mailbox: model requests, tool calls, gate evaluations, child agents.    *)
(*                                                                         *)
(* Sources: crates/runtime/src/agent_runner.rs and agent_runner/*.rs,      *)
(*          crates/runtime/src/agent_supervisor/{spawn,children}.rs,       *)
(*          crates/runtime/src/session_runtime/commands.rs.                *)
(*                                                                         *)
(* The mailbox is not a variable.  A command a task has sent and the loop  *)
(* has not received yet is the report that task can still make: cancelling *)
(* the task does not take it back, and reports of different tasks arrive   *)
(* in any order.                                                           *)
(***************************************************************************)
EXTENDS Agent

CONSTANTS
    SpawnCalls,     \* the calls whose tool is agent.spawn
    LongLived,      \* AgentRunner::long_lived
    StrictCommits,  \* a commit of an event may fail, which is fatal
    HostCommands,   \* the commands the host gives, besides inputs and answers
    MaxControls     \* bound on how many of those it gives

Commands == {"Cancel", "Pause", "Resume", "SetBehaviorProfile", "SpawnChild",
             "CancelSession", "CloseMailbox"}

ASSUME RunnerAssumption ==
    /\ SpawnCalls \subseteq ToolCalls
    /\ LongLived \in BOOLEAN /\ StrictCommits \in BOOLEAN
    /\ HostCommands \subseteq Commands
    /\ MaxControls \in Nat

VARIABLES
    agent,       \* Agent: the reducer's state
    requests,    \* the backend requests whose tasks have not ended
    tools,       \* [ToolCalls -> ToolStates]: the task of each call
    evaluations, \* the gate evaluations whose tasks have not ended
    kids,        \* [Children -> KidStates]
    loop,        \* where the mailbox loop stands
    shutdown,    \* the runner's own CancellationToken has fired
    unsent,      \* the inputs the host has not sent yet
    controls,    \* host commands given so far
    approved,    \* history: the calls a user approved
    starts,      \* history: how often each call was put in execution
    stranded,    \* history: the calls dropped while pending
    asked        \* history: the requests made for the latest run

tasks == <<requests, tools, evaluations, kids>>
history == <<approved, starts, stranded, asked>>
vars == <<agent, tasks, loop, shutdown, unsent, controls, history>>

\* "held": the run's entry in the token table cancels this task; "lost": a later
\* task of the run took the entry.
Tokens == {"held", "lost", "cancelled"}
ToolStates == {"none", "running", "refused", "cancelled", "ended"}
KidStates == {"unused", "running", "cancelled", "ended", "lost", "gone"}
RequestTasks == [id: Nat, run: Nat, called: BOOLEAN, token: Tokens]
EvaluationTasks == [run: Nat, attempt: Nat, profile: Profiles, token: Tokens]

NoChild == "no child"
Loop(at, call, child, fatal) == [at |-> at, call |-> call, child |-> child, fatal |-> fatal]
LoopStates == [at: {"ready", "spawning", "awaiting", "stopped"}, call: ToolCalls \cup {NoCall},
               child: Children \cup {NoChild}, fatal: BOOLEAN]
Ready == Loop("ready", NoCall, NoChild, FALSE)
\* A commit was refused and the loop has not looked at fatal_error yet.
Doomed == Loop("ready", NoCall, NoChild, TRUE)
Ended(fatal) == Loop("stopped", NoCall, NoChild, fatal)

Init ==
    /\ agent = NewAgent
    /\ requests = {} /\ evaluations = {}
    /\ tools = [c \in ToolCalls |-> "none"]
    /\ kids = [k \in Children |-> "unused"]
    /\ loop = Ready
    /\ shutdown = FALSE
    /\ unsent = Inputs
    /\ controls = 0
    /\ approved = {} /\ stranded = {} /\ asked = 0
    /\ starts = [c \in ToolCalls |-> 0]

-----------------------------------------------------------------------------
(***************************************************************************)
(* Carrying out a set E of effects (dispatch.rs and the files it routes    *)
(* to) on the tasks w that are there.                                      *)
(***************************************************************************)
Tasks == [requests |-> requests, tools |-> tools, evaluations |-> evaluations, kids |-> kids]

EffectsIn(seq) == {seq[i] : i \in 1..Len(seq)}

OfKind(E, kind) == {e \in E : e.kind = kind}

Cancelled(token) == IF token = "held" THEN "cancelled" ELSE token

\* A task's token is a child of the runner's.
NewToken == IF shutdown THEN "cancelled" ELSE "held"

\* execute_backend replaces the run's token; CancelBackend takes and cancels it.
execute_backend(w, E) ==
    LET new == OfKind(E, "ExecuteBackend")
        Token(q) == IF CancelBackend(q.run) \in E THEN Cancelled(q.token)
                    ELSE IF q.token = "held" /\ (\E e \in new : e.run = q.run)
                    THEN "lost" ELSE q.token
    IN {[q EXCEPT !.token = Token(q)] : q \in w.requests}
       \cup {[id |-> e.id, run |-> e.run, called |-> FALSE, token |-> NewToken] : e \in new}

Executed(E) == {e.call : e \in OfKind(E, "ExecuteTool")}

Dropped(E) == UNION {e.calls : e \in OfKind(E, "CancelTools")}

\* PermissionPolicy::evaluate: a tool that is missing or disabled is denied.
PermissionPolicy(c) ==
    CASE SessionMode[c] = "Allow" -> "Allow"
      [] SessionMode[c] = "Ask" -> "RequiresApproval"
      [] OTHER -> "Denied"

\* The session's grant is checked again before the call runs.
tool_call_permitted(a, c) ==
    \/ PermissionPolicy(c) = "Allow"
    \/ /\ PermissionPolicy(c) = "RequiresApproval"
       /\ c \in a.pending_tools /\ c \notin a.pending_permissions

\* agent.spawn has no task of its own: the loop runs it.  A call that is not permitted
\* is answered with a failure, through the mailbox.
execute_tool(a, w, E) ==
    [c \in ToolCalls |->
        IF c \in Executed(E)
        THEN IF ~tool_call_permitted(a, c) THEN "refused"
             ELSE IF c \in SpawnCalls THEN "ended"
             ELSE IF shutdown THEN "cancelled" ELSE "running"
        ELSE IF c \in Dropped(E) /\ w.tools[c] = "running" THEN "cancelled" ELSE w.tools[c]]

\* A new evaluation of a run cancels the previous one.
evaluate_completion(w, E) ==
    LET new == OfKind(E, "EvaluateCompletion")
        Ends(v) == CancelEvaluation(v.run) \in E \/ \E e \in new : e.run = v.run
    IN {[v EXCEPT !.token = IF Ends(v) THEN Cancelled(@) ELSE @] : v \in w.evaluations}
       \cup {[run |-> e.run, attempt |-> e.attempt, profile |-> e.profile, token |-> NewToken] :
                 e \in new}

cancel_child(w, E) ==
    LET cancelled == UNION {e.children : e \in OfKind(E, "CancelChildren")}
    IN [k \in Children |->
          IF k \in cancelled /\ w.kids[k] = "running" THEN "cancelled" ELSE w.kids[k]]

\* What the effects do to the tasks and to the history, when none of them fails.
dispatch_effects(a, w, E) ==
    /\ agent' = [a EXCEPT !.fx = <<>>]
    /\ requests' = execute_backend(w, E)
    /\ tools' = execute_tool(a, w, E)
    /\ evaluations' = evaluate_completion(w, E)
    /\ kids' = cancel_child(w, E)
    /\ starts' = [c \in ToolCalls |-> starts[c] + (IF c \in Executed(E) THEN 1 ELSE 0)]
    /\ stranded' = stranded \cup Dropped(E)
    /\ asked' = (IF a.next_run = agent.next_run THEN asked ELSE 0)
                + Cardinality(OfKind(E, "ExecuteBackend"))

\* Fault: the calls in execution are left running.
FailLeavingTools(a, w, E) ==
    /\ agent' = [a EXCEPT !.fx = <<>>, !.status = "Failed", !.active_run = NoRun,
                          !.pending_tools = {}, !.pending_permissions = {}]
    /\ requests' = {[q EXCEPT !.token = Cancelled(@)] : q \in execute_backend(w, E)}
    /\ tools' = execute_tool(a, w, E)
    /\ evaluations' = evaluate_completion(w, E)
    /\ kids' = cancel_child(w, E)
    /\ starts' = [c \in ToolCalls |-> starts[c] + (IF c \in Executed(E) THEN 1 ELSE 0)]
    /\ stranded' = stranded \cup Dropped(EffectsIn(a.fx)) \cup a.pending_tools
    /\ asked' = (IF a.next_run = agent.next_run THEN asked ELSE 0)
                + Cardinality(OfKind(E, "ExecuteBackend"))

\* fail_fatally: a commit was refused after the effects E.  Evaluations and children go on.
fail_fatally(a, w, E) ==
    /\ agent' = [a EXCEPT !.fx = <<>>, !.status = "Failed", !.active_run = NoRun,
                          !.pending_tools = {}, !.pending_permissions = {}]
    /\ requests' = {[q EXCEPT !.token = Cancelled(@)] : q \in execute_backend(w, E)}
    /\ tools' = [c \in ToolCalls |-> IF execute_tool(a, w, E)[c] = "running" THEN "cancelled"
                                     ELSE execute_tool(a, w, E)[c]]
    /\ evaluations' = evaluate_completion(w, E)
    /\ kids' = cancel_child(w, E)
    /\ starts' = [c \in ToolCalls |-> starts[c] + (IF c \in Executed(E) THEN 1 ELSE 0)]
    /\ stranded' = stranded \cup Dropped(EffectsIn(a.fx)) \cup a.pending_tools
    /\ asked' = (IF a.next_run = agent.next_run THEN asked ELSE 0)
                + Cardinality(OfKind(E, "ExecuteBackend"))

(***************************************************************************)
(* The effects of reducing to a, and then on to b, are carried out in      *)
(* order; the loop goes to l.  When the commit of an emitted event fails   *)
(* (a request may have to emit one before it starts) the effects after it  *)
(* are skipped and the loop goes to `broken`; but handle_command does not  *)
(* look at fatal_error after it has started the next queued run (b), and   *)
(* takes one more command.                                                 *)
(***************************************************************************)
Dispatch(a, b, w, l, broken) ==
    \/ /\ dispatch_effects(b, w, EffectsIn(b.fx))
       /\ loop' = l
    \/ /\ StrictCommits
       /\ \E n \in 1..Len(b.fx) :
            /\ b.fx[n].kind \in {"Emit", "ExecuteBackend"}
            /\ fail_fatally(IF n <= Len(a.fx) THEN a ELSE b, w, EffectsIn(SubSeq(b.fx, 1, n - 1)))
            /\ loop' = IF n > Len(a.fx) /\ loop.at = "ready" THEN Doomed ELSE broken

\* The loop runs agent.spawn and SpawnChild itself and takes no command meanwhile.
NextLoop(E) ==
    IF SpawnAgent \in E THEN Loop("spawning", NoCall, NoChild, loop.fatal)
    ELSE IF Executed(E) \cap SpawnCalls # {}
    THEN Loop("spawning", CHOOSE c \in Executed(E) \cap SpawnCalls : TRUE, NoChild, loop.fatal)
    ELSE IF loop.fatal \/ (FinishRun \in E /\ ~LongLived) THEN Ended(loop.fatal) ELSE Ready

\* handle_command, once the command has been reduced to a.
handle_command(reduced, w, o) ==
    \E a \in {reduced} :
      \E b \in {IF LongLived /\ ~loop.fatal /\ FinishRun \in EffectsIn(a.fx)
                THEN start_next_queued_run(a, o) ELSE a} :
        Dispatch(a, b, w, NextLoop(EffectsIn(b.fx)), Ended(TRUE))

Receiving == loop.at = "ready" /\ ~shutdown

\* What rules may decide while one command is reduced.
Oracles == {o \in [RuleEvents -> (UNION {Rules[p][e] : p \in Profiles, e \in RuleEvents}) \cup {Quiet}] :
              \A e \in RuleEvents : o[e] \in (UNION {Rules[p][e] : p \in Profiles}) \cup {Quiet}}

-----------------------------------------------------------------------------
(***************************************************************************)
(* The host: inputs, answers, controls (session_runtime/commands.rs).      *)
(***************************************************************************)
Submit(i, o) ==
    /\ Receiving /\ i \in unsent
    /\ unsent' = unsent \ {i}
    /\ handle_command(start_or_queue(agent, i, o), Tasks, o)
    /\ UNCHANGED <<shutdown, controls, approved>>

\* An answer may come late or twice: then permission_resolved ignores it.
ResolvePermission(c, yes, o) ==
    /\ Receiving
    /\ handle_command(permission_resolved(agent, c, yes, o), Tasks, o)
    /\ approved' = IF yes /\ c \in agent.pending_permissions THEN approved \cup {c} ELSE approved
    /\ UNCHANGED <<shutdown, unsent, controls>>

Control(command) ==
    /\ command \in HostCommands /\ controls < MaxControls
    /\ controls' = controls + 1

HostCommand(a, o) ==
    /\ Receiving
    /\ handle_command(a, Tasks, o)
    /\ UNCHANGED <<shutdown, unsent, approved>>

Cancel(o) == Control("Cancel") /\ HostCommand(cancel(agent), o)
Pause(o) == Control("Pause") /\ HostCommand(pause(agent), o)
Resume(o) == Control("Resume") /\ HostCommand(resume(agent), o)
SetBehaviorProfile(p, o) ==
    Control("SetBehaviorProfile") /\ HostCommand(set_behavior_profile(agent, p), o)
SpawnChild(o) == Control("SpawnChild") /\ HostCommand(With(agent, <<SpawnAgent>>), o)

\* The session's token fires: every token below it is cancelled with it.
CancelSession ==
    /\ Control("CancelSession") /\ ~shutdown
    /\ shutdown' = TRUE
    /\ requests' = {[q EXCEPT !.token = "cancelled"] : q \in requests}
    /\ evaluations' = {[v EXCEPT !.token = "cancelled"] : v \in evaluations}
    /\ tools' = [c \in ToolCalls |-> IF tools[c] = "running" THEN "cancelled" ELSE tools[c]]
    /\ kids' = [k \in Children |-> IF kids[k] = "running" THEN "cancelled" ELSE kids[k]]
    /\ UNCHANGED <<agent, loop, unsent, history>>

\* cancel_run: the loop sees the token when it next turns, and stops.
StopOnCancel ==
    /\ loop.at = "ready" /\ shutdown
    /\ LET a == IF agent.status \in {"Cancelled", "Failed"} THEN agent ELSE cancel(agent)
       IN Dispatch(a, a, Tasks, Ended(loop.fatal), Ended(TRUE))
    /\ UNCHANGED <<shutdown, unsent, controls, approved>>

\* The host is gone and no task is left that could send a command.
CloseMailbox ==
    /\ Control("CloseMailbox") /\ loop.at = "ready"
    /\ requests = {} /\ evaluations = {}
    /\ \A c \in ToolCalls : tools[c] \in {"none", "ended"}
    /\ \A k \in Children : kids[k] \in {"unused", "lost", "gone"}
    /\ loop' = Ended(loop.fatal)
    /\ UNCHANGED <<agent, tasks, shutdown, unsent, history>>

-----------------------------------------------------------------------------
(***************************************************************************)
(* A backend request (backend_run.rs): the driver relays what the model    *)
(* streams and exactly one terminal event, then the task is over.          *)
(***************************************************************************)
BackendEvent(q, react, rest, o) ==
    /\ Receiving
    /\ handle_command(IF agent.active_run = q.run THEN react ELSE agent,
                      [Tasks EXCEPT !.requests = (@ \ {q}) \cup rest], o)
    /\ UNCHANGED <<shutdown, unsent, controls, approved>>

TextDelta(q, o) == BackendEvent(q, text_delta(agent), {q}, o)

ReasoningDelta(q, o) == BackendEvent(q, reasoning_delta(agent), {q}, o)

\* The model names its calls apart, and its tools end the response with "tool_use".
ToolCallRequested(q, c, o) ==
    /\ c \notin CallsIn(agent.messages)
    /\ BackendEvent(q, tool_requested(agent, c, o), {[q EXCEPT !.called = TRUE]}, o)

Completed(q, reason, failures, o) ==
    /\ reason = "tool_use" => q.called
    /\ reason = "end_turn" => ~q.called
    /\ BackendEvent(q, completed(agent, reason, failures, o), {}, o)

BackendError(q, o) == BackendEvent(q, fail(agent), {}, o)

\* A task that was cancelled while it waited for capacity says nothing; after the loop
\* has stopped nobody hears it.
RequestVanishes(q) ==
    /\ q.token = "cancelled" \/ loop.at = "stopped"
    /\ requests' = requests \ {q}
    /\ UNCHANGED <<agent, tools, evaluations, kids, loop, shutdown, unsent, controls, history>>

-----------------------------------------------------------------------------
(***************************************************************************)
(* A tool call (tool_run.rs) and an evaluation of the gate (completion.rs).*)
(***************************************************************************)
ToolLives(c) == tools[c] \in {"running", "refused", "cancelled"}

ToolReports(c, outcome, o) ==
    /\ Receiving /\ ToolLives(c)
    /\ tools[c] = "refused" => outcome = "Denied"
    /\ handle_command(IF outcome = "Completed" THEN tool_completed(agent, c, o)
                      ELSE tool_failed(agent, c, outcome, o),
                      [Tasks EXCEPT !.tools[c] = "ended"], o)
    /\ UNCHANGED <<shutdown, unsent, controls, approved>>

ToolVanishes(c) ==
    /\ tools[c] = "cancelled" \/ (loop.at = "stopped" /\ tools[c] = "running")
    /\ tools' = [tools EXCEPT ![c] = "ended"]
    /\ UNCHANGED <<agent, requests, evaluations, kids, loop, shutdown, unsent, controls, history>>

EvaluationReports(v, failures, o) ==
    /\ Receiving
    /\ handle_command(completion_evaluated(agent, v.run, v.attempt, failures, o),
                      [Tasks EXCEPT !.evaluations = @ \ {v}], o)
    /\ UNCHANGED <<shutdown, unsent, controls, approved>>

EvaluationVanishes(v) ==
    /\ v.token = "cancelled" \/ loop.at = "stopped"
    /\ evaluations' = evaluations \ {v}
    /\ UNCHANGED <<agent, requests, tools, kids, loop, shutdown, unsent, controls, history>>

-----------------------------------------------------------------------------
(***************************************************************************)
(* Children (spawning.rs, agent_supervisor).  The loop stands still while  *)
(* a child is spawned and, for an awaited one, until its task has ended.   *)
(* What these inline dispatches report about the run is not looked at.     *)
(***************************************************************************)
AfterSpawn == IF loop.fatal THEN Ended(TRUE) ELSE Ready

\* execute_spawn_tool answers its call; a SpawnChild command has none.
AnswerSpawnCall(a, o) == IF loop.call = NoCall THEN a ELSE tool_completed(a, loop.call, o)

\* Fault: a refused spawn leaves its call unanswered.
SpawnRefusedSilently(o) ==
    /\ loop.at = "spawning"
    /\ Dispatch(agent, agent, Tasks, AfterSpawn, Ended(TRUE))
    /\ UNCHANGED <<shutdown, unsent, controls, approved>>

SpawnRefused(o) ==
    /\ loop.at = "spawning"
    /\ LET a == AnswerSpawnCall(agent, o) IN Dispatch(a, a, Tasks, AfterSpawn, Ended(TRUE))
    /\ UNCHANGED <<shutdown, unsent, controls, approved>>

SpawnAdmitted(k, awaiting, o) ==
    /\ loop.at = "spawning" /\ kids[k] = "unused"
    /\ LET a == child_spawned(agent, k, awaiting)
           w == [Tasks EXCEPT !.kids[k] = IF shutdown THEN "cancelled" ELSE "running"]
           Awaiting(fatal) == Loop("awaiting", loop.call, k, fatal)
           b == AnswerSpawnCall(a, o)
       IN IF awaiting THEN Dispatch(a, a, w, Awaiting(loop.fatal), Awaiting(TRUE))
          ELSE Dispatch(a, b, w, AfterSpawn, Ended(TRUE))
    /\ UNCHANGED <<shutdown, unsent, controls, approved>>

\* run_child: the child's loop ended and its terminal command is in the mailbox.
ChildEnds(k) ==
    /\ kids[k] \in {"running", "cancelled"}
    /\ kids' = [kids EXCEPT ![k] = "ended"]
    /\ UNCHANGED <<agent, requests, tools, evaluations, loop, shutdown, unsent, controls, history>>

\* The child's task died before it could report.
ChildDies(k) ==
    /\ kids[k] \in {"running", "cancelled"}
    /\ kids' = [kids EXCEPT ![k] = "lost"]
    /\ UNCHANGED <<agent, requests, tools, evaluations, loop, shutdown, unsent, controls, history>>

\* Fault: a child that died without reporting is waited for.
AwaitReport(o) ==
    /\ loop.at = "awaiting" /\ kids[loop.child] = "ended"
    /\ LET b == AnswerSpawnCall(agent, o) IN Dispatch(agent, b, Tasks, AfterSpawn, Ended(TRUE))
    /\ UNCHANGED <<shutdown, unsent, controls, approved>>

await_child(o) ==
    /\ loop.at = "awaiting" /\ kids[loop.child] \in {"ended", "lost"}
    /\ LET a == IF kids[loop.child] = "lost" THEN child_ended(agent, loop.child) ELSE agent
           b == AnswerSpawnCall(a, o)
       IN Dispatch(a, b, Tasks, AfterSpawn, Ended(TRUE))
    /\ UNCHANGED <<shutdown, unsent, controls, approved>>

ChildReported(k, o) ==
    /\ Receiving /\ kids[k] = "ended"
    /\ handle_command(child_ended(agent, k), [Tasks EXCEPT !.kids[k] = "gone"], o)
    /\ UNCHANGED <<shutdown, unsent, controls, approved>>

-----------------------------------------------------------------------------
GateChecks(p) == IF Gate[p] = NoGate THEN {} ELSE Gate[p].checks
GateEvaluators(p) == IF Gate[p] = NoGate THEN {} ELSE Gate[p].evaluators

HostStep(o) ==
    \/ \E i \in unsent : Submit(i, o)
    \/ Cancel(o) \/ Pause(o) \/ Resume(o) \/ SpawnChild(o)
    \/ \E p \in Profiles : SetBehaviorProfile(p, o)

RequestEnds(q, o) ==
    \/ \E reason \in FinishReasons, failures \in SUBSET GateChecks(agent.profile) :
         Completed(q, reason, failures, o)
    \/ BackendError(q, o)

RequestStreams(q, o) ==
    \/ TextDelta(q, o) \/ ReasoningDelta(q, o)
    \/ \E c \in ToolCalls : ToolCallRequested(q, c, o)

ToolEnds(c, o) ==
    \E outcome \in {"Completed"} \cup ToolErrors : ToolReports(c, outcome, o)

EvaluationEnds(v, o) ==
    \E failures \in SUBSET GateEvaluators(agent.profile) : EvaluationReports(v, failures, o)

Next ==
    \/ \E o \in Oracles :
         \/ HostStep(o)
         \/ \E c \in ToolCalls, yes \in BOOLEAN : ResolvePermission(c, yes, o)
         \/ \E q \in requests : RequestStreams(q, o) \/ RequestEnds(q, o)
         \/ \E c \in ToolCalls : ToolEnds(c, o)
         \/ \E v \in evaluations : EvaluationEnds(v, o)
         \/ SpawnRefused(o) \/ await_child(o)
         \/ \E k \in Children, awaiting \in BOOLEAN : SpawnAdmitted(k, awaiting, o)
         \/ \E k \in Children : ChildReported(k, o)
    \/ \E q \in requests : RequestVanishes(q)
    \/ \E c \in ToolCalls : ToolVanishes(c)
    \/ \E v \in evaluations : EvaluationVanishes(v)
    \/ \E k \in Children : ChildEnds(k) \/ ChildDies(k)
    \/ CancelSession \/ StopOnCancel \/ CloseMailbox

Spec == Init /\ [][Next]_vars

-----------------------------------------------------------------------------
(***************************************************************************)
(* Reducing a command and carrying out its effects leaves every field and  *)
(* every task well typed, and no effect behind.                            *)
(***************************************************************************)
TypeOK ==
    /\ agent \in AgentStates /\ agent.fx = <<>>
    /\ requests \subseteq RequestTasks /\ evaluations \subseteq EvaluationTasks
    /\ tools \in [ToolCalls -> ToolStates]
    /\ kids \in [Children -> KidStates]
    /\ loop \in LoopStates
    /\ shutdown \in BOOLEAN /\ unsent \subseteq Inputs /\ controls \in 0..MaxControls
    /\ approved \subseteq ToolCalls /\ stranded \subseteq ToolCalls
    /\ starts \in [ToolCalls -> Nat] /\ asked \in Nat

Active == agent.active_run # NoRun

\* The requests that still answer the active run.
Answering == {q \in requests : Active /\ q.run = agent.active_run}

(***************************************************************************)
(* Every call in the transcript has its result there, is still pending, or *)
(* was dropped by a cancellation or by a fatal commit failure: no report,  *)
(* refusal or failed run loses a call or answers one that is not open.     *)
(***************************************************************************)
CallsAccountedFor == Unresolved(agent.messages) = agent.pending_tools \cup stranded

(***************************************************************************)
(* However results, deltas, refusals and follow-ups interleave, the        *)
(* recorded transcript never holds a result without its call before it,    *)
(* nor a user message between a call and its result.                       *)
(***************************************************************************)
TranscriptIsSound == validate_transcript(agent.messages) \in {"None", "UnresolvedToolCall"}

(***************************************************************************)
(* A prompt that is open belongs to a pending call that has not started,   *)
(* so that no answer can start a call twice or start one that is over.     *)
(***************************************************************************)
PromptsAreForWaitingCalls ==
    \A c \in agent.pending_permissions : c \in agent.pending_tools /\ tools[c] = "none"

RuleMayAllow == \E p \in Profiles : \E outcome \in Rules[p]["PreToolUse"] : outcome.decision = "Allow"

(***************************************************************************)
(* A call runs at most once; one the session wants asked about runs only   *)
(* after the user said yes (or a rule relaxed it), one it denies or does   *)
(* not offer never runs; the check in execute_tool agrees with the         *)
(* reducer's.                                                              *)
(***************************************************************************)
CallsRunAsGranted ==
    \A c \in ToolCalls :
        /\ starts[c] <= 1 /\ tools[c] # "refused"
        /\ starts[c] = 1 => \/ SessionMode[c] = "Allow"
                           \/ /\ SessionMode[c] = "Ask"
                              /\ c \in approved \/ RuleMayAllow

CallIsDriven(c) == ToolLives(c) \/ c \in agent.pending_permissions \/ loop.call = c

(***************************************************************************)
(* While the loop is turning, a run, paused or not, has something that     *)
(* will move it: a request that answers it, the evaluation it waits for,   *)
(* or a pending call; and each pending call has its task, the loop itself, *)
(* or an open prompt.                                                      *)
(***************************************************************************)
RunIsDriven ==
    (loop.at # "stopped" /\ ~shutdown) =>
        /\ Active => \/ Answering # {}
                     \/ agent.pending_tools # {}
                     \/ \E v \in evaluations : VerdictExpected(agent, v.run, v.attempt)
        /\ \A c \in agent.pending_tools : CallIsDriven(c)

(***************************************************************************)
(* While the loop is turning, backend_in_flight says whether a request of  *)
(* the active run is out, and there is never more than one:                *)
(* continue_after_tools relies on it.                                      *)
(***************************************************************************)
InFlightIsTruthful ==
    (Active /\ ~shutdown /\ loop.at # "stopped") =>
        /\ agent.backend_in_flight <=> Answering # {}
        /\ Cardinality(Answering) <= 1

MostRequests(p) == Limits[p].max_turns + FINAL_TURN_GRACE

(***************************************************************************)
(* A run asks the model at most max_turns times and FINAL_TURN_GRACE more, *)
(* for each profile it runs under, whatever the gate and the tools do.     *)
(***************************************************************************)
RequestsBounded ==
    (\A p \in Profiles : Limits[p].max_turns # Unlimited) =>
        \E p \in Profiles : asked <= (agent.switches + 1) * MostRequests(p)

(***************************************************************************)
(* A verdict the reducer would act on is that of the evaluation that is    *)
(* still wanted: gate_attempts tells it from those of earlier answers.     *)
(***************************************************************************)
OnlyCurrentVerdictCounts ==
    \A v \in evaluations :
        VerdictExpected(agent, v.run, v.attempt) => v.token = "held" \/ shutdown

(***************************************************************************)
(* When a long-lived loop has stopped (mailbox closed, session cancelled,  *)
(* commit refused) no request or call of it is left running uncancelled,   *)
(* but for the request of a run that was still started after a refused     *)
(* commit (see RefusedCommitIsFinal).                                      *)
(***************************************************************************)
NoWorkOutlivesTheLoop ==
    (LongLived /\ loop.at = "stopped") =>
        /\ \A q \in requests : q.token = "cancelled" \/ (loop.fatal /\ q.run = agent.active_run)
        /\ \A c \in ToolCalls : tools[c] # "running"

RunStarts == agent'.next_run > agent.next_run

(***************************************************************************)
(* Inputs that wait are consumed in the order given: they enter at the     *)
(* tail of queued_inputs and leave one by one from its head, none is lost, *)
(* and the run that follows the active one takes the oldest.  (An input    *)
(* that comes when no run is active starts at once, also when others are   *)
(* still queued.)                                                          *)
(***************************************************************************)
InputsServedInOrder ==
    [][LET queue == agent.queued_inputs
           served == queue # <<>> /\ agent'.queued_inputs = Tail(queue)
       IN /\ \/ agent'.queued_inputs = queue \/ served
             \/ \E i \in unsent \ unsent' : agent'.queued_inputs = Append(queue, i)
          /\ RunStarts /\ Active => served]_vars

(***************************************************************************)
(* After a Cancel the agent can serve the queued and the next prompts: the *)
(* transcript it leaves is one that start_run accepts.                     *)
(***************************************************************************)
CancelKeepsAgentUsable == agent.status = "Cancelled" => ValidTranscript(agent.messages)

(***************************************************************************)
(* A runner that stops because a commit was refused leaves the agent       *)
(* failed and without a run.                                               *)
(***************************************************************************)
RefusedCommitIsFinal ==
    (loop.at = "stopped" /\ loop.fatal) => agent.status = "Failed" /\ ~Active

(***************************************************************************)
(* No inference is dispatched for a run while one of it is still out.      *)
(***************************************************************************)
OneInferenceAtATime == Cardinality(Answering) <= 1

(***************************************************************************)
(* A runner that is not long-lived stops as soon as its run has finished.  *)
(***************************************************************************)
OneShotStops == (~LongLived /\ agent.runs > 0) => loop.at = "stopped"

-----------------------------------------------------------------------------
(***************************************************************************)
(* Fairness.  Work that was started ends: a request has an inactivity      *)
(* timeout, a call a deadline, an evaluation is bounded, a cancelled task  *)
(* goes away, and a loop that is not waiting takes what is in its mailbox. *)
(* It is enough that some such step is taken while there is one to take:   *)
(* each uses up a task, so no task can wait behind the others for ever.    *)
(***************************************************************************)
WorkEnds ==
    \/ \E o \in Oracles :
         \/ \E q \in requests : RequestEnds(q, o)
         \/ \E c \in ToolCalls : ToolEnds(c, o)
         \/ \E v \in evaluations : EvaluationEnds(v, o)
         \/ SpawnRefused(o) \/ await_child(o)
    \/ \E q \in requests : RequestVanishes(q)
    \/ \E c \in ToolCalls : ToolVanishes(c)
    \/ \E v \in evaluations : EvaluationVanishes(v)
    \/ \E k \in Children : ChildEnds(k)
    \/ StopOnCancel

FairSpec == Spec /\ WF_vars(WorkEnds)

(***************************************************************************)
(* Every run ends, or waits for the user's answer to a prompt: limits,     *)
(* gate, rules, switches and failures never leave an agent working on one  *)
(* run for ever.                                                           *)
(***************************************************************************)
RunEnds == Active ~> ~Active \/ agent.pending_permissions # {}

(***************************************************************************)
(* Inputs queued behind a run are all taken in the end.                    *)
(***************************************************************************)
QueueDrains == (agent.queued_inputs # <<>>) ~> (agent.queued_inputs = <<>>)

(***************************************************************************)
(* Cancelling the session stops the loop, wherever it waits, and all the   *)
(* work it had started goes away.                                          *)
(***************************************************************************)
ShutdownDrains ==
    shutdown ~> /\ loop.at = "stopped"
                /\ requests = {} /\ evaluations = {}
                /\ \A c \in ToolCalls : ~ToolLives(c)
                /\ \A k \in Children : kids[k] \notin {"running", "cancelled"}
=============================================================================

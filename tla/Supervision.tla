---------------------------- MODULE Supervision ----------------------------
(***************************************************************************)
(* AgentSupervisor and the scheduler's agent permits: the tree of runners  *)
(* of a session.  Every agent but the root is a task that holds a permit   *)
(* for its whole life, drains a bounded mailbox and, when its loop ends,   *)
(* reports to its parent's mailbox.  A parent spawns from inside its own   *)
(* loop: while it waits for a permit or for a child it handles nothing.    *)
(* A step is what one task does between two awaits.  What a command does   *)
(* to the agent itself is AgentRunner's subject; here it is a choice.      *)
(***************************************************************************)
EXTENDS Naturals, Sequences, FiniteSets

CONSTANTS
    MaxAgents,          \* bound: children spawned over the session's life
    MaxInputs,          \* bound: commands from hosts, backends and tools
    Mortal,             \* bound: the children whose task may panic
    max_active_agents,  \* SchedulerConfig
    command_capacity,   \* AgentTask::new: size of a mailbox
    RootBudget,         \* the root's AgentBudget
    Budgets,            \* budgets a spawn may ask for
    Unlimited,          \* a limit a budget does not set
    Other,              \* a command that is not a child's end
    Session             \* the session's root token

Root == 0
Children == 1..MaxAgents
Agents == 0..MaxAgents
Limits == Nat \cup {Unlimited}

ASSUME BoundsAssumption ==
    MaxAgents \in Nat /\ MaxInputs \in Nat /\ Mortal \subseteq Children

ASSUME ConfigAssumption ==
    /\ max_active_agents \in Nat
    /\ command_capacity \in Nat \ {0}
    /\ RootBudget \in [max_children : Limits, max_depth : Limits]
    /\ Budgets \subseteq [max_children : Limits, max_depth : Limits]

ASSUME NamesAssumption == Other \notin Children

VARIABLES
    loop,           \* where each agent's task stands
    agent,          \* parent, depth, budget and spawn mode, see Unborn
    lineage,        \* the tokens an agent's token derives from, itself included
    spec,           \* the spawn a parent is busy with
    available,      \* permits left in the scheduler's agent semaphore
    agents,         \* AgentSupervisor.agents
    children_of,    \* AgentSupervisor.children_of
    agent_tokens,   \* AgentSupervisor.agent_tokens
    state_children, \* AgentState.children
    cancelled,      \* tokens on which cancel was called
    mailbox,        \* commands waiting for each agent
    reports,        \* history: times a child's end was applied to its parent
    inputs          \* commands hosts, backends and tools may still send

supervisor == <<agents, children_of, agent_tokens>>
vars == <<loop, agent, lineage, spec, available, supervisor, state_children,
          cancelled, mailbox, reports, inputs>>

Modes == {"AwaitResult", "Concurrent"}
Loops == {"unborn", "running", "spawning", "building", "joining", "awaiting",
          "reporting", "cleaning", "ended", "dead"}
NoSpec == [mode |-> "None", budget |-> RootBudget, child |-> Root]
Unborn == [parent |-> Root, depth |-> 0, budget |-> RootBudget, mode |-> "None"]

\* A task that has started and not ended.
Alive(a) == loop[a] \notin {"unborn", "ended", "dead"}
\* A mailbox closes when its runner is dropped.
Open(a) == Alive(a)
Full(a) == Len(mailbox[a]) >= command_capacity
is_cancelled(a) == lineage[a] \cap cancelled # {}

Init ==
    /\ loop = [a \in Agents |-> IF a = Root THEN "running" ELSE "unborn"]
    /\ agent = [a \in Agents |-> Unborn]
    /\ lineage = [a \in Agents |-> IF a = Root THEN {Session, Root} ELSE {}]
    /\ spec = [a \in Agents |-> NoSpec]
    /\ available = max_active_agents
    /\ agents = {}
    /\ children_of = [a \in Agents |-> {}]
    /\ agent_tokens = {Root}
    /\ state_children = [a \in Agents |-> {}]
    /\ cancelled = {}
    /\ mailbox = [a \in Agents |-> <<>>]
    /\ reports = [a \in Agents |-> 0]
    /\ inputs = MaxInputs

-----------------------------------------------------------------------------
(* Admission *)

\* check_children and check_depth
Within(limit, current) == limit # Unlimited => current < limit

max_children_depth_check(a) ==
    /\ Within(agent[a].budget.max_children, Cardinality(children_of[a]))
    /\ Within(agent[a].budget.max_depth, agent[a].depth)

no_looser(parent, child) ==
    parent # Unlimited => (child # Unlimited /\ child <= parent)

validate_child_budget(parent, child) ==
    /\ no_looser(parent.max_children, child.max_children)
    /\ no_looser(parent.max_depth, child.max_depth)

admit(a, budget) ==
    /\ max_children_depth_check(a)
    /\ validate_child_budget(agent[a].budget, budget)

-----------------------------------------------------------------------------
(* A runner takes commands *)

\* next_command returns the head of the mailbox: no cancellation was seen.
Takes(a, command) ==
    /\ loop[a] = "running"
    /\ ~is_cancelled(a)
    /\ mailbox[a] # <<>>
    /\ Head(mailbox[a]) = command
    /\ mailbox' = [mailbox EXCEPT ![a] = Tail(@)]

\* Anything that is neither the run's end, its cancellation nor a spawn.
Carry_on(a) ==
    /\ Takes(a, Other)
    /\ UNCHANGED <<loop, agent, lineage, spec, available, supervisor,
                   state_children, cancelled,
                   reports, inputs>>

\* A finished run ends the loop of a child; the root is long-lived.
FinishRun(a) ==
    /\ Takes(a, Other)
    /\ a # Root
    /\ loop' = [loop EXCEPT ![a] = "reporting"]
    /\ UNCHANGED <<agent, lineage, spec, available, supervisor, state_children,
                   cancelled,
                   reports, inputs>>

\* AgentSupervisor::cancel_child for each of state.children, which is then
\* cleared; one that is not registered is reported lost and left alone.
cancel_children(a) ==
    /\ cancelled' = cancelled \cup (state_children[a] \cap agents)
    /\ state_children' = [state_children EXCEPT ![a] = {}]

\* The command Cancel: it stops the run, not the loop.
Cancel(a) ==
    /\ Takes(a, Other)
    /\ cancel_children(a)
    /\ UNCHANGED <<loop, agent, lineage, spec, available, supervisor, reports,
                   inputs>>

\* ChildCompleted or ChildFailed
ChildReported(a, k) ==
    /\ Takes(a, k)
    /\ reports' = [reports EXCEPT ![k] = @ + 1]
    /\ state_children' = [state_children EXCEPT ![a] = @ \ {k}]
    /\ UNCHANGED <<loop, agent, lineage, spec, available, supervisor, cancelled,
                   inputs>>

\* Fault: a runner that waits for a command does not watch its token.
DeafToCancellation(a) == is_cancelled(a) /\ mailbox[a] # <<>>

\* next_command sees its token, between commands or while it waits.
SeesCancellation(a) == is_cancelled(a)

\* cancel_run, then the loop ends
CancelledLoop(a) ==
    /\ loop[a] = "running"
    /\ SeesCancellation(a)
    /\ cancel_children(a)
    /\ loop' = [loop EXCEPT ![a] = IF a = Root THEN "ended" ELSE "reporting"]
    /\ UNCHANGED <<agent, lineage, spec, available, supervisor, mailbox, reports,
                   inputs>>

-----------------------------------------------------------------------------
(* Spawning *)

\* agent.spawn, admitted: the loop now waits for a permit.  A refusal only
\* answers the tool call.
Spawn(a, mode, budget) ==
    /\ Takes(a, Other)
    /\ admit(a, budget)
    /\ loop' = [loop EXCEPT ![a] = "spawning"]
    /\ spec' = [spec EXCEPT ![a] = [mode |-> mode, budget |-> budget, child |-> Root]]
    /\ UNCHANGED <<agent, lineage, available, supervisor, state_children,
                   cancelled, reports, inputs>>

slot_free == available > 0

acquire_agent_permit(a) ==
    /\ loop[a] = "spawning"
    /\ slot_free
    /\ available' = available - 1
    /\ loop' = [loop EXCEPT ![a] = "building"]
    /\ UNCHANGED <<agent, lineage, spec, supervisor, state_children, cancelled,
                   mailbox, reports, inputs>>

\* Fault: the permit stays out when the child cannot be built.
PermitKept == available

permit_dropped == available + 1

\* The backend, the capabilities, the workspace or the behavior fails.
SpawnFails(a) ==
    /\ loop[a] = "building"
    /\ available' = permit_dropped
    /\ loop' = [loop EXCEPT ![a] = "running"]
    /\ spec' = [spec EXCEPT ![a] = NoSpec]
    /\ UNCHANGED <<agent, lineage, supervisor, state_children, cancelled,
                   mailbox, reports, inputs>>

\* Fault: every child hangs off the session.
child_of_session(a) == {Session}

child_cancellation(a) == IF a \in agent_tokens THEN lineage[a] ELSE {Session}

\* Ids are handed out in order: AgentId::new never repeats one.
NextId(k) == loop[k] = "unborn" /\ \A j \in Children : j < k => loop[j] # "unborn"

\* The child is registered and started, gets its task as a first command, and
\* the parent applies ChildSpawned.
spawn_child(a, k) ==
    /\ loop[a] = "building"
    /\ NextId(k)
    /\ agent' = [agent EXCEPT ![k] = [parent |-> a, depth |-> agent[a].depth + 1,
                                      budget |-> spec[a].budget, mode |-> spec[a].mode]]
    /\ lineage' = [lineage EXCEPT ![k] = child_cancellation(a) \cup {k}]
    /\ agents' = agents \cup {k}
    /\ children_of' = [children_of EXCEPT ![a] = @ \cup {k}]
    /\ agent_tokens' = agent_tokens \cup {k}
    /\ state_children' = [state_children EXCEPT ![a] = @ \cup {k}]
    /\ mailbox' = [mailbox EXCEPT ![k] = <<Other>>]
    /\ loop' = [loop EXCEPT ![k] = "running",
                            ![a] = IF spec[a].mode = "AwaitResult" THEN "joining"
                                   ELSE "running"]
    /\ spec' = [spec EXCEPT ![a] = IF @.mode = "AwaitResult" THEN [@ EXCEPT !.child = k]
                                   ELSE NoSpec]
    /\ UNCHANGED <<available, cancelled, reports, inputs>>

\* await_child takes the handle before it waits.
await_child(a) ==
    /\ loop[a] = "joining"
    /\ agents' = agents \ {spec[a].child}
    /\ children_of' = [children_of EXCEPT ![a] = @ \ {spec[a].child}]
    /\ loop' = [loop EXCEPT ![a] = "awaiting"]
    /\ UNCHANGED <<agent, lineage, spec, available, agent_tokens, state_children,
                   cancelled, mailbox,
                   reports, inputs>>

\* Fault: a child whose task died is not reported by anyone.
LossIgnored(k) == reports

\* The result channel of a task that died is closed: the wait itself applies
\* ChildFailed.
await_result(k) == [reports EXCEPT ![k] = IF loop[k] = "dead" THEN @ + 1 ELSE @]

Joined(a) ==
    LET k == spec[a].child
    IN  /\ loop[a] = "awaiting"
        /\ loop[k] \in {"ended", "dead"}
        /\ agent_tokens' = agent_tokens \ {k}
        /\ reports' = await_result(k)
        /\ state_children' = [state_children EXCEPT ![a] = IF loop[k] = "dead" THEN @ \ {k}
                                                          ELSE @]
        /\ loop' = [loop EXCEPT ![a] = "running"]
        /\ spec' = [spec EXCEPT ![a] = NoSpec]
        /\ UNCHANGED <<agent, lineage, available, agents, children_of, cancelled,
                       mailbox, inputs>>

-----------------------------------------------------------------------------
(* run_child, after the loop *)

\* parent_commands.send: waits while the mailbox is full, and is dropped when
\* it is closed.
Report(k) ==
    LET a == agent[k].parent
    IN  /\ loop[k] = "reporting"
        /\ \/ Open(a) /\ ~Full(a) /\ mailbox' = [mailbox EXCEPT ![a] = Append(@, k)]
           \/ ~Open(a) /\ UNCHANGED mailbox
        /\ loop' = [loop EXCEPT ![k] = "cleaning"]
        /\ UNCHANGED <<agent, lineage, spec, available, supervisor,
                       state_children, cancelled, reports, inputs>>

\* Fault: the child is forgotten but stays in its parent's list.
ForgetHandleOnly(k) ==
    /\ agents' = agents \ {k}
    /\ agent_tokens' = agent_tokens \ {k}
    /\ UNCHANGED children_of

deregister(k) ==
    /\ agents' = agents \ {k}
    /\ children_of' = [children_of EXCEPT ![agent[k].parent] = @ \ {k}]
    /\ agent_tokens' = agent_tokens \ {k}

\* The rest of the task: a detached child is deregistered, the result sent,
\* the permit and the runner dropped.
TaskEnds(k) ==
    /\ loop[k] = "cleaning"
    /\ IF agent[k].mode = "Concurrent" THEN deregister(k) ELSE UNCHANGED supervisor
    /\ available' = available + 1
    /\ loop' = [loop EXCEPT ![k] = "ended"]
    /\ mailbox' = [mailbox EXCEPT ![k] = <<>>]
    /\ UNCHANGED <<agent, lineage, spec, state_children, cancelled, reports, inputs>>

\* A panic in a child's runner: the permit is dropped, nothing else runs.
TaskDies(k) ==
    /\ k \in Mortal
    /\ loop[k] = "running"
    /\ available' = available + 1
    /\ loop' = [loop EXCEPT ![k] = "dead"]
    /\ mailbox' = [mailbox EXCEPT ![k] = <<>>]
    /\ UNCHANGED <<agent, lineage, spec, supervisor, state_children, cancelled,
                   reports, inputs>>

-----------------------------------------------------------------------------
(* The outside *)

\* A host, a backend's stream or a tool delivers a command.
Deliver(a) ==
    /\ inputs > 0
    /\ Open(a)
    /\ ~Full(a)
    /\ mailbox' = [mailbox EXCEPT ![a] = Append(@, Other)]
    /\ inputs' = inputs - 1
    /\ UNCHANGED <<loop, agent, lineage, spec, available, supervisor,
                   state_children, cancelled, reports>>

\* SessionCancellation::cancel
cancel_session ==
    /\ Session \notin cancelled
    /\ cancelled' = cancelled \cup {Session}
    /\ UNCHANGED <<loop, agent, lineage, spec, available, supervisor,
                   state_children, mailbox, reports, inputs>>

-----------------------------------------------------------------------------

\* What an agent's own task does next.
Step(a) ==
    \/ Carry_on(a) \/ FinishRun(a) \/ Cancel(a) \/ CancelledLoop(a)
    \/ \E mode \in Modes, budget \in Budgets : Spawn(a, mode, budget)
    \/ acquire_agent_permit(a) \/ SpawnFails(a)
    \/ \E k \in Children : spawn_child(a, k) \/ ChildReported(a, k)
    \/ await_child(a) \/ Joined(a)

\* What is left of a child's task after its loop.
Epilogue(k) == Report(k) \/ TaskEnds(k)

TaskStep == (\E a \in Agents : Step(a)) \/ (\E k \in Children : Epilogue(k))

Next ==
    \/ TaskStep
    \/ \E a \in Agents : Deliver(a)
    \/ \E k \in Children : TaskDies(k)
    \/ cancel_session

Spec == Init /\ [][Next]_vars

\* The runtime does not idle while some task can run.  Nothing obliges a run
\* to finish or a host to act.
Fairness == WF_vars(TaskStep)

FairSpec == Spec /\ Fairness

-----------------------------------------------------------------------------
(* Properties *)

\* Every variable keeps its type, and a mailbox its capacity.
TypeOK ==
    /\ loop \in [Agents -> Loops]
    /\ agent \in [Agents -> [parent : Agents, depth : 0..MaxAgents, mode : Modes \cup {"None"},
                             budget : Budgets \cup {RootBudget}]]
    /\ spec \in [Agents -> [child : Agents, mode : Modes \cup {"None"},
                            budget : Budgets \cup {RootBudget}]]
    /\ lineage \in [Agents -> SUBSET (Agents \cup {Session})]
    /\ available \in 0..max_active_agents
    /\ agents \subseteq Children
    /\ children_of \in [Agents -> SUBSET Children]
    /\ agent_tokens \subseteq Agents
    /\ state_children \in [Agents -> SUBSET Children]
    /\ cancelled \subseteq Agents \cup {Session}
    /\ mailbox \in [Agents -> Seq(Children \cup {Other})]
    /\ \A a \in Agents : Len(mailbox[a]) <= command_capacity
    /\ reports \in [Agents -> Nat]
    /\ inputs \in 0..MaxInputs

\* Cancelling an agent cancels everything below it, children spawned later
\* included (child_cancellation): cancel_child is said to stop the subtree.
CancelReachesSubtree ==
    \A k \in Children : loop[k] # "unborn" /\ is_cancelled(agent[k].parent) => is_cancelled(k)

WaitsFor(a, k) == loop[a] \in {"joining", "awaiting"} /\ spec[a].child = k

\* A detached child can be found, counted and cancelled for as long as its
\* task runs, and no trace of it is left afterwards, so that max_children
\* counts the living; the same of an awaited child once the wait is over,
\* also when its task died (deregister, await_child).
RegistryIsCurrent ==
    \A k \in Children :
        LET a == agent[k].parent
            listed == <<k \in agents, k \in children_of[a], k \in agent_tokens>>
        IN  /\ Alive(k) /\ agent[k].mode = "Concurrent" => listed = <<TRUE, TRUE, TRUE>>
            /\ \/ loop[k] = "ended" /\ ~WaitsFor(a, k)
               \/ loop[k] = "dead" /\ agent[k].mode = "AwaitResult" /\ ~WaitsFor(a, k)
               => listed = <<FALSE, FALSE, FALSE>>

Waiting(k) == Cardinality({i \in DOMAIN mailbox[agent[k].parent] :
                              mailbox[agent[k].parent][i] = k})

\* A child's end enters its parent's state machine exactly once, for both
\* spawn modes and also when an awaited child's task dies (run_child,
\* AgentRunner::await_child), for as long as the parent lives.
EndsEnterOnce ==
    \A k \in Children :
        /\ reports[k] + Waiting(k) <= 1
        /\ /\ Alive(agent[k].parent)
           /\ \/ loop[k] \in {"cleaning", "ended"}
              \/ loop[k] = "dead" /\ agent[k].mode = "AwaitResult"
                                  /\ ~WaitsFor(agent[k].parent, k)
           => reports[k] + Waiting(k) = 1

\* Every permit is either free, held by a living child, or held by a parent
\* that is building one, however spawns fail and tasks end.
PermitsAccounted ==
    available + Cardinality({k \in Children : Alive(k)})
              + Cardinality({a \in Agents : loop[a] = "building"}) = max_active_agents

Drained == \A a \in Agents : ~Alive(a)

\* A task holds what another waits for while it waits itself: every permit is
\* out and a parent that holds one, or whose children do, waits for another;
\* or a child cannot report because its parent's mailbox is full and the
\* parent, which waits for a permit or for that child, will not empty it.
HoldAndWait ==
    \/ available = 0 /\ \E a \in Agents : loop[a] = "spawning"
    \/ \E k \in Children : LET a == agent[k].parent
                           IN  /\ loop[k] = "reporting"
                               /\ Full(a)
                               /\ loop[a] \in {"spawning", "awaiting"}

\* Cancelling the session ends every task below it, and the only thing that
\* can keep it from doing so is a hold-and-wait that never resolves: waiting
\* for a permit, for a mailbox and for a child are the waits that do not
\* watch the token.
HangsOnlyByHoldAndWait ==
    <>(Session \in cancelled) => (<>Drained \/ <>[]HoldAndWait)

\* The same without the exception, as the session's cancellation is said to
\* make in-flight work drain promptly: the code does not keep it.
ShutdownDrains == <>(Session \in cancelled) => <>Drained
=============================================================================

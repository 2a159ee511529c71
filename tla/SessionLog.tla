----------------------------- MODULE SessionLog -----------------------------
(***************************************************************************)
(* A session's durable history: its agents emit events through one         *)
(* SessionCommitter, which numbers them and appends the durable ones to    *)
(* the SessionStore; checkpoints of the agents' projection are written     *)
(* beside them; a restart replays the events that trail the checkpoint.    *)
(* An agent is reduced to what the stored projection and the replay tell   *)
(* apart: its status, whether a run is active, and how many commands it    *)
(* has applied.  Each step is what one task does between two awaits.       *)
(***************************************************************************)
EXTENDS Naturals, Sequences, FiniteSets, SequencesExt

CONSTANTS
    Receivers,          \* the agents, root first, in the order they are spawned
    Commands,           \* what the agents are asked to do
    policy,             \* DurabilityPolicy
    snapshot_every,     \* durable appends per automatic checkpoint
    MaxSequence,        \* bound: session sequence numbers
    MaxEpochs,          \* bound: lives of the process
    MaxCheckpoints      \* bound: checkpoints the session manager asks for

Agents == {Receivers[i] : i \in DOMAIN Receivers}
Root == Receivers[1]

ASSUME LogAssumption ==
    /\ Receivers \in Seq(Agents) /\ Receivers # <<>> /\ IsInjective(Receivers)
    /\ Commands \subseteq {"start", "refuse", "stop", "stream", "finish", "fail", "cancel"}
    /\ policy \in {"Strict", "BestEffort"}
    /\ snapshot_every \in Nat /\ MaxSequence \in Nat
    /\ MaxEpochs \in Nat /\ MaxCheckpoints \in Nat

VARIABLES
    running,        \* the process is up and the session in its registry
    epoch,          \* history: lives of the process so far
    agent,          \* the live agents
    alive,          \* agents whose runner loop has not ended
    outbox,         \* events of the command in progress, not published yet
    stage,          \* how far the first of them is
    projection,     \* AgentProjectionTable
    next,           \* SequencerState: 0 is Uninitialized
    appends,        \* appends_since_checkpoint
    events,         \* the store: durable events
    snapshot,       \* the store: the one snapshot
    saving,         \* snapshots whose save is under way
    requested,      \* the sequence checkpoint() has read, if it waits
    checkpoints     \* history: checkpoints asked for

logVars == <<running, epoch, agent, alive, outbox, stage, projection, next,
             appends, events, snapshot, saving, requested, checkpoints>>

Statuses == {"Idle", "PreparingContext", "Failed", "Cancelled"}
Terminal == {"Failed", "Cancelled"}
Kinds == {"StateChanged", "RunStarted", "TextDelta", "Completed", "Failed"}
Stages == {"waiting", "numbered", "committed"}

AgentStates == [status : Statuses, active_run : BOOLEAN, step : Nat]
NewAgent == [status |-> "Idle", active_run |-> FALSE, step |-> 0]

Envelopes == [agent : Agents, kind : Kinds, from : Statuses, to : Statuses,
              step : Nat, sequence : Nat, epoch : Nat]

Snapshots == [sequence : Nat, agents : [Agents -> AgentStates]]

Event(a, kind, from, to) ==
    [agent |-> a, kind |-> kind, from |-> from, to |-> to,
     step |-> agent[a].step + 1, sequence |-> 0, epoch |-> epoch]

is_durable(e) == e.kind # "TextDelta"
is_terminal(e) == e.kind \in {"Completed", "Failed"}

-----------------------------------------------------------------------------
(* The agents: what a command changes and emits *)

Resting(a) == running /\ a \in alive /\ outbox[a] = <<>>

\* Fault: the projection is not published with the change.
ApplyUnpublished(a, status, active_run, effects) ==
    /\ agent' = [agent EXCEPT ![a] = [status |-> status, active_run |-> active_run,
                                      step |-> agent[a].step + 1]]
    /\ outbox' = [outbox EXCEPT ![a] = effects]
    /\ UNCHANGED <<running, epoch, alive, stage, projection, next, appends,
                   events, snapshot, saving, requested, checkpoints>>

\* The whole change and the projection come before the first event.
apply_and_publish(a, status, active_run, effects) ==
    LET changed == [status |-> status, active_run |-> active_run,
                    step |-> agent[a].step + 1]
    IN  /\ agent' = [agent EXCEPT ![a] = changed]
        /\ projection' = [projection EXCEPT ![a] = changed]
        /\ outbox' = [outbox EXCEPT ![a] = effects]
        /\ UNCHANGED <<running, epoch, alive, stage, next, appends, events,
                       snapshot, saving, requested, checkpoints>>

start_run(a) ==
    /\ Resting(a) /\ ~agent[a].active_run
    /\ apply_and_publish(a, "PreparingContext", TRUE,
           <<Event(a, "StateChanged", agent[a].status, "PreparingContext"),
             Event(a, "RunStarted", "PreparingContext", "PreparingContext")>>)

\* The transcript or an attachment is refused before the run exists.
StartRefused(a) ==
    /\ Resting(a) /\ ~agent[a].active_run
    /\ apply_and_publish(a, "Failed", FALSE,
           <<Event(a, "StateChanged", agent[a].status, "Failed"),
             Event(a, "Failed", "Failed", "Failed")>>)

\* The first turn is refused by the behavior's limits or rules: the status is
\* PreparingContext by then, and no event has said so.
StartStopped(a) ==
    /\ Resting(a) /\ ~agent[a].active_run
    /\ apply_and_publish(a, "Failed", FALSE,
           <<Event(a, "StateChanged", "PreparingContext", "Failed"),
             Event(a, "Failed", "Failed", "Failed")>>)

StreamText(a) ==
    /\ Resting(a) /\ agent[a].active_run
    /\ apply_and_publish(a, agent[a].status, TRUE,
           <<Event(a, "TextDelta", agent[a].status, agent[a].status)>>)

EndRun(a, status, kind) ==
    /\ Resting(a) /\ agent[a].active_run
    /\ apply_and_publish(a, status, FALSE,
           <<Event(a, "StateChanged", agent[a].status, status),
             Event(a, kind, status, status)>>)

finish_success(a) == EndRun(a, "Idle", "Completed")
fail(a) == EndRun(a, "Failed", "Failed")
cancel(a) == EndRun(a, "Cancelled", "Completed")

-----------------------------------------------------------------------------
(* The store *)

Highest(numbers) == CHOOSE n \in numbers : \A m \in numbers : m <= n

current_sequence ==
    Highest({snapshot.sequence} \cup {events[i].sequence : i \in DOMAIN events})

events_since(sequence) ==
    LET kept[i \in 0..Len(events)] ==
            IF i = 0 THEN <<>>
            ELSE IF events[i].sequence > sequence THEN Append(kept[i - 1], events[i])
                 ELSE kept[i - 1]
    IN  kept[Len(events)]

build_snapshot(sequence) == [sequence |-> sequence, agents |-> projection]

-----------------------------------------------------------------------------
(* SessionCommitter *)

\* Fault: the sequencer resumes after the snapshot, not after the last event.
ResumeAfterSnapshot == IF next = 0 THEN snapshot.sequence + 1 ELSE next

next_sequence == IF next = 0 THEN current_sequence + 1 ELSE next

commit_lock_free == \A a \in Agents : stage[a] # "numbered"

\* Under the commit lock the first event takes its number; one that is not
\* durable is committed by that alone.
Number(a) ==
    /\ running /\ outbox[a] # <<>> /\ stage[a] = "waiting"
    /\ commit_lock_free
    /\ next_sequence <= MaxSequence
    /\ outbox' = [outbox EXCEPT ![a][1].sequence = next_sequence]
    /\ next' = next_sequence + 1
    /\ stage' = [stage EXCEPT ![a] = IF is_durable(outbox[a][1])
                                     THEN "numbered" ELSE "committed"]
    /\ UNCHANGED <<running, epoch, agent, alive, projection, appends, events,
                   snapshot, saving, requested, checkpoints>>

note_durable_append(sequence) ==
    LET due == snapshot_every > 0 /\ appends + 1 >= snapshot_every
    IN  /\ appends' = IF due THEN 0 ELSE appends + 1
        /\ saving' = IF due THEN saving \cup {build_snapshot(sequence)} ELSE saving

AppendSucceeds(a) ==
    /\ stage[a] = "numbered"
    /\ events' = Append(events, outbox[a][1])
    /\ note_durable_append(outbox[a][1].sequence)
    /\ stage' = [stage EXCEPT ![a] = "committed"]
    /\ UNCHANGED <<running, epoch, agent, alive, outbox, projection, next,
                   snapshot, requested, checkpoints>>

\* The runner drops the rest of the command's effects and its loop ends.
fail_fatally(a) ==
    LET dead == [status |-> "Failed", active_run |-> FALSE, step |-> agent[a].step]
    IN  /\ agent' = [agent EXCEPT ![a] = dead]
        /\ projection' = [projection EXCEPT ![a] = dead]
        /\ outbox' = [outbox EXCEPT ![a] = <<>>]
        /\ stage' = [stage EXCEPT ![a] = "waiting"]
        /\ alive' = alive \ {a}

\* Fault: the policy is not asked, and the event is published degraded.
AppendIgnored(a) ==
    /\ stage[a] = "numbered"
    /\ stage' = [stage EXCEPT ![a] = "committed"]
    /\ UNCHANGED <<running, epoch, agent, alive, outbox, projection, next,
                   appends, events, snapshot, saving, requested, checkpoints>>

AppendFails(a) ==
    /\ stage[a] = "numbered"
    /\ IF policy = "Strict" THEN fail_fatally(a)
       ELSE /\ stage' = [stage EXCEPT ![a] = "committed"]
            /\ UNCHANGED <<agent, alive, outbox, projection>>
    /\ UNCHANGED <<running, epoch, next, appends, events, snapshot, saving,
                   requested, checkpoints>>

\* A run that finished ends the loop of an agent that is not the root.
\* Cancel finishes no run.
LoopEnds(a) ==
    /\ a # Root
    /\ is_terminal(outbox[a][1]) /\ Len(outbox[a]) = 1
    /\ agent[a].status # "Cancelled"

\* A terminal run asks for a checkpoint before its event is published.
Publish(a) ==
    /\ stage[a] = "committed"
    /\ saving' = IF is_terminal(outbox[a][1])
                 THEN saving \cup {build_snapshot(outbox[a][1].sequence)} ELSE saving
    /\ outbox' = [outbox EXCEPT ![a] = Tail(@)]
    /\ stage' = [stage EXCEPT ![a] = "waiting"]
    /\ alive' = IF LoopEnds(a) THEN alive \ {a} ELSE alive
    /\ UNCHANGED <<running, epoch, agent, projection, next, appends, events,
                   snapshot, requested, checkpoints>>

-----------------------------------------------------------------------------
(* Checkpoints *)

\* Saves are tasks of their own: they end in any order, and the last to end
\* is the snapshot.
SaveSucceeds(s) ==
    /\ snapshot' = s
    /\ saving' = saving \ {s}
    /\ UNCHANGED <<running, epoch, agent, alive, outbox, stage, projection, next,
                   appends, events, requested, checkpoints>>

SaveFails(s) ==
    /\ saving' = saving \ {s}
    /\ UNCHANGED <<running, epoch, agent, alive, outbox, stage, projection, next,
                   appends, events, snapshot, requested, checkpoints>>

\* SessionRuntime::checkpoint reads the store's sequence, and builds the
\* snapshot after that await.
CheckpointReads ==
    /\ running /\ requested = {} /\ checkpoints < MaxCheckpoints
    /\ requested' = {current_sequence}
    /\ checkpoints' = checkpoints + 1
    /\ UNCHANGED <<running, epoch, agent, alive, outbox, stage, projection, next,
                   appends, events, snapshot, saving>>

CheckpointBuilds ==
    /\ running /\ requested # {}
    /\ saving' = saving \cup {build_snapshot(n) : n \in requested}
    /\ requested' = {}
    /\ UNCHANGED <<running, epoch, agent, alive, outbox, stage, projection, next,
                   appends, events, snapshot, checkpoints>>

-----------------------------------------------------------------------------
(* Crash and restore *)

AllWaiting == [a \in Agents |-> "waiting"]
Nothing == [a \in Agents |-> <<>>]
NewAgents == [a \in Agents |-> NewAgent]

Crash ==
    /\ running
    /\ running' = FALSE
    /\ agent' = NewAgents /\ projection' = NewAgents
    /\ alive' = {} /\ outbox' = Nothing /\ stage' = AllWaiting
    /\ next' = 0 /\ appends' = 0
    /\ saving' = {} /\ requested' = {}
    /\ UNCHANGED <<epoch, events, snapshot, checkpoints>>

\* validate_transition_stream and replay_snapshot, one event at a time.
apply_event(replay, e) ==
    LET at == replay.agents[e.agent]
        refused == \/ e.sequence <= replay.sequence
                   \/ /\ e.kind = "StateChanged"
                      /\ at.status # e.from \/ at.status \in Terminal
        changed == [status |-> IF e.kind = "StateChanged" THEN e.to ELSE at.status,
                    active_run |-> CASE e.kind = "RunStarted" -> TRUE
                                     [] is_terminal(e)        -> FALSE
                                     [] OTHER                 -> at.active_run,
                    step |-> e.step]
    IN  [ok |-> replay.ok /\ ~refused,
         sequence |-> e.sequence,
         agents |-> [replay.agents EXCEPT ![e.agent] = changed]]

load_snapshot ==
    LET trailing == events_since(snapshot.sequence)
        replay[i \in 0..Len(trailing)] ==
            IF i = 0
            THEN [ok |-> TRUE, sequence |-> snapshot.sequence, agents |-> snapshot.agents]
            ELSE apply_event(replay[i - 1], trailing[i])
    IN  replay[Len(trailing)]

\* Every stored agent gets a runner again, as it was stored.
restore ==
    /\ ~running /\ epoch < MaxEpochs
    /\ load_snapshot.ok
    /\ running' = TRUE
    /\ epoch' = epoch + 1
    /\ agent' = load_snapshot.agents /\ projection' = load_snapshot.agents
    /\ alive' = Agents
    /\ UNCHANGED <<outbox, stage, next, appends, events, snapshot, saving,
                   requested, checkpoints>>

-----------------------------------------------------------------------------

\* create_session has written its initial checkpoint.
LogInit ==
    /\ running = TRUE /\ epoch = 1
    /\ agent = NewAgents /\ projection = NewAgents
    /\ alive = Agents /\ outbox = Nothing /\ stage = AllWaiting
    /\ next = 0 /\ appends = 0
    /\ events = <<>> /\ snapshot = [sequence |-> 0, agents |-> NewAgents]
    /\ saving = {} /\ requested = {} /\ checkpoints = 0

Command(a) ==
    \/ "start"  \in Commands /\ start_run(a)
    \/ "refuse" \in Commands /\ StartRefused(a)
    \/ "stop"   \in Commands /\ StartStopped(a)
    \/ "stream" \in Commands /\ StreamText(a)
    \/ "finish" \in Commands /\ finish_success(a)
    \/ "fail"   \in Commands /\ fail(a)
    \/ "cancel" \in Commands /\ cancel(a)

\* What happens without a word to a subscriber: everything but a publication
\* and the end of the process.
Unseen ==
    \/ \E a \in Agents : \/ Command(a) \/ Number(a)
                         \/ AppendSucceeds(a) \/ AppendFails(a)
    \/ \E s \in saving : SaveSucceeds(s) \/ SaveFails(s)
    \/ CheckpointReads \/ CheckpointBuilds
    \/ restore

LogNext ==
    \/ Unseen
    \/ \E a \in Agents : Publish(a)
    \/ Crash

LogSpec == LogInit /\ [][LogNext]_logVars

-----------------------------------------------------------------------------
(* Properties *)

Stored == ToSet(events)

\* Every variable holds a value of its kind, and the count of appends stays
\* below the one that asks for a checkpoint.
LogTypeOK ==
    /\ running \in BOOLEAN /\ epoch \in Nat
    /\ agent \in [Agents -> AgentStates] /\ projection \in [Agents -> AgentStates]
    /\ alive \subseteq Agents
    /\ outbox \in [Agents -> Seq(Envelopes)] /\ stage \in [Agents -> Stages]
    /\ next \in Nat /\ appends \in Nat
    /\ snapshot_every > 0 => appends < snapshot_every
    /\ events \in Seq(Envelopes)
    /\ snapshot \in Snapshots /\ saving \subseteq Snapshots
    /\ requested \subseteq Nat /\ checkpoints \in 0..MaxCheckpoints

\* SessionCommitter, across agents and restarts: the store's events are in
\* strictly increasing order of their numbers, whatever was burnt, lost with
\* a crash or taken by an event that is not stored.
StoredInOrder ==
    \A i, j \in DOMAIN events : i < j => events[i].sequence < events[j].sequence

\* Checkpoints hide the events at or below their number from a restore, so
\* the agents in one must have gone at least as far as every event it hides;
\* and while the process runs, at least as far as every event ever stored.
CommittedIsRemembered ==
    \A e \in Stored :
        /\ running => agent[e.agent].step >= e.step
        /\ \A s \in saving \cup {snapshot} :
            e.sequence <= s.sequence => s.agents[e.agent].step >= e.step

\* README, Core features: "Sessions survive daemon restarts and can be
\* restored".
RestoreIsAccepted == ~running => load_snapshot.ok
=============================================================================

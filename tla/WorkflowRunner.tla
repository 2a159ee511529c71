--------------------------- MODULE WorkflowRunner ---------------------------
(***************************************************************************)
(* The task of workflow-runtime that owns one run: it decides the next     *)
(* command or waits, applies each command by reducing, committing,         *)
(* publishing and then dispatching, and follows the one step attempt that  *)
(* runs on a task of its own.  A step is what the loop does between two    *)
(* waits.  The store is a directory with an append-only log and a          *)
(* snapshot; the process may die at any time, also between the two writes  *)
(* of a commit, and the run is resumed from the snapshot.  Usage, time and *)
(* the user are nondeterministic.                                          *)
(***************************************************************************)
EXTENDS Workflow, Sequences, FiniteSets

CONSTANTS
    max_elapsed, stall_timeout, \* whether the policies set these limits
    timeout,                    \* the nodes with a timeout_ms
    Signals,                    \* what the attempts of each node may report
    MaxFaults,                  \* bound: crashes and failed commits
    MaxControls,                \* bound: pauses and user retries
    Cancels                     \* whether the user may cancel

VARIABLES
    run,        \* OrchestrationRunState, as the loop holds it
    loop,       \* what the run loop is doing, or how it ended
    active,     \* ActiveStep and the task that runs it, or None
    signals,    \* signals of the attempt the loop has not received
    cancellation, cancel_applied,
    store,      \* FileOrchestrationStore
    started, reported,  \* history: attempts dispatched, and ends of them applied
    faults, controls

vars == <<run, loop, active, signals, cancellation, cancel_applied, store,
          started, reported, faults, controls>>

\* The loop is about to apply its first command ("start", "recover"), runs,
\* has finished the run, has returned an error or is gone with its process.
Ended == {"finished", "persistence", "sequence_gap", "rejected", "stalled", "down"}
LoopStates == {"start", "recover", "running"} \cup Ended

\* The step task: working, blocked on the user or on the loop, or over.
TaskStates == {"work", "asking", "permission", "checkpoint", "over"}
Results == {"ok", "error", "cancelled"} \cup Reasons \cup {"changes_approved"}

Attempts == [node : Nodes, attempt : Nat, token : BOOLEAN, stalled : BOOLEAN,
             usage : 0..1, task : TaskStates, result : Results,
             sent : SUBSET {"usage", "permission", "checkpoint"}]

ASSUME RunnerAssumption ==
    /\ max_elapsed \in BOOLEAN /\ stall_timeout \in BOOLEAN /\ timeout \subseteq Nodes
    /\ Signals \in [Nodes -> SUBSET {"usage", "permission", "checkpoint"}]
    /\ MaxFaults \in Nat /\ MaxControls \in Nat /\ Cancels \in BOOLEAN
    /\ None \notin Attempts

\* snapshot: the last one renamed into place; ahead: the log holds events
\* that the snapshot does not; cached: this process remembers the last
\* sequence it committed instead of reading it from the log.
Init ==
    /\ run = NewRun /\ loop = "start" /\ active = None /\ signals = <<>>
    /\ cancellation = FALSE /\ cancel_applied = FALSE
    /\ store = [snapshot |-> None, ahead |-> FALSE, cached |-> FALSE]
    /\ started = [n \in Nodes |-> 0] /\ reported = [n \in Nodes |-> 0]
    /\ faults = 0 /\ controls = 0

-----------------------------------------------------------------------------
(* Applying a command: reduce, commit, publish, dispatch *)

\* check_sequence: the log goes on from the last sequence the store knows of.
check_sequence(emits) == emits => ~store.ahead \/ store.cached

\* The batch of an accepted command: the state it leads to, whether it emits
\* events, and the attempt it dispatches.
Batch(r, emits, dispatched) == [run |-> r, emits |-> emits, dispatched |-> dispatched]

dispatch(n) ==
    [node |-> n, attempt |-> run'.steps[n].attempts, token |-> cancellation, stalled |-> FALSE,
     usage |-> 0, task |-> "work", result |-> "ok", sent |-> {}]

TokenCancelled(act) == IF act = None THEN None ELSE [act EXCEPT !.token = TRUE]

\* The attempt in flight after the effects of a command; rest is what is
\* left of its signals.
Effects(b, act, rest) ==
    IF b.dispatched # None
    THEN /\ active' = dispatch(b.dispatched) /\ signals' = <<>>
         /\ started' = [started EXCEPT ![b.dispatched] = @ + 1]
    ELSE /\ active' = IF ActiveSteps(b.run) # {} THEN act ELSE TokenCancelled(act)
         /\ signals' = IF b.run.status \in Terminal THEN <<>> ELSE rest
         /\ UNCHANGED started

Committed(b, act, rest) ==
    /\ check_sequence(b.emits)
    /\ run' = b.run
    /\ store' = [snapshot |-> b.run, ahead |-> store.ahead /\ ~b.emits, cached |-> TRUE]
    /\ Effects(b, act, rest)
    /\ loop' = IF b.run.status \in Terminal THEN "finished" ELSE "running"
    /\ UNCHANGED faults

\* The loop ends on an error; drive() cancels the attempt, which winds down
\* with nobody listening.
LoopDies(how, act) ==
    /\ loop' = how /\ active' = TokenCancelled(act) /\ signals' = <<>>
    /\ UNCHANGED started

\* commit_blocking fails before it has written, or after it has appended the
\* events and before the snapshot is in place.
CommitFails(b, act) ==
    /\ faults < MaxFaults /\ faults' = faults + 1
    /\ check_sequence(b.emits)
    /\ \E appended \in BOOLEAN :
        store' = [store EXCEPT !.ahead = @ \/ (appended /\ b.emits)]
    /\ run' = b.run
    /\ LoopDies("persistence", act)

\* The process dies while it commits.
CommitCrashes(b) ==
    /\ faults < MaxFaults /\ faults' = faults + 1
    /\ check_sequence(b.emits) /\ b.emits
    /\ store' = [store EXCEPT !.ahead = TRUE, !.cached = FALSE]
    /\ run' = b.run
    /\ LoopDies("down", None)

SequenceGap(b, act) ==
    /\ ~check_sequence(b.emits)
    /\ run' = b.run
    /\ LoopDies("sequence_gap", act)
    /\ UNCHANGED <<store, faults>>

\* Fault: the attempt is dispatched before the transition is committed.
DispatchFirst(b, act, rest) ==
    \/ Committed(b, act, rest)
    \/ /\ faults < MaxFaults /\ faults' = faults + 1
       /\ b.dispatched # None
       /\ run' = b.run
       /\ started' = [started EXCEPT ![b.dispatched] = @ + 1]
       /\ loop' = "down" /\ active' = None /\ signals' = <<>>
       /\ store' = [store EXCEPT !.cached = FALSE]

try_apply(b, act, rest) ==
    \/ Committed(b, act, rest)
    \/ CommitFails(b, act)
    \/ CommitCrashes(b)
    \/ SequenceGap(b, act)

\* The loop ends on a command the reducer refuses.
Refused(act) ==
    /\ LoopDies("rejected", act)
    /\ UNCHANGED <<run, store, faults>>

-----------------------------------------------------------------------------
(* drive_inner: what the loop does by itself *)

Running == loop = "running"
CancelPending == cancellation /\ ~cancel_applied

FirstCommand ==
    /\ loop \in {"start", "recover"}
    /\ try_apply(Batch(IF loop = "start" THEN start(run) ELSE recover(run), TRUE, None),
                 None, <<>>)
    /\ UNCHANGED <<cancellation, cancel_applied, reported, controls>>

Cancel ==
    /\ Running /\ CancelPending
    /\ cancel_applied' = TRUE
    /\ IF run.status = "Cancelling" THEN UNCHANGED <<run, loop, active, signals, store, started, faults>>
       ELSE try_apply(Batch(cancel(run), ActiveSteps(run) = {}, None), active, signals)
    /\ UNCHANGED <<cancellation, reported, controls>>

\* The clock does not run while the run waits for the user's answer.
Elapsed ==
    /\ Running /\ ~CancelPending
    /\ max_elapsed /\ run.status # "WaitingForInput"
    /\ try_apply(Batch(abort(run), TRUE, None), active, signals)
    /\ UNCHANGED <<cancellation, cancel_applied, reported, controls>>

CancellationCompleted ==
    /\ Running /\ ~CancelPending
    /\ active = None /\ run.status = "Cancelling"
    /\ try_apply(Batch(cancellation_completed(run), TRUE, None), active, signals)
    /\ UNCHANGED <<cancellation, cancel_applied, reported, controls>>

MayAdmit ==
    /\ Running /\ ~CancelPending
    /\ active = None /\ run.status # "Cancelling" /\ ~run.paused

Scheduled == {n \in Nodes : run.steps[n].status = "RetryScheduled"}

RetryStep ==
    /\ MayAdmit
    /\ \E n \in Scheduled : try_apply(Batch(retry(run, n), TRUE, None), active, signals)
    /\ UNCHANGED <<cancellation, cancel_applied, reported, controls>>

\* The first ready step; a run that has none, though it may admit one, is stalled.
StepAdmitted ==
    /\ MayAdmit /\ Scheduled = {}
    /\ IF ready_steps(run) = {}
       THEN LoopDies("stalled", None) /\ UNCHANGED <<run, store, faults>>
       ELSE \E n \in ready_steps(run) :
              LET r == admit(run, n) IN
              try_apply(Batch(r, TRUE, IF r.status = "Failed" THEN None ELSE n), active, signals)
    /\ UNCHANGED <<cancellation, cancel_applied, reported, controls>>

Drives == \/ FirstCommand \/ Cancel \/ CancellationCompleted
          \/ RetryStep \/ StepAdmitted

-----------------------------------------------------------------------------
(* wait and on_wake: the user, the attempt and the clock *)

\* The loop waits while an attempt runs and while the run is paused.  Any
\* source that is ready may be taken, also when a cancellation has just
\* come: select! polls them one after the other.
Waiting == Running /\ (active # None \/ (run.paused /\ run.status # "Cancelling"))

Step == run.steps[active.node]

Pause ==
    /\ Waiting /\ controls < MaxControls /\ controls' = controls + 1
    /\ ~run.paused /\ run.status # "Cancelling"
    /\ try_apply(Batch(pause(run), TRUE, None), active, signals)
    /\ UNCHANGED <<cancellation, cancel_applied, reported>>

Resume ==
    /\ Waiting /\ run.paused
    /\ try_apply(Batch(resume(run), TRUE, None), active, signals)
    /\ UNCHANGED <<cancellation, cancel_applied, reported, controls>>

\* The decision is delivered to the attempt first; one whose attempt is over
\* is refused.
resolve_permission ==
    /\ Waiting /\ active # None
    /\ Step.pending_permission /\ active.task = "permission"
    /\ try_apply(Batch(permission_resolved(run, active.node), TRUE, None),
                 [active EXCEPT !.task = "work"], signals)
    /\ UNCHANGED <<cancellation, cancel_applied, reported, controls>>

can_revise(n, attempt) == retry_target[n] # None /\ attempt <= max_revisions

\* The answers an approval takes, as the result of the step they lead to.
approval_decisions(n, attempt) ==
    {"ok", "error"}
    \cup {d \in {"ChangesRequested"} : can_revise(n, attempt)}
    \cup {d \in {"changes_approved"} : can_revise(n, attempt) /\ revise_on_notes}

\* Fault: the answer is recorded and does not reach the attempt.
AnswerNotDelivered ==
    /\ Waiting /\ active # None /\ Step.pending_input
    /\ try_apply(Batch(input_resolved(run, active.node), TRUE, None), active, signals)
    /\ UNCHANGED <<cancellation, cancel_applied, reported, controls>>

\* The answer is recorded first, then delivered.
resolve_input ==
    /\ Waiting /\ active # None /\ Step.pending_input
    /\ \E decision \in approval_decisions(active.node, active.attempt) :
        try_apply(Batch(input_resolved(run, active.node), TRUE, None),
                  IF active.task # "asking" THEN active
                  ELSE [active EXCEPT !.task = "over", !.result = decision], signals)
    /\ UNCHANGED <<cancellation, cancel_applied, reported, controls>>

InFlight == active_attempt(run, active.node, active.attempt)

\* budget_error: the attempt's usage would take the run over its budget.
OverBudget == run.usage + 1 >= max_tokens

\* What a signal does: an observation, a command that may be refused and is
\* then ignored, or a checkpoint whose refusal ends the run.
on_signal ==
    /\ Waiting /\ active # None /\ signals # <<>>
    /\ LET signal == Head(signals)  rest == Tail(signals)
           Ignored(act) == /\ active' = act /\ signals' = rest
                           /\ UNCHANGED <<run, loop, store, started, faults>>
       IN  CASE signal = "usage" ->
                  IF OverBudget
                  THEN try_apply(Batch(abort(run), TRUE, None), [active EXCEPT !.usage = 1], rest)
                  ELSE Ignored([active EXCEPT !.usage = 1])
             [] signal = "permission" ->
                  IF InFlight
                  THEN try_apply(Batch(permission_required(run, active.node), TRUE, None), active, rest)
                  ELSE Ignored(active)
             [] signal = "input" ->
                  IF InFlight
                  THEN try_apply(Batch(input_required(run, active.node), TRUE, None), active, rest)
                  ELSE Ignored(active)
             [] signal = "checkpoint" ->
                  IF InFlight
                  THEN try_apply(Batch(record_checkpoint(run, active.node), TRUE, None),
                                 IF active.task = "checkpoint"
                                 THEN [active EXCEPT !.task = "work"] ELSE active, rest)
                  ELSE Refused(active)
    /\ UNCHANGED <<cancellation, cancel_applied, reported, controls>>

\* The watchdog: no sign of life from an attempt that waits for nobody.
on_stalled ==
    /\ Waiting /\ active # None /\ stall_timeout
    /\ ~active.stalled /\ ~run.paused /\ active.task \in {"work", "over"}
    /\ InFlight /\ ~Step.pending_permission /\ ~Step.pending_input
    /\ active' = [active EXCEPT !.stalled = TRUE, !.token = TRUE]
    /\ UNCHANGED <<run, loop, signals, cancellation, cancel_applied, store,
                   started, reported, faults, controls>>

\* The error of an attempt; a stall replaces whatever it returned.
attempt_error ==
    [reason |-> IF active.stalled THEN "BackendTimeout"
                ELSE IF active.result = "changes_approved" THEN "ChangesRequested"
                ELSE active.result,
     code |-> IF active.result = "changes_approved" /\ ~active.stalled
              THEN "changes_approved" ELSE "other"]

\* Signals still queued are drained first: usage may abort the run.
on_step_done ==
    /\ Waiting /\ active # None /\ active.task = "over"
    /\ LET n == active.node
           drained == "usage" \in {signals[i] : i \in DOMAIN signals}
           used == IF drained THEN 1 ELSE active.usage
       IN  IF drained /\ OverBudget
             THEN /\ try_apply(Batch(abort(run), TRUE, None), None, <<>>)
                  /\ UNCHANGED reported
           ELSE IF run.status = "Cancelling"
             THEN /\ active' = None /\ signals' = <<>>
                  /\ UNCHANGED <<run, loop, store, started, reported, faults>>
           ELSE /\ reported' = [reported EXCEPT ![n] = @ + 1]
                /\ IF active.result = "ok" /\ ~active.stalled
                   THEN IF CanSucceed(run, n, active.attempt)
                        THEN try_apply(Batch(succeed(run, n, used), TRUE, None), None, <<>>)
                        ELSE Refused(None)
                   ELSE IF CanFail(run, n, active.attempt)
                        THEN try_apply(Batch(fail(run, n, attempt_error, used), TRUE, None), None, <<>>)
                        ELSE Refused(None)
    /\ UNCHANGED <<cancellation, cancel_applied, controls>>

-----------------------------------------------------------------------------
(* StepJob: the attempt's task, and the executors behind it *)

TaskOnly == UNCHANGED <<run, loop, cancellation, cancel_applied, store,
                        started, reported, faults, controls>>

\* Once the loop is gone nobody hears of the task any more, and what it does
\* while it winds down is left out.
TaskRuns == active # None /\ active.task # "over"
TaskWorks == TaskRuns /\ active.task = "work" /\ Running

\* An executor reports usage, asks for a permission or saves a checkpoint,
\* and waits for the decision or the acknowledgement.
ReportSignal ==
    /\ TaskWorks
    /\ \E s \in Signals[active.node] \ active.sent :
        /\ signals' = Append(signals, s)
        /\ active' = [active EXCEPT !.sent = @ \cup {s},
                                    !.task = IF s = "usage" THEN "work" ELSE s]
    /\ TaskOnly

\* execute_approval asks, unless an approval with notes still stands.
standing_approval == Step.last_error = "changes_approved"

Ask ==
    /\ TaskWorks /\ kind[active.node] = "Approval" /\ ~standing_approval
    /\ signals' = Append(signals, "input")
    /\ active' = [active EXCEPT !.task = "asking"]
    /\ TaskOnly

\* How an attempt can end by itself.
execute(n) ==
    CASE kind[n] \in {"Input", "Output"} -> {"ok", "error"}
      [] kind[n] \in {"Agent", "Subflow"} -> {"ok", "error", "BackendTimeout"}
      [] kind[n] = "Verify" -> {"ok", "VerificationFailed"}
      [] kind[n] = "Approval" -> IF standing_approval THEN {"ok"} ELSE {}

TaskEnds ==
    /\ TaskWorks
    /\ \E result \in execute(active.node) :
        active' = [active EXCEPT !.task = "over", !.result = result]
    /\ UNCHANGED signals /\ TaskOnly

TaskTimesOut ==
    /\ TaskRuns /\ Running /\ active.node \in timeout
    /\ active' = [active EXCEPT !.task = "over", !.result = "BackendTimeout"]
    /\ UNCHANGED signals /\ TaskOnly

\* The executor sees its token, or CANCEL_GRACE passes.
TaskCancelled ==
    /\ TaskRuns /\ active.token
    /\ active' = [active EXCEPT !.task = "over", !.result = "cancelled"]
    /\ UNCHANGED signals /\ TaskOnly

-----------------------------------------------------------------------------
(* The handle, the process and the host *)

\* cancel() also reaches the attempt, whose token is a child of the run's.
CancelRequested ==
    /\ Cancels /\ loop \notin Ended /\ ~cancellation
    /\ cancellation' = TRUE
    /\ active' = TokenCancelled(active)
    /\ UNCHANGED <<run, loop, signals, cancel_applied, store, started, reported, faults, controls>>

Crash ==
    /\ loop \notin {"finished", "down"} /\ faults < MaxFaults
    /\ faults' = faults + 1
    /\ loop' = "down" /\ active' = None /\ signals' = <<>>
    /\ store' = [store EXCEPT !.cached = FALSE]
    /\ UNCHANGED <<run, cancellation, cancel_applied, started, reported, controls>>

ResumeRun ==
    /\ loop \in Ended \ {"finished"}
    /\ store.snapshot # None /\ store.snapshot.status \notin Terminal
    /\ run' = store.snapshot /\ loop' = "recover"
    /\ active' = None /\ signals' = <<>>
    /\ cancellation' = FALSE /\ cancel_applied' = FALSE
    /\ UNCHANGED <<store, started, reported, faults, controls>>

repair_target(r, n) ==
    IF kind[n] = "Verify" /\ r.verification_failed THEN retry_target[n] ELSE None

\* Fault: the steps the failure skipped stay skipped.
ReopenedSkipping(r) ==
    [r EXCEPT !.status = "Ready", !.paused = FALSE, !.failed_step = None,
              !.steps[r.failed_step].status = "Ready",
              !.steps[r.failed_step].retry_base = r.steps[r.failed_step].attempts]

\* The failed step, or the step that repairs its work, is ready again and the
\* steps that were skipped are pending.
Reopened(r) ==
    LET failed == r.failed_step
        target == repair_target(r, failed)
        again == IF target = None THEN failed ELSE target
        span == IF target = None THEN {} ELSE retry_spans[failed]
    IN  [r EXCEPT
          !.status = "Ready", !.paused = FALSE,
          !.failed_step = None, !.verification_failed = FALSE,
          !.steps = [n \in Nodes |->
            IF n = again
              THEN [r.steps[n] EXCEPT
                     !.status = "Ready", !.retry_base = r.steps[n].attempts,
                     !.output = IF n \in span THEN 0 ELSE r.steps[n].output]
            ELSE IF n \in span
              THEN [r.steps[n] EXCEPT !.status = "Pending", !.output = 0, !.checkpoint = FALSE]
            ELSE IF r.steps[n].status = "Skipped"
              THEN [r.steps[n] EXCEPT !.status = "Pending"]
            ELSE r.steps[n]]]

\* The user retries a failed run: a new run, in a directory of its own.
retry_failed ==
    /\ loop = "finished" /\ run.status = "Failed" /\ run.failed_step # None
    /\ controls < MaxControls /\ controls' = controls + 1
    /\ run' = Reopened(run) /\ loop' = "recover"
    /\ active' = None /\ signals' = <<>>
    /\ cancellation' = FALSE /\ cancel_applied' = FALSE
    /\ store' = [snapshot |-> None, ahead |-> FALSE, cached |-> FALSE]
    /\ UNCHANGED <<started, reported, faults>>

-----------------------------------------------------------------------------
Answers == Resume \/ resolve_permission \/ resolve_input
TaskGoesOn == ReportSignal \/ Ask \/ TaskEnds \/ TaskCancelled

Next ==
    \/ Drives \/ Elapsed
    \/ Pause \/ Answers \/ on_signal \/ on_stalled \/ on_step_done
    \/ TaskGoesOn \/ TaskTimesOut
    \/ CancelRequested \/ Crash \/ ResumeRun \/ retry_failed

Spec == Init /\ [][Next]_vars

\* The loop is a task the runtime schedules; executors end (their backends
\* and tools have limits of their own); the user answers and resumes.
Progress == Drives \/ on_signal \/ on_step_done \/ TaskGoesOn \/ Answers

FairSpec == Spec /\ WF_vars(Progress)

-----------------------------------------------------------------------------
(* Properties *)

\* Every variable keeps its type: what the loop holds and what the store
\* has on disk are well-formed run states, and the attempt is one of a step.
TypeOK ==
    /\ run \in Runs
    /\ loop \in LoopStates
    /\ active \in Attempts \cup {None}
    /\ signals \in Seq({"usage", "permission", "checkpoint", "input"})
    /\ cancellation \in BOOLEAN /\ cancel_applied \in BOOLEAN
    /\ store \in [snapshot : Runs \cup {None}, ahead : BOOLEAN, cached : BOOLEAN]
    /\ started \in [Nodes -> Nat] /\ reported \in [Nodes -> Nat]
    /\ faults \in 0..MaxFaults /\ controls \in 0..MaxControls

Live == Running /\ run.status # "Cancelling"

\* One step at a time: the loop's attempt is the reducer's, and at most one
\* step is under way, ready or to be retried, through every send-back,
\* failure route, pause and restart.
OneStepAtATime ==
    Live =>
      /\ ActiveSteps(run) = IF active = None THEN {} ELSE {active.node}
      /\ active # None => active.attempt = run.steps[active.node].attempts
      /\ Cardinality({n \in Nodes : run.steps[n].status
                        \in ActiveStatus \cup {"Ready", "RetryScheduled"}}) = 1

\* No work is accepted on results that have been sent back: a step that has
\* succeeded was given what the steps before it have made last.
ResultsAreCurrent ==
    \A n \in Nodes : run.steps[n].status = "Succeeded" =>
        \A m \in ancestors[n] : run.steps[n].read[m] = run.steps[m].output

\* store.rs: the runner commits every transition before it acts on it, so
\* whatever crashes, the store knows of every attempt that was started.
EveryAttemptIsOnRecord ==
    store.snapshot # None =>
        \A n \in Nodes : started[n] <= store.snapshot.steps[n].attempts

\* launch.rs: an agent attempt in flight when the run stopped fails closed;
\* its step is not started again as long as its end is unknown.
NoBlindRerun ==
    [][\A n \in Nodes : kind[n] \in {"Agent", "Subflow"} /\ started'[n] > started[n]
                            => started[n] = reported[n]]_vars

\* The loop never finds itself without a runnable step, and the reducer
\* refuses what an attempt reports only in a run that is being cancelled.
NoDeadEnds ==
    /\ loop # "stalled"
    /\ loop = "rejected" => run.status = "Cancelling"

\* Every run ends, if the user answers and resumes.
RunEnds == (loop \notin Ended) ~> (loop \in Ended)

\* store.rs, FileOrchestrationStore: after a crash the log may run ahead of
\* the snapshot, and its later events are informational.
LogMayRunAhead == loop # "sequence_gap"

\* signals.rs, apply_or_warn: only a persistence failure ends the run.
OnlyPersistenceEndsTheRun == loop \notin {"rejected", "stalled"}
=============================================================================

------------------------------- MODULE TaskQueue ----------------------------
(***************************************************************************)
(* The persisted, serial task queue of workflow-runtime: one step of a     *)
(* workflow works through a plan's tasks.  Each task is planned, built     *)
(* under a watchdog, typechecked and reviewed, in rounds of attempts; a    *)
(* round that fails is kept, or undone and once split into steps; then the *)
(* failure policy decides.  Steps after the queue may reject its result,   *)
(* the user may ask for changes, and the queue runs again.                 *)
(*                                                                         *)
(* The progress p is saved at every checkpoint.  Everything else is lost   *)
(* when the step stops, except the working tree, which keeps what the      *)
(* builders did.  A tree is the set of edits in it: a task and how often   *)
(* feedback had come when it was built.  What a planner, a builder, the    *)
(* typecheck and a reviewer say are inputs.  Texts, locations, usage and   *)
(* the git refs are left out; the workspace is one repository, whose       *)
(* snapshots succeed.                                                      *)
(***************************************************************************)
EXTENDS Naturals, Sequences

CONSTANTS
    Tasks,            \* the plan's tasks, in order
    DependsOn,        \* [task -> tasks it builds on]
    FlowTasks,        \* the tasks one of the queue's flows does
    Repair,           \* the task final-repair
    None,
    max_repairs,
    HasPlanner,       \* the queue has a task planner
    Steps,            \* into how many steps a split task goes
    on_task_failure,  \* "Stop", "Skip" or "Ask"
    plan_revisable,
    MaxFeedback,      \* bound: rejections and change requests
    MaxFaults         \* bound: interruptions

Planned == {Tasks[i] : i \in 1 .. Len(Tasks)}

(***************************************************************************)
(* Where the queue may be, and what a try and a progress may hold.         *)
(***************************************************************************)
Names == Planned \cup {Repair}
Edits == Names \X Nat
Requests == {"rejection", "change"} \X Nat

Entries == [task : Planned, how : {"skipped", "flow", "accepted"}]
Attempts ==
    [task : Names \cup {None}, status : {"none", "complete", "blocked_environment", "unfinished", "blocked"},
     stopped : BOOLEAN, undone : BOOLEAN, kept : BOOLEAN]
Baselines == [task : Names, tree : SUBSET Edits]
Splits == [task : Names, done : Nat]

Places ==
    {"idle", "walk", "retry", "plan", "build", "built", "review", "round", "undone", "failed",
     "settled", "finished"}
Jobs ==
    [guidance : BOOLEAN, repair : Nat, changed : BOOLEAN,
     last : {"Unfinished", "Stopped", "NewErrors", "Rejected", "Disagreement"}]

Progress ==
    [completed : Seq(Entries), current : Attempts \cup {None},
     handled_rejections : Nat, handled_changes : Nat, pending_repair : SUBSET Requests,
     step_plan : Names \cup {None}, baseline : Baselines \cup {None}, split : Splits \cup {None},
     answered : SUBSET Requests, unfinished : SUBSET Edits, accepted : SUBSET Edits]

ASSUME QueueAssumption ==
    /\ Tasks \in Seq(Planned) /\ Tasks # <<>> /\ Repair \notin Planned
    /\ \A i, j \in 1 .. Len(Tasks) : Tasks[i] = Tasks[j] => i = j
    /\ \A i \in 1 .. Len(Tasks) : DependsOn[Tasks[i]] \subseteq {Tasks[j] : j \in 1 .. i - 1}
    /\ FlowTasks \subseteq Planned
    /\ {max_repairs, Steps, MaxFeedback, MaxFaults} \subseteq Nat /\ Steps \in 2 .. 5
    /\ None \notin Names \cup Attempts \cup Baselines \cup Splits \cup Progress

VARIABLES
    pc,        \* where the queue is; "failed" waits for the failure policy
    p,         \* the progress in memory
    saved,     \* the step's checkpoint
    at,        \* the task of the walk; one past the plan is the repair
    job,       \* the try: guidance, number of the attempt, how the last one ended
    tree,      \* the working tree
    feedback,  \* what came back: the tasks rejections point at (0: none), change requests
    faults
vars == <<pc, p, saved, at, job, tree, feedback, faults>>

task == IF at <= Len(Tasks) THEN Tasks[at] ELSE Repair
planned == at <= Len(Tasks)

(***************************************************************************)
(* Progress.  answered, unfinished and accepted are history: the requests  *)
(* that were settled, the edits of builds that did not finish, the edits   *)
(* that were in the tree when a task or a repair was last accepted.        *)
(***************************************************************************)
NewProgress ==
    [completed |-> <<>>, current |-> None, handled_rejections |-> 0, handled_changes |-> 0,
     pending_repair |-> {}, step_plan |-> None, baseline |-> None, split |-> None,
     answered |-> {}, unfinished |-> {}, accepted |-> {}]

NewJob == [guidance |-> FALSE, repair |-> 0, last |-> "Unfinished", changed |-> FALSE]

Edit(q) == <<task, q.handled_rejections + q.handled_changes>>

Of(field, t) == field # None /\ field.task = t

\* Fault: a split whose steps are all done is forgotten.
SplitWhilePending(q, t) == Of(q.split, t) /\ q.split.done < Steps

split_tried(q, t) == Of(q.split, t)
pending_split(q, t) == Of(q.split, t) /\ q.split.done < Steps

skipped_dependency(q, t) ==
    \E i \in DOMAIN q.completed : q.completed[i].how = "skipped" /\ q.completed[i].task \in DependsOn[t]

\* A checkpoint is only good with each finished task in order.
check_matches_plan(q) ==
    /\ Len(q.completed) <= Len(Tasks)
    /\ \A i \in DOMAIN q.completed : q.completed[i].task = Tasks[i]

Current(status, stopped) ==
    [task |-> task, status |-> status, stopped |-> stopped, undone |-> FALSE, kept |-> FALSE]
Rejection == [task |-> None, status |-> "none", stopped |-> FALSE, undone |-> FALSE, kept |-> FALSE]

\* The rejection that reopened the task at i is answered once the task is settled again.
Answers(q, i) ==
    IF q.handled_rejections > 0 /\ feedback.rejections[q.handled_rejections] = i
    THEN {<<"rejection", q.handled_rejections>>} ELSE {}

Push(q, how) ==
    [q EXCEPT !.completed = Append(@, [task |-> task, how |-> how]), !.answered = @ \cup Answers(q, at)]

(***************************************************************************)
(* What the queue is told when it runs again.                              *)
(***************************************************************************)
\* The number of unhandled rejections does not matter: only the last is read.
reopen_after_rejection(q) ==
    LET n == Len(feedback.rejections)
        seen == [q EXCEPT !.handled_rejections = n]
        reopen == feedback.rejections[n]
    IN IF n <= q.handled_rejections THEN q
       ELSE IF reopen > 0
            THEN [seen EXCEPT !.completed = SubSeq(@, 1, IF Len(@) < reopen THEN Len(@) ELSE reopen - 1),
                              !.current = Rejection]
            ELSE [seen EXCEPT !.pending_repair = {<<"rejection", n>>}, !.current = None]

queue_user_changes(q) ==
    IF feedback.changes <= q.handled_changes THEN q
    ELSE [q EXCEPT !.handled_changes = feedback.changes,
                   !.pending_repair = @ \cup {<<"change", feedback.changes>>}]

absorb(q) == queue_user_changes(reopen_after_rejection(q))

(***************************************************************************)
(* A checkpoint is committed with the run, or the step ends there: the     *)
(* commit failed, or the process stopped.                                  *)
(***************************************************************************)
Goto(next, a, j) == pc' = next /\ at' = a /\ job' = j

Stops == Goto("idle", 1, NewJob) /\ p' = NewProgress

Checkpoint(q, next, a, j) ==
    \/ /\ p' = q /\ saved' = q
       /\ Goto(next, a, j)
       /\ UNCHANGED faults
    \/ /\ faults < MaxFaults /\ faults' = faults + 1
       /\ Stops
       /\ UNCHANGED saved

Init ==
    /\ pc = "idle" /\ p = NewProgress /\ saved = None /\ at = 1 /\ job = NewJob
    /\ tree = {}
    /\ feedback = [rejections |-> <<>>, changes |-> 0]
    /\ faults = 0

read_progress == IF saved = None THEN NewProgress ELSE saved

StartQueue ==
    /\ pc = "idle"
    /\ check_matches_plan(read_progress)
    /\ LET q == absorb(read_progress) IN Checkpoint(q, "walk", Len(q.completed) + 1, NewJob)
    /\ UNCHANGED <<tree, feedback>>

(***************************************************************************)
(* The tree a task starts from, and undoing an attempt.                    *)
(***************************************************************************)
baseline(q) ==
    IF Of(q.baseline, task) THEN q ELSE [q EXCEPT !.baseline = [task |-> task, tree |-> tree]]

\* Fault: an attempt is only undone when the user gives guidance.
UndoWhenGuided(q, t, guidance) == Of(q.current, t) /\ ~q.current.undone /\ ~q.current.kept /\ guidance

needs_undo(q, t, guidance) ==
    /\ Of(q.current, t)
    /\ ~q.current.undone /\ ~q.current.kept
    /\ guidance \/ q.current.stopped \/ q.current.status # "complete"

\* What the tree is after an undo; nothing without a baseline of this task.
Restored(q) == IF Of(q.baseline, task) THEN q.baseline.tree ELSE tree

undo_attempt(q) ==
    LET noted == IF q.current = None THEN Current("none", FALSE) ELSE q.current
    IN [q EXCEPT !.current = IF Restored(q) = tree THEN @ ELSE [noted EXCEPT !.undone = TRUE],
                 !.unfinished = IF Of(q.baseline, task) THEN @ \ {Edit(q)} ELSE @]

\* Fault: the repair counts as taken once it starts.
StartTakingTheRepair(q, guidance) ==
    [(IF needs_undo(q, task, guidance) THEN undo_attempt(q) ELSE q)
        EXCEPT !.pending_repair = IF planned THEN @ ELSE {}]

start_from_the_baseline(q, guidance) == IF needs_undo(q, task, guidance) THEN undo_attempt(q) ELSE q

(***************************************************************************)
(* Walking the plan.                                                       *)
(***************************************************************************)
\* The task is the walk's next and not blocked, or is tried again.
Taken ==
    \/ pc = "retry"
    \/ pc = "walk" /\ planned /\ ~skipped_dependency(p, task)
    \/ pc = "walk" /\ ~planned /\ p.pending_repair # {}

skip_if_blocked ==
    /\ pc = "walk" /\ planned /\ skipped_dependency(p, task)
    /\ Checkpoint(Push(p, "skipped"), "walk", at + 1, NewJob)
    /\ UNCHANGED <<tree, feedback>>

\* An accepted or skipped task: the walk goes on; after the repair it is over.
Onward == IF planned THEN "walk" ELSE "settled"

\* A build may leave the code as it is, or add to it.
Edited(q) == {tree, tree \cup {Edit(q)}}

run_task_flow ==
    /\ Taken /\ task \in FlowTasks
    /\ \E t \in Edited(p) :
         /\ tree' = t
         /\ \/ Checkpoint([Push(p, "flow") EXCEPT !.current = None, !.accepted = t], "walk", at + 1, NewJob)
            \/ Goto("failed", at, NewJob) /\ UNCHANGED <<p, saved, faults>>
    /\ UNCHANGED feedback

StartTask ==
    /\ Taken /\ task \notin FlowTasks
    /\ LET q == baseline(p)
           undo == needs_undo(q, task, job.guidance)
       IN /\ tree' = IF undo THEN Restored(q) ELSE tree
          /\ Checkpoint(start_from_the_baseline(q, job.guidance), "plan", at, [NewJob EXCEPT !.guidance = job.guidance])
    /\ UNCHANGED feedback

record_split(q) == [q EXCEPT !.split = [task |-> task, done |-> 0], !.step_plan = None]

\* No planner, steps still to do, or a plan kept from before.
NeedsNoPlan == ~HasPlanner \/ pending_split(p, task) \/ (p.step_plan = task /\ ~job.guidance)

plan_task ==
    /\ pc = "plan"
    /\ \/ NeedsNoPlan /\ Goto("build", at, NewJob) /\ UNCHANGED <<p, saved, faults>>
       \/ ~NeedsNoPlan /\ Checkpoint([p EXCEPT !.step_plan = task], "build", at, NewJob)
       \/ ~NeedsNoPlan /\ Checkpoint(record_split(p), "build", at, NewJob)
       \/ ~NeedsNoPlan /\ Goto("failed", at, NewJob) /\ UNCHANGED <<p, saved, faults>>   \* a design gap
    /\ UNCHANGED <<tree, feedback>>

(***************************************************************************)
(* One attempt: build, typecheck, review.                                  *)
(***************************************************************************)
\* The next attempt of the round, or its end.
Again(ended) ==
    IF job.repair < max_repairs
    THEN [next |-> "build", job |-> [job EXCEPT !.repair = @ + 1, !.last = ended, !.changed = FALSE]]
    ELSE [next |-> "round", job |-> [NewJob EXCEPT !.last = ended]]

builder_done == {"complete", "blocked_environment"}

record_build(q, status, changed) ==
    LET noted == [q EXCEPT !.current = Current(status, FALSE),
                           !.unfinished = IF status \in builder_done THEN @ \ {Edit(q)}
                                          ELSE IF changed THEN @ \cup {Edit(q)} ELSE @]
    IN IF status = "unfinished"
       THEN LET again == Again("Unfinished") IN Checkpoint(noted, again.next, at, again.job)
       ELSE Checkpoint(noted, IF status \in builder_done THEN "review" ELSE "failed", at,
                       IF status \in builder_done THEN [job EXCEPT !.changed = changed] ELSE NewJob)

finish_step(q, t) == [q EXCEPT !.split.done = @ + 1, !.baseline = [task |-> task, tree |-> t]]

\* The watchdog stops the build.
BuildStopped ==
    /\ pc = "build"
    /\ \E t \in Edited(p) :
         /\ tree' = t
         /\ p' = [p EXCEPT !.current = Current("none", TRUE), !.unfinished = @ \cup {Edit(p)}]
    /\ Goto("round", at, [NewJob EXCEPT !.last = "Stopped"])
    /\ UNCHANGED <<saved, feedback, faults>>

\* The builder replies: about the whole task, or about a step of a split one.
build_task ==
    /\ pc = "build"
    /\ \E changed \in BOOLEAN, status \in {"complete", "blocked_environment", "unfinished", "blocked"} :
       \E t \in (IF changed THEN Edited(p) ELSE {tree}) :
         /\ tree' = t
         /\ LET touched == job.changed \/ changed
                q == finish_step(p, t)
            IN IF pending_split(p, task) /\ status \in builder_done
               THEN Checkpoint(q, IF pending_split(q, task) THEN "build" ELSE "built", at,
                               [job EXCEPT !.changed = touched])
               ELSE record_build(p, status, touched)
    /\ UNCHANGED feedback

AllStepsBuilt ==
    /\ pc = "built"
    /\ record_build(p, "complete", job.changed)
    /\ UNCHANGED <<tree, feedback>>

\* The build added typecheck errors, compared with those before the try.
check_after_build ==
    /\ pc = "review"
    /\ LET again == Again("NewErrors") IN Checkpoint(p, again.next, at, again.job)
    /\ UNCHANGED <<tree, feedback>>

Accepted(q) == IF planned THEN Push(q, "accepted") ELSE [q EXCEPT !.answered = @ \cup q.pending_repair]

\* Fault: an accepted task leaves its baseline behind.
AcceptanceKeepingBaseline(q) ==
    [Accepted(q) EXCEPT !.current = None, !.step_plan = None, !.split = None, !.accepted = tree]

record_acceptance(q) ==
    [Accepted(q) EXCEPT !.current = None, !.step_plan = None, !.baseline = None, !.split = None,
                        !.accepted = tree]

review_accepts ==
    /\ pc = "review"
    /\ Checkpoint(record_acceptance(p), Onward, at + 1, NewJob)
    /\ UNCHANGED <<tree, feedback>>

review_rejects ==
    /\ pc = "review"
    /\ LET again == IF job.last = "Rejected" /\ ~job.changed
                    THEN [next |-> "round", job |-> [NewJob EXCEPT !.last = "Disagreement"]]
                    ELSE Again("Rejected")
       IN Checkpoint(p, again.next, at, again.job)
    /\ UNCHANGED <<tree, feedback>>

\* The review could not reach a verdict.
review_unfinished ==
    /\ pc = "review"
    /\ Checkpoint(p, "failed", at, NewJob)
    /\ UNCHANGED <<tree, feedback>>

(***************************************************************************)
(* The end of a round, and of a task that failed.                          *)
(***************************************************************************)
keep_the_work ==
    /\ pc = "round" /\ job.last \in {"Rejected", "Disagreement"}
    /\ Checkpoint([p EXCEPT !.current.kept = TRUE], "failed", at, NewJob)
    /\ UNCHANGED <<tree, feedback>>

undo_and_checkpoint ==
    /\ pc = "round" /\ job.last \notin {"Rejected", "Disagreement"}
    /\ tree' = Restored(p)
    /\ Checkpoint(undo_attempt(p), "undone", at, NewJob)
    /\ UNCHANGED feedback

\* Once per task; the planner may find no steps.
try_split ==
    /\ pc = "undone"
    /\ \/ /\ ~split_tried(p, task) /\ HasPlanner
          /\ Checkpoint(record_split(p), "build", at, NewJob)
       \/ Goto("failed", at, NewJob) /\ UNCHANGED <<p, saved, faults>>
    /\ UNCHANGED <<tree, feedback>>

Retry ==
    /\ pc = "failed" /\ on_task_failure = "Ask"
    /\ \E notes \in BOOLEAN : Goto("retry", at, [NewJob EXCEPT !.guidance = notes])
    /\ UNCHANGED <<p, saved, tree, feedback, faults>>

Skipped(q) ==
    IF planned THEN Push(q, "skipped")
    ELSE [q EXCEPT !.pending_repair = {}, !.answered = @ \cup q.pending_repair]

skip ==
    /\ pc = "failed" /\ on_task_failure \in {"Skip", "Ask"}
    /\ Checkpoint([Skipped(p) EXCEPT !.current = None, !.step_plan = None], Onward, at + 1, NewJob)
    /\ UNCHANGED <<tree, feedback>>

\* The step fails; the run may be resumed from its checkpoint.
StopHere ==
    /\ pc = "failed" /\ on_task_failure \in {"Stop", "Ask"}
    /\ Stops
    /\ UNCHANGED <<saved, tree, feedback, faults>>

\* The planner is sent the changes: the queue starts over with its plan, its
\* checkpoint is dropped and the feedback it had stays.
RevisePlan ==
    /\ pc = "failed" /\ on_task_failure = "Ask" /\ plan_revisable
    /\ saved' = None
    /\ Stops
    /\ UNCHANGED <<tree, feedback, faults>>

RepairSettled ==
    /\ pc = "settled"
    /\ Checkpoint([p EXCEPT !.pending_repair = {}], "walk", at, NewJob)
    /\ UNCHANGED <<tree, feedback>>

Finish ==
    /\ pc = "walk" /\ ~planned /\ p.pending_repair = {}
    /\ Goto("finished", at, NewJob)
    /\ UNCHANGED <<p, saved, tree, feedback, faults>>

(***************************************************************************)
(* Around the queue: sessions that fail, cancellation, the process's end;  *)
(* the verification and the user, after the queue has finished.            *)
(***************************************************************************)
Interrupted ==
    /\ pc \notin {"idle", "finished"} /\ faults < MaxFaults
    /\ faults' = faults + 1
    /\ Stops
    /\ UNCHANGED <<saved, tree, feedback>>

Told(f) ==
    /\ pc = "finished" /\ Len(feedback.rejections) + feedback.changes < MaxFeedback
    /\ feedback' = f
    /\ Stops
    /\ UNCHANGED <<saved, tree, faults>>

Rejected == \E i \in 0 .. Len(Tasks) : Told([feedback EXCEPT !.rejections = Append(@, i)])
ChangesRequested == Told([feedback EXCEPT !.changes = @ + 1])

QueueStep ==
    \/ skip_if_blocked \/ run_task_flow \/ StartTask \/ plan_task
    \/ BuildStopped \/ build_task \/ AllStepsBuilt
    \/ check_after_build \/ review_accepts \/ review_rejects \/ review_unfinished
    \/ keep_the_work \/ undo_and_checkpoint \/ try_split
    \/ RepairSettled \/ Finish

Next ==
    \/ StartQueue \/ QueueStep
    \/ Retry \/ skip \/ StopHere \/ RevisePlan
    \/ Interrupted \/ Rejected \/ ChangesRequested

Spec == Init /\ [][Next]_vars

\* The queue's own steps are taken; nobody has to answer it, and nothing has to fail.
FairSpec == Spec /\ WF_vars(QueueStep)

(***************************************************************************)
(* Properties.                                                             *)
(***************************************************************************)
(***************************************************************************)
(* The progress, in memory and saved, has the fields of the code's; only   *)
(* planned tasks are completed, and rejections point into the plan.        *)
(***************************************************************************)
TypeOK ==
    /\ pc \in Places
    /\ p \in Progress /\ saved \in Progress \cup {None}
    /\ at \in Nat \ {0}
    /\ job \in Jobs
    /\ tree \subseteq Edits
    /\ feedback \in [rejections : Seq(0 .. Len(Tasks)), changes : Nat]
    /\ faults \in Nat

(***************************************************************************)
(* Undoing an attempt goes back to the baseline of its own task: however   *)
(* tasks are retried, split, skipped, reopened and interrupted, the tree   *)
(* keeps all that was in it when a task or a repair was accepted.  (Not so *)
(* for every plan with flows: the end of a flow leaves an old baseline.)   *)
(***************************************************************************)
AcceptedWorkStays == p.accepted \subseteq tree

(***************************************************************************)
(* A try starts without the edits of an earlier try that did not finish,   *)
(* also after the step stopped and was resumed from its checkpoint, as     *)
(* long as nothing interrupted it between two checkpoints.                 *)
(***************************************************************************)
TriesStartClean == pc = "plan" /\ faults = 0 => Edit(p) \notin p.unfinished

(***************************************************************************)
(* The queue does not finish before the last rejection and the last change *)
(* request were each answered: the task it points at settled again, or a   *)
(* repair made or skipped, whatever was interrupted or revised meanwhile.  *)
(***************************************************************************)
EveryRequestIsAnswered ==
    pc = "finished" =>
        /\ feedback.rejections # <<>> => <<"rejection", Len(feedback.rejections)>> \in p.answered
        /\ feedback.changes > 0 => <<"change", feedback.changes>> \in p.answered

(***************************************************************************)
(* Rounds, splits and walks end: the queue comes to rest, or asks.         *)
(***************************************************************************)
QueueComesToRest == []<>(pc \in {"idle", "failed", "finished"})
=============================================================================

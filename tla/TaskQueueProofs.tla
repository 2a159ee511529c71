-------------------------- MODULE TaskQueueProofs --------------------------
(***************************************************************************)
(* What TaskQueue promises for every plan, policy and bound.               *)
(***************************************************************************)
EXTENDS TaskQueue, TLAPS

TaskAt(a) == IF a <= Len(Tasks) THEN Tasks[a] ELSE Repair

LEMMA Plan ==
    /\ Len(Tasks) \in Nat \ {0}
    /\ \A i \in 1 .. Len(Tasks) : Tasks[i] \in Planned
    /\ \A a \in Nat \ {0} : TaskAt(a) \in Names
    /\ NewProgress \in Progress /\ NewJob \in Jobs
  BY QueueAssumption, SMTT(30) DEF Planned, TaskAt, Names, NewProgress, NewJob, Progress, Jobs, Entries, Attempts

LEMMA TaskType == TypeOK => task \in Names /\ (planned => task \in Planned) /\ task = TaskAt(at)
  BY Plan DEF TypeOK, task, TaskAt, planned

(***************************************************************************)
(* The changes of a progress keep its type.                                *)
(***************************************************************************)
LEMMA EditType == ASSUME TypeOK PROVE \A q \in Progress : Edit(q) \in Edits
  BY TaskType DEF Edit, Edits, Progress

LEMMA PushType ==
    ASSUME TypeOK, planned PROVE
        \A q \in Progress, how \in {"skipped", "flow", "accepted"} : Push(q, how) \in Progress
<1> SUFFICES ASSUME NEW q \in Progress, NEW how \in {"skipped", "flow", "accepted"}
             PROVE Push(q, how) \in Progress
  OBVIOUS
<1>1. [task |-> task, how |-> how] \in Entries  BY TaskType DEF Entries
<1>2. Append(q.completed, [task |-> task, how |-> how]) \in Seq(Entries)
  BY <1>1 DEF Progress
<1>3. q.answered \cup Answers(q, at) \in SUBSET Requests  BY DEF Progress, Answers, Requests
<1> QED  BY <1>2, <1>3 DEF Push, Progress

LEMMA ReopenType == ASSUME TypeOK PROVE \A q \in Progress : reopen_after_rejection(q) \in Progress
<1> SUFFICES ASSUME NEW q \in Progress PROVE reopen_after_rejection(q) \in Progress  OBVIOUS
<1> DEFINE n == Len(feedback.rejections)
<1>1. n \in Nat /\ q.completed \in Seq(Entries)  BY DEF TypeOK, Progress
<1>2. Rejection \in Attempts  BY DEF Rejection, Attempts
<1>3. {<<"rejection", n>>} \in SUBSET Requests  BY <1>1 DEF Requests
<1>4. ASSUME n > q.handled_rejections, feedback.rejections[n] > 0
      PROVE SubSeq(q.completed, 1, IF Len(q.completed) < feedback.rejections[n] THEN Len(q.completed)
                                  ELSE feedback.rejections[n] - 1) \in Seq(Entries)
  <2>1. feedback.rejections[n] \in 0 .. Len(Tasks)  BY <1>4, <1>1 DEF TypeOK, Progress
  <2> QED  BY <2>1, <1>1, <1>4, Plan
<1>5. CASE n <= q.handled_rejections  BY <1>5 DEF reopen_after_rejection
<1>6. CASE n > q.handled_rejections /\ feedback.rejections[n] > 0
  BY <1>1, <1>2, <1>4, <1>6 DEF reopen_after_rejection, Progress
<1>7. CASE n > q.handled_rejections /\ ~(feedback.rejections[n] > 0)
  BY <1>1, <1>3, <1>7 DEF reopen_after_rejection, Progress
<1> QED  BY <1>1, <1>5, <1>6, <1>7 DEF Progress

LEMMA AbsorbType == ASSUME TypeOK PROVE \A q \in Progress : absorb(q) \in Progress
<1> SUFFICES ASSUME NEW q \in Progress PROVE absorb(q) \in Progress  OBVIOUS
<1> DEFINE r == reopen_after_rejection(q)
<1>1. r \in Progress  BY ReopenType
<1>2. queue_user_changes(r) \in Progress
  <2> HIDE DEF r
  <2>1. feedback.changes \in Nat  BY DEF TypeOK
  <2>2. {<<"change", feedback.changes>>} \subseteq Requests  BY <2>1 DEF Requests
  <2>3. r.pending_repair \cup {<<"change", feedback.changes>>} \in SUBSET Requests  BY <1>1, <2>2 DEF Progress
  <2> QED  BY <1>1, <2>1, <2>3 DEF queue_user_changes, Progress
<1> QED  BY <1>2 DEF absorb

LEMMA BaselineType == ASSUME TypeOK PROVE \A q \in Progress : baseline(q) \in Progress
  BY TaskType DEF baseline, Progress, Baselines, TypeOK

LEMMA RestoredType == ASSUME TypeOK PROVE \A q \in Progress : Restored(q) \subseteq Edits
  BY DEF Restored, Of, Progress, Baselines, TypeOK

LEMMA CurrentType ==
    ASSUME TypeOK PROVE
        \A s \in {"none", "complete", "blocked_environment", "unfinished", "blocked"}, b \in BOOLEAN :
            Current(s, b) \in Attempts
  BY TaskType DEF Current, Attempts

LEMMA UndoType == ASSUME TypeOK PROVE \A q \in Progress : undo_attempt(q) \in Progress
<1> SUFFICES ASSUME NEW q \in Progress PROVE undo_attempt(q) \in Progress  OBVIOUS
<1> DEFINE noted == IF q.current = None THEN Current("none", FALSE) ELSE q.current
<1>1. noted \in Attempts  BY CurrentType DEF Progress
<1>2. [noted EXCEPT !.undone = TRUE] \in Attempts  BY <1>1 DEF Attempts
<1> HIDE DEF noted
<1>3. (IF Restored(q) = tree THEN q.current ELSE [noted EXCEPT !.undone = TRUE]) \in Attempts \cup {None}
  BY <1>2 DEF Progress
<1>4. undo_attempt(q) = [q EXCEPT !.current = IF Restored(q) = tree THEN @ ELSE [noted EXCEPT !.undone = TRUE],
                                  !.unfinished = IF Of(q.baseline, task) THEN @ \ {Edit(q)} ELSE @]
  BY DEF undo_attempt, noted
<1> QED  BY <1>3, <1>4 DEF Progress

LEMMA FinishStepType ==
    ASSUME TypeOK, pending_split(p, task) PROVE \A t : t \subseteq Edits => finish_step(p, t) \in Progress
<1> SUFFICES ASSUME NEW t, t \subseteq Edits PROVE finish_step(p, t) \in Progress  OBVIOUS
<1>1. p \in Progress /\ task \in Names  BY TaskType DEF TypeOK
<1>2. p.split \in Splits  BY <1>1 DEF Progress, pending_split, Of
<1>3. [p.split EXCEPT !.done = @ + 1] \in Splits  BY <1>2 DEF Splits
<1>4. [task |-> task, tree |-> t] \in Baselines  BY <1>1 DEF Baselines
<1>5. finish_step(p, t) = [p EXCEPT !.split = [p.split EXCEPT !.done = @ + 1], !.baseline = [task |-> task, tree |-> t]]
  BY <1>1, <1>2 DEF finish_step, Progress, Splits
<1> QED  BY <1>1, <1>3, <1>4, <1>5 DEF Progress

(***************************************************************************)
(* Where a checkpoint leads keeps its type.                                *)
(***************************************************************************)
LEMMA CheckpointType ==
    ASSUME TypeOK, tree' \subseteq Edits, UNCHANGED feedback PROVE
        \A q \in Progress, n \in Places, a \in Nat \ {0}, j \in Jobs : Checkpoint(q, n, a, j) => TypeOK'
<1> SUFFICES ASSUME NEW q \in Progress, NEW n \in Places, NEW a \in Nat \ {0}, NEW j \in Jobs,
                    Checkpoint(q, n, a, j)
             PROVE TypeOK'
  OBVIOUS
<1>1. CASE p' = q /\ saved' = q /\ Goto(n, a, j) /\ UNCHANGED faults
  BY <1>1 DEF TypeOK, Goto
<1>2. CASE faults' = faults + 1 /\ Stops /\ UNCHANGED saved
  BY <1>2, Plan DEF TypeOK, Stops, Goto, Places
<1> QED  BY <1>1, <1>2 DEF Checkpoint

LEMMA GotoType ==
    ASSUME TypeOK, tree' \subseteq Edits, UNCHANGED <<feedback, p, saved, faults>> PROVE
        \A n \in Places, a \in Nat \ {0}, j \in Jobs : Goto(n, a, j) => TypeOK'
  BY DEF TypeOK, Goto

LEMMA StopsType ==
    ASSUME TypeOK, Stops, tree' = tree, saved' \in {saved, None}, faults' \in Nat,
           feedback' \in [rejections : Seq(0 .. Len(Tasks)), changes : Nat]
    PROVE  TypeOK'
  BY Plan DEF TypeOK, Stops, Goto, Places

LEMMA JobTypes ==
    ASSUME TypeOK PROVE
        /\ \A g \in BOOLEAN : [NewJob EXCEPT !.guidance = g] \in Jobs
        /\ \A c \in BOOLEAN : [job EXCEPT !.changed = c] \in Jobs
        /\ \A e \in {"Unfinished", "Stopped", "NewErrors", "Rejected", "Disagreement"} :
              /\ [NewJob EXCEPT !.last = e] \in Jobs
              /\ Again(e).next \in {"build", "round"} /\ Again(e).job \in Jobs
<1>1. job \in Jobs /\ NewJob \in Jobs  BY Plan DEF TypeOK
<1>2. ASSUME NEW e \in {"Unfinished", "Stopped", "NewErrors", "Rejected", "Disagreement"}
      PROVE  /\ [NewJob EXCEPT !.last = e] \in Jobs
             /\ Again(e).next \in {"build", "round"} /\ Again(e).job \in Jobs
  <2>1. [NewJob EXCEPT !.last = e] \in Jobs  BY <1>1 DEF Jobs
  <2>2. [job EXCEPT !.repair = @ + 1, !.last = e, !.changed = FALSE] \in Jobs
    <3> DEFINE r == [job EXCEPT !.repair = @ + 1]
               l == [r EXCEPT !.last = e]
    <3>1. r \in Jobs  BY <1>1 DEF Jobs
    <3>2. l \in Jobs  BY <3>1 DEF Jobs
    <3>3. [l EXCEPT !.changed = FALSE] \in Jobs  BY <3>2 DEF Jobs
    <3>4. [job EXCEPT !.repair = @ + 1, !.last = e, !.changed = FALSE] = [l EXCEPT !.changed = FALSE]
      OBVIOUS
    <3> QED  BY <3>3, <3>4
  <2> QED  BY <2>1, <2>2 DEF Again
<1> QED  BY <1>1, <1>2 DEF Jobs

LEMMA EditedType == ASSUME TypeOK PROVE \A t \in Edited(p) : t \subseteq Edits /\ tree \subseteq t
  BY EditType DEF Edited, TypeOK

LEMMA RecordBuildType ==
    ASSUME TypeOK, tree' \subseteq Edits, UNCHANGED feedback PROVE
        \A s \in {"complete", "blocked_environment", "unfinished", "blocked"}, c \in BOOLEAN :
            record_build(p, s, c) => TypeOK'
<1> SUFFICES ASSUME NEW s \in {"complete", "blocked_environment", "unfinished", "blocked"},
                    NEW c \in BOOLEAN, record_build(p, s, c)
             PROVE TypeOK'
  OBVIOUS
<1> DEFINE noted == [p EXCEPT !.current = Current(s, FALSE),
                              !.unfinished = IF s \in builder_done THEN @ \ {Edit(p)}
                                             ELSE IF c THEN @ \cup {Edit(p)} ELSE @]
<1>1. noted \in Progress
  <2>1. p \in Progress /\ Edit(p) \in Edits /\ Current(s, FALSE) \in Attempts
    BY EditType, CurrentType DEF TypeOK
  <2> QED  BY <2>1 DEF Progress
<1>2. \/ Checkpoint(noted, Again("Unfinished").next, at, Again("Unfinished").job)
      \/ Checkpoint(noted, "review", at, [job EXCEPT !.changed = c])
      \/ Checkpoint(noted, "failed", at, NewJob)
  BY DEF record_build
<1> HIDE DEF noted
<1>3. {"build", "round", "review", "failed"} \subseteq Places /\ at \in Nat \ {0}  BY DEF Places, TypeOK
<1> QED  BY <1>1, <1>2, <1>3, CheckpointType, JobTypes, Plan

(***************************************************************************)
(* Where the queue is.  The completed tasks are the first of the plan, and *)
(* the task of the walk is the one after them.  All feedback has been read.*)
(* The checkpoint is the progress in memory, but for what a stopped build  *)
(* leaves until it is undone.  While a task is worked on, the baseline is  *)
(* its own, and a repair is due when it is the repair.                     *)
(***************************************************************************)
InOrder(q) ==
    Len(q.completed) <= Len(Tasks) /\ \A i \in 1 .. Len(q.completed) : q.completed[i].task = Tasks[i]

Busy == {"retry", "plan", "build", "built", "review", "round", "undone", "failed"}
Working == {"plan", "build", "built", "review", "round", "undone"}

Position(q, n, a, f) ==
    /\ InOrder(q)
    /\ a = Len(q.completed) + 1 \/ (a > Len(Tasks) /\ Len(q.completed) = Len(Tasks))
    /\ q.handled_rejections = Len(f.rejections) /\ q.handled_changes = f.changes
    /\ n \in Busy => a <= Len(Tasks) \/ q.pending_repair # {}
    /\ n \in Working => TaskAt(a) \notin FlowTasks /\ Of(q.baseline, TaskAt(a))
    /\ n \in {"review", "round"} => Of(q.current, TaskAt(a))
    /\ n \in {"settled", "finished"} => a > Len(Tasks)
    /\ n = "finished" => q.pending_repair = {}

Fits(q, f) ==
    InOrder(q) /\ q.handled_rejections <= Len(f.rejections) /\ q.handled_changes <= f.changes

PlaceInv ==
    /\ saved # None => Fits(saved, feedback)
    /\ pc = "idle" => p = NewProgress
    /\ pc # "idle" =>
        /\ Position(p, pc, at, feedback)
        /\ saved # None
        /\ saved = [p EXCEPT !.current = saved.current, !.unfinished = saved.unfinished]
        /\ pc # "round" => saved = p

LEMMA KeptType ==
    ASSUME TypeOK, PlaceInv, pc = "round" PROVE
        [p EXCEPT !.current.kept = TRUE] \in Progress /\ p.current \in Attempts
<1>1. p \in Progress /\ p.current # None  BY DEF TypeOK, PlaceInv, Position, Of
<1>2. p.current \in Attempts  BY <1>1 DEF Progress
<1>3. [p.current EXCEPT !.kept = TRUE] \in Attempts  BY <1>2 DEF Attempts
<1>4. [p EXCEPT !.current.kept = TRUE] = [p EXCEPT !.current = [p.current EXCEPT !.kept = TRUE]]
  BY <1>1, <1>2 DEF Progress, Attempts
<1> QED  BY <1>1, <1>2, <1>3, <1>4 DEF Progress

(***************************************************************************)
(* Every step keeps the types.                                             *)
(***************************************************************************)
LEMMA TypeStep == TypeOK /\ PlaceInv /\ [Next]_vars => TypeOK'
<1> SUFFICES ASSUME TypeOK, PlaceInv, [Next]_vars PROVE TypeOK'  OBVIOUS
<1>t. /\ p \in Progress /\ at \in Nat \ {0} /\ at + 1 \in Nat \ {0} /\ tree \subseteq Edits
      /\ job \in Jobs /\ job.guidance \in BOOLEAN /\ job.changed \in BOOLEAN
      /\ feedback \in [rejections : Seq(0 .. Len(Tasks)), changes : Nat] /\ faults \in Nat
      /\ saved \in Progress \cup {None}
  BY DEF TypeOK, Jobs
<1>p. {"idle", "walk", "retry", "plan", "build", "built", "review", "round", "undone", "failed",
       "settled", "finished"} \subseteq Places
  BY DEF Places
<1>o. Onward \in Places  BY <1>p DEF Onward
<1>1. CASE StartQueue
  <2> DEFINE q == absorb(read_progress)
  <2>1. read_progress \in Progress  BY <1>t, Plan DEF read_progress
  <2>2. q \in Progress  BY <2>1, AbsorbType
  <2> HIDE DEF q
  <2>3. Len(q.completed) + 1 \in Nat \ {0}  BY <2>2 DEF Progress
  <2>4. Checkpoint(q, "walk", Len(q.completed) + 1, NewJob) /\ UNCHANGED <<tree, feedback>>
    BY <1>1 DEF StartQueue, q
  <2> QED  BY <1>t, <1>p, <2>2, <2>3, <2>4, CheckpointType, Plan
<1>2. CASE skip_if_blocked
  <2>1. Push(p, "skipped") \in Progress  BY <1>2, <1>t, PushType DEF skip_if_blocked
  <2> QED  BY <1>2, <1>t, <1>p, <2>1, CheckpointType, Plan DEF skip_if_blocked
<1>3. CASE run_task_flow
  <2>1. PICK t \in Edited(p) :
          /\ tree' = t
          /\ \/ Checkpoint([Push(p, "flow") EXCEPT !.current = None, !.accepted = t], "walk", at + 1, NewJob)
             \/ Goto("failed", at, NewJob) /\ UNCHANGED <<p, saved, faults>>
    BY <1>3 DEF run_task_flow
  <2>2. planned  BY <1>3, QueueAssumption DEF run_task_flow, task, planned
  <2>3. Push(p, "flow") \in Progress  BY <2>2, <1>t, PushType
  <2>4. t \subseteq Edits  BY EditedType
  <2>5. [Push(p, "flow") EXCEPT !.current = None, !.accepted = t] \in Progress
    BY <2>3, <2>4 DEF Progress
  <2>6. UNCHANGED feedback  BY <1>3 DEF run_task_flow
  <2> QED  BY <2>1, <2>4, <2>5, <2>6, <1>t, <1>p, CheckpointType, GotoType, Plan
<1>4. CASE StartTask
  <2> DEFINE q == baseline(p)
             r == start_from_the_baseline(q, job.guidance)
  <2>1. q \in Progress  BY <1>t, BaselineType
  <2>2. r \in Progress  BY <2>1, UndoType DEF start_from_the_baseline
  <2>3. /\ tree' \in {Restored(q), tree} /\ UNCHANGED feedback
        /\ Checkpoint(r, "plan", at, [NewJob EXCEPT !.guidance = job.guidance])
    BY <1>4 DEF StartTask
  <2> HIDE DEF q, r
  <2> QED  BY <2>1, <2>2, <2>3, <1>t, <1>p, RestoredType, CheckpointType, JobTypes
<1>5. CASE plan_task
  <2>1. [p EXCEPT !.step_plan = task] \in Progress /\ record_split(p) \in Progress
    BY <1>t, TaskType DEF Progress, record_split, Splits
  <2> QED  BY <2>1, <1>5, <1>t, <1>p, CheckpointType, GotoType, Plan DEF plan_task
<1>6. CASE BuildStopped
  <2>1. PICK t \in Edited(p) :
          /\ tree' = t
          /\ p' = [p EXCEPT !.current = Current("none", TRUE), !.unfinished = @ \cup {Edit(p)}]
    BY <1>6 DEF BuildStopped
  <2>2. t \subseteq Edits /\ Edit(p) \in Edits /\ Current("none", TRUE) \in Attempts
    BY EditedType, EditType, CurrentType, <1>t
  <2>3. p' \in Progress  BY <2>1, <2>2, <1>t DEF Progress
  <2>4. UNCHANGED <<saved, feedback, faults>> /\ pc' = "round" /\ at' = at /\ job' \in Jobs
    BY <1>6, JobTypes DEF BuildStopped, Goto
  <2> QED  BY <2>1, <2>2, <2>3, <2>4, <1>t, <1>p DEF TypeOK
<1>7. CASE build_task
  <2>1. PICK changed \in BOOLEAN, status \in {"complete", "blocked_environment", "unfinished", "blocked"} :
        \E t \in (IF changed THEN Edited(p) ELSE {tree}) :
          /\ tree' = t
          /\ LET touched == job.changed \/ changed
                 q == finish_step(p, t)
             IN IF pending_split(p, task) /\ status \in builder_done
                THEN Checkpoint(q, IF pending_split(q, task) THEN "build" ELSE "built", at,
                                [job EXCEPT !.changed = touched])
                ELSE record_build(p, status, touched)
    BY <1>7 DEF build_task
  <2>2. PICK t \in (IF changed THEN Edited(p) ELSE {tree}) :
          /\ tree' = t
          /\ IF pending_split(p, task) /\ status \in builder_done
             THEN Checkpoint(finish_step(p, t), IF pending_split(finish_step(p, t), task) THEN "build" ELSE "built",
                             at, [job EXCEPT !.changed = job.changed \/ changed])
             ELSE record_build(p, status, job.changed \/ changed)
    BY <2>1
  <2>3. t \subseteq Edits  BY EditedType, <1>t
  <2>4. pending_split(p, task) => finish_step(p, t) \in Progress
    BY <2>3, <1>t, FinishStepType
  <2>5. UNCHANGED feedback  BY <1>7 DEF build_task
  <2>6. (job.changed \/ changed) \in BOOLEAN  BY <1>t
  <2> QED  BY <2>2, <2>3, <2>4, <2>5, <2>6, <1>t, <1>p, CheckpointType, RecordBuildType, JobTypes
<1>8. CASE AllStepsBuilt
  BY <1>8, <1>t, RecordBuildType DEF AllStepsBuilt
<1>9. CASE check_after_build
  BY <1>9, <1>t, <1>p, JobTypes, CheckpointType DEF check_after_build
<1>10. CASE review_accepts
  <2>1. Accepted(p) \in Progress
    BY <1>t, PushType DEF Accepted, Progress
  <2>2. record_acceptance(p) \in Progress  BY <2>1, <1>t DEF record_acceptance, Progress
  <2> QED  BY <2>2, <1>10, <1>t, <1>o, CheckpointType, Plan DEF review_accepts
<1>11. CASE review_rejects
  BY <1>11, <1>t, <1>p, JobTypes, CheckpointType DEF review_rejects
<1>12. CASE review_unfinished
  BY <1>12, <1>t, <1>p, Plan, CheckpointType DEF review_unfinished
<1>13. CASE keep_the_work
  <2>1. [p EXCEPT !.current.kept = TRUE] \in Progress  BY <1>13, KeptType DEF keep_the_work
  <2> QED  BY <2>1, <1>13, <1>t, <1>p, Plan, CheckpointType DEF keep_the_work
<1>14. CASE undo_and_checkpoint
  BY <1>14, <1>t, <1>p, Plan, UndoType, RestoredType, CheckpointType DEF undo_and_checkpoint
<1>15. CASE try_split
  <2>1. record_split(p) \in Progress  BY <1>t, TaskType DEF Progress, record_split, Splits
  <2> QED  BY <2>1, <1>15, <1>t, <1>p, Plan, CheckpointType, GotoType DEF try_split
<1>16. CASE RepairSettled
  <2>1. [p EXCEPT !.pending_repair = {}] \in Progress  BY <1>t DEF Progress
  <2> QED  BY <2>1, <1>16, <1>t, <1>p, Plan, CheckpointType DEF RepairSettled
<1>17. CASE Finish
  BY <1>17, <1>t, <1>p, Plan, GotoType DEF Finish
<1>18. CASE Retry
  BY <1>18, <1>t, <1>p, JobTypes, GotoType DEF Retry
<1>19. CASE skip
  <2>1. Skipped(p) \in Progress  BY <1>t, PushType DEF Skipped, Progress
  <2>2. [Skipped(p) EXCEPT !.current = None, !.step_plan = None] \in Progress  BY <2>1 DEF Progress
  <2> QED  BY <2>2, <1>19, <1>t, <1>o, Plan, CheckpointType DEF skip
<1>20. CASE StopHere
  BY <1>20, <1>t, StopsType DEF StopHere
<1>21. CASE RevisePlan
  BY <1>21, <1>t, StopsType DEF RevisePlan
<1>22. CASE Interrupted
  BY <1>22, <1>t, StopsType DEF Interrupted
<1>23. CASE Rejected
  <2>1. PICK i \in 0 .. Len(Tasks) : Told([feedback EXCEPT !.rejections = Append(@, i)])
    BY <1>23 DEF Rejected
  <2>2. Append(feedback.rejections, i) \in Seq(0 .. Len(Tasks))  BY <1>t
  <2>3. [feedback EXCEPT !.rejections = Append(@, i)] \in [rejections : Seq(0 .. Len(Tasks)), changes : Nat]
    BY <1>t, <2>2
  <2> QED  BY <2>1, <2>3, <1>t, StopsType DEF Told
<1>24. CASE ChangesRequested
  BY <1>24, <1>t, StopsType DEF ChangesRequested, Told
<1>25. CASE UNCHANGED vars
  BY <1>25 DEF vars, TypeOK
<1> QED
  BY <1>1, <1>2, <1>3, <1>4, <1>5, <1>6, <1>7, <1>8, <1>9, <1>10, <1>11, <1>12, <1>13, <1>14, <1>15,
     <1>16, <1>17, <1>18, <1>19, <1>20, <1>21, <1>22, <1>23, <1>24, <1>25 DEF Next, QueueStep

(***************************************************************************)
(* A step that ends the queue's step, saves a progress, or only goes on.   *)
(***************************************************************************)
Grows == Len(feedback.rejections) <= Len(feedback'.rejections) /\ feedback.changes <= feedback'.changes

LEMMA PlaceStops ==
    ASSUME TypeOK, TypeOK', PlaceInv, Stops, saved' \in {saved, None}, Grows PROVE PlaceInv'
<1>1. saved' # None => Fits(saved', feedback')
  <2> SUFFICES ASSUME saved' # None PROVE Fits(saved', feedback')  OBVIOUS
  <2>1. saved' = saved /\ saved \in Progress /\ Fits(saved, feedback)  BY DEF PlaceInv, TypeOK
  <2>2. /\ Len(feedback.rejections) \in Nat /\ Len(feedback'.rejections) \in Nat
        /\ feedback.changes \in Nat /\ feedback'.changes \in Nat
    BY DEF TypeOK
  <2> QED  BY <2>1, <2>2 DEF Fits, Grows, Progress
<1> QED  BY <1>1 DEF PlaceInv, Stops, Goto

LEMMA PlaceCheckpoint ==
    ASSUME TypeOK, TypeOK', PlaceInv, UNCHANGED feedback PROVE
        \A q \in Progress, n \in Places \ {"idle"} : \A a, j :
            Checkpoint(q, n, a, j) /\ Position(q, n, a, feedback) => PlaceInv'
<1> SUFFICES ASSUME NEW q \in Progress, NEW n \in Places \ {"idle"}, NEW a, NEW j,
                    Checkpoint(q, n, a, j), Position(q, n, a, feedback)
             PROVE PlaceInv'
  OBVIOUS
<1>1. CASE p' = q /\ saved' = q /\ Goto(n, a, j)
  <2>1. q # None  BY QueueAssumption
  <2>2. q = [q EXCEPT !.current = q.current, !.unfinished = q.unfinished]  BY DEF Progress
  <2>3. Fits(q, feedback)  BY DEF Fits, Position, TypeOK
  <2> QED  BY <1>1, <2>1, <2>2, <2>3 DEF PlaceInv, Goto
<1>2. CASE Stops /\ UNCHANGED saved
  <2>1. Grows  BY DEF Grows, TypeOK
  <2> QED  BY <1>2, <2>1, PlaceStops
<1> QED  BY <1>1, <1>2 DEF Checkpoint

LEMMA PlaceGoto ==
    ASSUME PlaceInv, UNCHANGED <<feedback, p, saved>>, pc \notin {"idle", "round"} PROVE
        \A n \in Places \ {"idle"} : \A a, j : Goto(n, a, j) /\ Position(p, n, a, feedback) => PlaceInv'
  BY DEF PlaceInv, Goto

(***************************************************************************)
(* A change that keeps what a position speaks of keeps the position.       *)
(***************************************************************************)
SamePlan(r, q) ==
    /\ r.completed = q.completed /\ r.pending_repair = q.pending_repair /\ r.answered = q.answered
    /\ r.handled_rejections = q.handled_rejections /\ r.handled_changes = q.handled_changes

LEMMA PushPlace ==
    ASSUME TypeOK, planned, InOrder(p), at = Len(p.completed) + 1 PROVE
        \A how \in {"skipped", "flow", "accepted"} :
            /\ Len(Push(p, how).completed) = at /\ InOrder(Push(p, how))
            /\ Push(p, how).pending_repair = p.pending_repair
            /\ Push(p, how).handled_rejections = p.handled_rejections
            /\ Push(p, how).handled_changes = p.handled_changes
<1> SUFFICES ASSUME NEW how \in {"skipped", "flow", "accepted"}
             PROVE  /\ Len(Push(p, how).completed) = at /\ InOrder(Push(p, how))
                    /\ Push(p, how).pending_repair = p.pending_repair
                    /\ Push(p, how).handled_rejections = p.handled_rejections
                    /\ Push(p, how).handled_changes = p.handled_changes
  OBVIOUS
<1> DEFINE e == [task |-> task, how |-> how]
           c == Append(p.completed, e)
<1>1. p \in Progress /\ p.completed \in Seq(Entries) /\ at <= Len(Tasks) /\ at \in Nat
  BY DEF TypeOK, Progress, planned
<1>2. e \in Entries /\ e.task = Tasks[at]  BY TaskType, <1>1 DEF Entries, task
<1>3. /\ Push(p, how).completed = c /\ Push(p, how).pending_repair = p.pending_repair
      /\ Push(p, how).handled_rejections = p.handled_rejections
      /\ Push(p, how).handled_changes = p.handled_changes
  BY <1>1 DEF Push, Progress
<1> HIDE DEF e
<1>4. Len(c) = at /\ \A i \in 1 .. at : c[i] = IF i = at THEN e ELSE p.completed[i]
  BY <1>1, <1>2
<1> HIDE DEF c
<1>5. \A i \in 1 .. at : c[i].task = Tasks[i]
  BY <1>1, <1>2, <1>4 DEF InOrder
<1> QED  BY <1>1, <1>3, <1>4, <1>5 DEF InOrder

LEMMA AbsorbPlace ==
    ASSUME TypeOK PROVE
        \A q \in Progress : Fits(q, feedback) =>
            /\ InOrder(absorb(q))
            /\ absorb(q).handled_rejections = Len(feedback.rejections)
            /\ absorb(q).handled_changes = feedback.changes
<1> SUFFICES ASSUME NEW q \in Progress, Fits(q, feedback)
             PROVE  /\ InOrder(absorb(q))
                    /\ absorb(q).handled_rejections = Len(feedback.rejections)
                    /\ absorb(q).handled_changes = feedback.changes
  OBVIOUS
<1> DEFINE n == Len(feedback.rejections)
           r == reopen_after_rejection(q)
<1>1. n \in Nat /\ feedback.changes \in Nat  BY DEF TypeOK
<1>2. r.handled_rejections = n /\ r.handled_changes = q.handled_changes
  BY <1>1 DEF reopen_after_rejection, Fits, Progress
<1>3. InOrder(r)
  <2>1. CASE n > q.handled_rejections /\ feedback.rejections[n] > 0
    <3> DEFINE m == IF Len(q.completed) < feedback.rejections[n] THEN Len(q.completed)
                    ELSE feedback.rejections[n] - 1
    <3>1. r.completed = SubSeq(q.completed, 1, m)
      <4>1. ~(n <= q.handled_rejections) /\ feedback.rejections[n] > 0  BY <1>1, <2>1 DEF Progress
      <4>2. r = [[q EXCEPT !.handled_rejections = n] EXCEPT
                    !.completed = SubSeq(q.completed, 1, m), !.current = Rejection]
        BY <4>1 DEF reopen_after_rejection, Progress
      <4> QED  BY <4>2 DEF Progress
    <3>2. feedback.rejections[n] \in Nat  BY <1>1, <2>1 DEF TypeOK, Progress
    <3>3. q.completed \in Seq(Entries) /\ Len(q.completed) \in Nat  BY DEF Progress
    <3>4. m \in 0 .. Len(q.completed)  BY <3>2, <3>3, <2>1
    <3> HIDE DEF m, r
    <3>5. Len(r.completed) = m /\ \A i \in 1 .. m : r.completed[i] = q.completed[i]
      BY <3>1, <3>3, <3>4
    <3> QED  BY <3>3, <3>4, <3>5, Plan DEF InOrder, Fits
  <2>2. CASE ~(n > q.handled_rejections /\ feedback.rejections[n] > 0)
    <3>1. r.completed = q.completed  BY <1>1, <2>2 DEF reopen_after_rejection, Progress
    <3> QED  BY <3>1 DEF InOrder, Fits
  <2> QED  BY <2>1, <2>2
<1>4. r \in Progress  BY ReopenType
<1> HIDE DEF r
<1>5. LET c == queue_user_changes(r) IN
      /\ c.completed = r.completed /\ c.handled_rejections = r.handled_rejections
      /\ c.handled_changes = feedback.changes
  BY <1>1, <1>2, <1>4 DEF queue_user_changes, Progress, Fits
<1> QED  BY <1>2, <1>3, <1>5 DEF absorb, InOrder, r

LEMMA StaysPut ==
    ASSUME TypeOK, PlaceInv, pc \in Working PROVE
        \A q, n : /\ SamePlan(q, p) /\ Of(q.baseline, task) /\ n \in Working \cup {"failed"}
                  /\ n \in {"review", "round"} => Of(q.current, task)
                  => Position(q, n, at, feedback)
<1> SUFFICES ASSUME NEW q, NEW n, SamePlan(q, p), Of(q.baseline, task), n \in Working \cup {"failed"},
                    n \in {"review", "round"} => Of(q.current, task)
             PROVE Position(q, n, at, feedback)
  OBVIOUS
<1>1. Position(p, pc, at, feedback)  BY DEF PlaceInv, Working
<1>2. pc \in Busy /\ task = TaskAt(at)  BY TaskType DEF Working, Busy
<1> QED  BY <1>1, <1>2 DEF Position, SamePlan, InOrder, Working

LEMMA RecordBuildPlace ==
    ASSUME TypeOK, TypeOK', PlaceInv, pc \in Working, UNCHANGED feedback PROVE
        \A s \in {"complete", "blocked_environment", "unfinished", "blocked"}, c \in BOOLEAN :
            record_build(p, s, c) => PlaceInv'
<1> SUFFICES ASSUME NEW s \in {"complete", "blocked_environment", "unfinished", "blocked"},
                    NEW c \in BOOLEAN, record_build(p, s, c)
             PROVE PlaceInv'
  OBVIOUS
<1> DEFINE noted == [p EXCEPT !.current = Current(s, FALSE),
                              !.unfinished = IF s \in builder_done THEN @ \ {Edit(p)}
                                             ELSE IF c THEN @ \cup {Edit(p)} ELSE @]
<1>1. p \in Progress /\ Edit(p) \in Edits /\ Current(s, FALSE) \in Attempts
  BY EditType, CurrentType DEF TypeOK
<1>2. Of(Current(s, FALSE), task)  BY <1>1, QueueAssumption DEF Of, Current
<1>3. /\ noted \in Progress /\ SamePlan(noted, p) /\ noted.current = Current(s, FALSE)
      /\ noted.baseline = p.baseline
  BY <1>1 DEF Progress, SamePlan
<1>4. \/ Checkpoint(noted, Again("Unfinished").next, at, Again("Unfinished").job)
      \/ Checkpoint(noted, "review", at, [job EXCEPT !.changed = c])
      \/ Checkpoint(noted, "failed", at, NewJob)
  BY DEF record_build
<1> HIDE DEF noted
<1>5. Of(p.baseline, task)  BY TaskType DEF PlaceInv, Position, Working
<1>6. \A n \in {"build", "round", "review", "failed"} : Position(noted, n, at, feedback)
  BY <1>2, <1>3, <1>5, StaysPut DEF Working
<1>7. {"build", "round", "review", "failed"} \subseteq Places \ {"idle"}  BY DEF Places
<1> QED  BY <1>3, <1>4, <1>6, <1>7, JobTypes, PlaceCheckpoint

LEMMA PlaceStep == TypeOK /\ PlaceInv /\ [Next]_vars => PlaceInv'
<1> SUFFICES ASSUME TypeOK, TypeOK', PlaceInv, [Next]_vars PROVE PlaceInv'  BY TypeStep
<1>t. p \in Progress /\ at \in Nat \ {0} /\ saved \in Progress \cup {None} /\ Len(Tasks) \in Nat \ {0}
  BY Plan DEF TypeOK
<1>n. task = TaskAt(at) /\ task \in Names /\ None \notin Names  BY TaskType, QueueAssumption
<1>c. Len(p.completed) \in Nat  BY <1>t DEF Progress
<1>p. {"walk", "retry", "plan", "build", "built", "review", "round", "undone", "failed",
       "settled", "finished"} \subseteq Places \ {"idle"}
  BY DEF Places
<1>1. CASE StartQueue
  <2> DEFINE q == absorb(read_progress)
  <2>1. read_progress \in Progress  BY <1>t, Plan DEF read_progress
  <2>2. Fits(read_progress, feedback)
    <3>1. CASE saved = None
      BY <3>1, <1>t DEF read_progress, NewProgress, Fits, InOrder, TypeOK
    <3> QED  BY <3>1 DEF PlaceInv, read_progress
  <2>3. q \in Progress  BY <2>1, AbsorbType
  <2>4. /\ InOrder(q) /\ q.handled_rejections = Len(feedback.rejections)
        /\ q.handled_changes = feedback.changes
    BY <2>1, <2>2, AbsorbPlace
  <2>5. Checkpoint(q, "walk", Len(q.completed) + 1, NewJob) /\ UNCHANGED feedback
    BY <1>1 DEF StartQueue
  <2> HIDE DEF q
  <2>6. Position(q, "walk", Len(q.completed) + 1, feedback)
    BY <2>4 DEF Position, Busy, Working
  <2> QED  BY <2>3, <2>5, <2>6, <1>p, PlaceCheckpoint
<1>2. CASE skip_if_blocked
  <2>1. planned /\ at = Len(p.completed) + 1 /\ InOrder(p)
    BY <1>2, <1>t DEF skip_if_blocked, PlaceInv, Position, planned
  <2>2. Push(p, "skipped") \in Progress  BY <2>1, <1>t, PushType
  <2>3. Position(Push(p, "skipped"), "walk", at + 1, feedback)
    BY <1>2, <2>1, PushPlace DEF skip_if_blocked, PlaceInv, Position, Busy, Working
  <2> QED  BY <1>2, <2>2, <2>3, <1>p, PlaceCheckpoint DEF skip_if_blocked
<1>3. CASE run_task_flow
  <2>1. PICK t \in Edited(p) :
          /\ tree' = t
          /\ \/ Checkpoint([Push(p, "flow") EXCEPT !.current = None, !.accepted = t], "walk", at + 1, NewJob)
             \/ Goto("failed", at, NewJob) /\ UNCHANGED <<p, saved, faults>>
    BY <1>3 DEF run_task_flow
  <2>2. planned /\ pc \in {"walk", "retry"}  BY <1>3, QueueAssumption DEF run_task_flow, task, planned, Taken
  <2>3. at = Len(p.completed) + 1 /\ InOrder(p) /\ at <= Len(Tasks)
    BY <2>2, <1>t DEF PlaceInv, Position, planned
  <2> DEFINE q == [Push(p, "flow") EXCEPT !.current = None, !.accepted = t]
  <2>4. Push(p, "flow") \in Progress  BY <2>2, <1>t, PushType
  <2>5. q \in Progress /\ SamePlan(q, Push(p, "flow"))
    BY <2>4, EditedType DEF Progress, SamePlan
  <2> HIDE DEF q
  <2>6. Position(q, "walk", at + 1, feedback)
    BY <2>2, <2>3, <2>5, PushPlace DEF PlaceInv, Position, Busy, Working, SamePlan, InOrder
  <2>7. Position(p, "failed", at, feedback)
    BY <2>2, <2>3 DEF PlaceInv, Position, Busy, Working
  <2>8. UNCHANGED feedback  BY <1>3 DEF run_task_flow
  <2>9. CASE Checkpoint(q, "walk", at + 1, NewJob)
    BY <2>5, <2>6, <2>8, <2>9, <1>p, PlaceCheckpoint
  <2>10. CASE Goto("failed", at, NewJob) /\ UNCHANGED <<p, saved, faults>>
    BY <2>2, <2>7, <2>8, <2>10, <1>p, PlaceGoto
  <2> QED  BY <2>1, <2>9, <2>10 DEF q
<1>4. CASE StartTask
  <2> DEFINE q == baseline(p)
             r == start_from_the_baseline(q, job.guidance)
  <2>1. q \in Progress  BY <1>t, BaselineType
  <2>2. r \in Progress  BY <2>1, UndoType DEF start_from_the_baseline
  <2>3. Of(q.baseline, task) /\ SamePlan(q, p)
    <3>1. [task |-> task, tree |-> tree] \in Baselines  BY <1>n DEF Baselines, TypeOK
    <3>2. [task |-> task, tree |-> tree] # None  BY <3>1, QueueAssumption
    <3> QED  BY <1>t, <3>2 DEF baseline, Of, SamePlan, Progress
  <2> HIDE DEF q
  <2>4. r.baseline = q.baseline /\ SamePlan(r, q)
    BY <2>1 DEF start_from_the_baseline, undo_attempt, Progress, SamePlan
  <2>5. /\ Checkpoint(r, "plan", at, [NewJob EXCEPT !.guidance = job.guidance])
        /\ UNCHANGED feedback /\ task \notin FlowTasks /\ Taken
    BY <1>4 DEF StartTask, q
  <2> HIDE DEF r
  <2>6. Position(r, "plan", at, feedback)
    <3>1. at <= Len(Tasks) \/ p.pending_repair # {}
      BY <2>5 DEF Taken, planned, PlaceInv, Position, Busy
    <3>2. pc # "idle" /\ Position(p, pc, at, feedback)  BY <2>5 DEF Taken, PlaceInv
    <3> QED  BY <3>1, <3>2, <2>3, <2>4, <2>5, <1>n DEF Position, SamePlan, InOrder, Busy, Working
  <2> QED  BY <2>2, <2>5, <2>6, <1>p, PlaceCheckpoint
<1>w. pc \in Working => Of(p.baseline, task) /\ SamePlan(p, p)
  BY <1>n DEF PlaceInv, Position, Working, SamePlan
<1>u. {"plan", "build", "built", "review", "round", "undone"} = Working  BY DEF Working
<1>5. CASE plan_task
  <2> DEFINE q == [p EXCEPT !.step_plan = task]
             r == record_split(p)
  <2>1. /\ q \in Progress /\ q.baseline = p.baseline /\ SamePlan(q, p)
        /\ r \in Progress /\ r.baseline = p.baseline /\ SamePlan(r, p)
    BY <1>t, <1>n DEF Progress, record_split, Splits, SamePlan
  <2>2. /\ pc = "plan" /\ UNCHANGED feedback
        /\ \/ Goto("build", at, NewJob) /\ UNCHANGED <<p, saved, faults>>
           \/ Checkpoint(q, "build", at, NewJob)
           \/ Checkpoint(r, "build", at, NewJob)
           \/ Goto("failed", at, NewJob) /\ UNCHANGED <<p, saved, faults>>
    BY <1>5 DEF plan_task
  <2> HIDE DEF q, r
  <2>3. /\ Position(q, "build", at, feedback) /\ Position(r, "build", at, feedback)
        /\ Position(p, "build", at, feedback) /\ Position(p, "failed", at, feedback)
    BY <2>1, <2>2, <1>w, <1>u, StaysPut
  <2> QED  BY <2>1, <2>2, <2>3, <1>p, PlaceCheckpoint, PlaceGoto
<1>6. CASE BuildStopped
  <2>1. /\ p' = [p EXCEPT !.current = Current("none", TRUE), !.unfinished = @ \cup {Edit(p)}]
        /\ pc = "build" /\ pc' = "round" /\ at' = at /\ UNCHANGED <<saved, feedback>>
    BY <1>6 DEF BuildStopped, Goto
  <2>2. SamePlan(p', p) /\ p'.current = Current("none", TRUE) /\ p'.baseline = p.baseline
    BY <2>1, <1>t DEF SamePlan, Progress
  <2>3. Of(Current("none", TRUE), task)
    BY CurrentType, QueueAssumption DEF Of, Current
  <2>4. Position(p', "round", at, feedback)
    BY <2>1, <2>2, <2>3, <1>w, <1>u, StaysPut
  <2>5. saved = p  BY <2>1 DEF PlaceInv
  <2>6. saved = [p' EXCEPT !.current = saved.current, !.unfinished = saved.unfinished]
    BY <2>1, <2>5, <1>t DEF Progress
  <2> QED  BY <2>1, <2>4, <2>6 DEF PlaceInv
<1>7. CASE build_task
  <2>1. PICK changed \in BOOLEAN, status \in {"complete", "blocked_environment", "unfinished", "blocked"} :
        \E t \in (IF changed THEN Edited(p) ELSE {tree}) :
          /\ tree' = t
          /\ IF pending_split(p, task) /\ status \in builder_done
             THEN Checkpoint(finish_step(p, t), IF pending_split(finish_step(p, t), task) THEN "build" ELSE "built",
                             at, [job EXCEPT !.changed = job.changed \/ changed])
             ELSE record_build(p, status, job.changed \/ changed)
    BY <1>7 DEF build_task
  <2>2. PICK t \in (IF changed THEN Edited(p) ELSE {tree}) :
          \/ /\ pending_split(p, task)
             /\ Checkpoint(finish_step(p, t), IF pending_split(finish_step(p, t), task) THEN "build" ELSE "built",
                           at, [job EXCEPT !.changed = job.changed \/ changed])
          \/ record_build(p, status, job.changed \/ changed)
    BY <2>1
  <2>3. t \subseteq Edits  BY EditedType DEF TypeOK
  <2>4. UNCHANGED feedback /\ pc = "build" /\ pc \in Working  BY <1>7, <1>u DEF build_task
  <2>5. CASE record_build(p, status, job.changed \/ changed)
    <3>1. (job.changed \/ changed) \in BOOLEAN  OBVIOUS
    <3> QED  BY <2>4, <2>5, <3>1, RecordBuildPlace
  <2>6. CASE /\ pending_split(p, task)
             /\ Checkpoint(finish_step(p, t), IF pending_split(finish_step(p, t), task) THEN "build" ELSE "built",
                           at, [job EXCEPT !.changed = job.changed \/ changed])
    <3> DEFINE q == finish_step(p, t)
    <3>1. q \in Progress  BY <2>3, <2>6, FinishStepType
    <3>2. SamePlan(q, p) /\ q.baseline = [task |-> task, tree |-> t]
      BY <1>t DEF finish_step, SamePlan, Progress
    <3>3. [task |-> task, tree |-> t] \in Baselines  BY <1>n, <2>3 DEF Baselines
    <3>4. Of(q.baseline, task)  BY <3>2, <3>3, QueueAssumption DEF Of
    <3> HIDE DEF q
    <3>5. Position(q, "build", at, feedback) /\ Position(q, "built", at, feedback)
      BY <3>2, <3>4, <2>4, <1>u, StaysPut
    <3>6. Checkpoint(q, IF pending_split(q, task) THEN "build" ELSE "built",
                     at, [job EXCEPT !.changed = job.changed \/ changed])
      BY <2>6 DEF q
    <3> QED  BY <3>1, <3>5, <3>6, <2>4, <1>p, PlaceCheckpoint
  <2> QED  BY <2>2, <2>5, <2>6
<1>8. CASE AllStepsBuilt
  <2>1. job.changed \in BOOLEAN  BY DEF TypeOK, Jobs
  <2> QED  BY <1>8, <1>u, <2>1, RecordBuildPlace DEF AllStepsBuilt
<1>r. pc \in {"review", "round"} => Of(p.current, task)
  BY <1>n DEF PlaceInv, Position
<1>v. pc = "review" => \A n \in Working \cup {"failed"} : Position(p, n, at, feedback)
  BY <1>r, <1>w, <1>u, StaysPut
<1>9. CASE check_after_build
  <2>1. Again("NewErrors").next \in {"build", "round"}  BY JobTypes
  <2> QED  BY <1>9, <2>1, <1>t, <1>p, <1>u, <1>v, PlaceCheckpoint DEF check_after_build
<1>10. CASE review_accepts
  <2> DEFINE q == record_acceptance(p)
  <2>1. pc = "review" /\ UNCHANGED feedback /\ Checkpoint(q, Onward, at + 1, NewJob)  BY <1>10 DEF review_accepts
  <2>2. Position(p, "review", at, feedback)  BY <2>1 DEF PlaceInv
  <2>3. CASE planned
    <3>1. at = Len(p.completed) + 1 /\ InOrder(p) /\ at <= Len(Tasks)  BY <2>2, <2>3, <1>t DEF Position, planned
    <3>2. Push(p, "accepted") \in Progress  BY <2>3, PushType, <1>t
    <3>3. q \in Progress /\ SamePlan(q, Push(p, "accepted"))
      BY <2>3, <3>2 DEF record_acceptance, Accepted, Progress, SamePlan, TypeOK
    <3> HIDE DEF q
    <3>4. Position(q, "walk", at + 1, feedback)
      BY <2>2, <2>3, <3>1, <3>3, PushPlace DEF Position, Busy, Working, SamePlan, InOrder
    <3> QED  BY <2>1, <2>3, <3>3, <3>4, <1>p, PlaceCheckpoint DEF Onward
  <2>4. CASE ~planned
    <3>1. q \in Progress
      BY <2>4, <1>t DEF record_acceptance, Accepted, Progress, TypeOK
    <3>2. /\ q.completed = p.completed /\ q.pending_repair = p.pending_repair
          /\ q.handled_rejections = p.handled_rejections /\ q.handled_changes = p.handled_changes
      BY <2>4, <1>t DEF record_acceptance, Accepted, Progress
    <3> HIDE DEF q
    <3>3. at > Len(Tasks) /\ Len(p.completed) = Len(Tasks)
      BY <2>2, <2>4, <1>t, <1>c DEF Position, planned, InOrder
    <3>4. Position(q, "settled", at + 1, feedback)
      BY <2>2, <3>2, <3>3, <1>t DEF Position, Busy, Working, InOrder
    <3> QED  BY <2>1, <2>4, <3>1, <3>4, <1>p, PlaceCheckpoint DEF Onward
  <2> QED  BY <2>3, <2>4
<1>11. CASE review_rejects
  <2>1. Again("Rejected").next \in {"build", "round"}  BY JobTypes
  <2> QED  BY <1>11, <2>1, <1>t, <1>p, <1>u, <1>v, PlaceCheckpoint DEF review_rejects
<1>12. CASE review_unfinished
  BY <1>12, <1>t, <1>p, <1>v, PlaceCheckpoint DEF review_unfinished
<1>13. CASE keep_the_work
  <2> DEFINE q == [p EXCEPT !.current.kept = TRUE]
  <2>1. q \in Progress  BY <1>13, KeptType DEF keep_the_work
  <2>2. SamePlan(q, p) /\ q.baseline = p.baseline  BY <1>t DEF SamePlan, Progress
  <2> HIDE DEF q
  <2>3. pc = "round" /\ UNCHANGED feedback /\ Checkpoint(q, "failed", at, NewJob)  BY <1>13 DEF keep_the_work, q
  <2>4. Position(q, "failed", at, feedback)  BY <2>2, <2>3, <1>w, <1>u, StaysPut
  <2> QED  BY <2>1, <2>3, <2>4, <1>p, PlaceCheckpoint
<1>14. CASE undo_and_checkpoint
  <2> DEFINE q == undo_attempt(p)
  <2>1. q \in Progress  BY <1>t, UndoType
  <2>2. SamePlan(q, p) /\ q.baseline = p.baseline  BY <1>t DEF SamePlan, Progress, undo_attempt
  <2> HIDE DEF q
  <2>3. pc = "round" /\ UNCHANGED feedback /\ Checkpoint(q, "undone", at, NewJob)
    BY <1>14 DEF undo_and_checkpoint, q
  <2>4. Position(q, "undone", at, feedback)  BY <2>2, <2>3, <1>w, <1>u, StaysPut
  <2> QED  BY <2>1, <2>3, <2>4, <1>p, PlaceCheckpoint
<1>15. CASE try_split
  <2> DEFINE q == record_split(p)
  <2>1. /\ q \in Progress /\ q.baseline = p.baseline /\ SamePlan(q, p)
    BY <1>t, <1>n DEF Progress, record_split, Splits, SamePlan
  <2> HIDE DEF q
  <2>2. /\ pc = "undone" /\ UNCHANGED feedback
        /\ \/ Checkpoint(q, "build", at, NewJob)
           \/ Goto("failed", at, NewJob) /\ UNCHANGED <<p, saved, faults>>
    BY <1>15 DEF try_split, q
  <2>3. Position(q, "build", at, feedback) /\ Position(p, "failed", at, feedback)
    BY <2>1, <2>2, <1>w, <1>u, StaysPut
  <2> QED  BY <2>1, <2>2, <2>3, <1>p, PlaceCheckpoint, PlaceGoto
<1>16. CASE RepairSettled
  <2> DEFINE q == [p EXCEPT !.pending_repair = {}]
  <2>1. /\ q \in Progress /\ q.completed = p.completed
        /\ q.handled_rejections = p.handled_rejections /\ q.handled_changes = p.handled_changes
    BY <1>t DEF Progress
  <2> HIDE DEF q
  <2>2. pc = "settled" /\ UNCHANGED feedback /\ Checkpoint(q, "walk", at, NewJob)
    BY <1>16 DEF RepairSettled, q
  <2>3. Position(q, "walk", at, feedback)
    BY <2>1, <2>2 DEF PlaceInv, Position, InOrder, Busy, Working
  <2> QED  BY <2>1, <2>2, <2>3, <1>p, PlaceCheckpoint
<1>17. CASE Finish
  <2>1. Position(p, "finished", at, feedback)
    BY <1>17, <1>t DEF Finish, PlaceInv, Position, planned, Busy, Working
  <2> QED  BY <1>17, <2>1, <1>p, PlaceGoto DEF Finish
<1>18. CASE Retry
  <2>1. Position(p, "retry", at, feedback)
    BY <1>18 DEF Retry, PlaceInv, Position, Busy, Working
  <2> QED  BY <1>18, <2>1, <1>p, PlaceGoto DEF Retry
<1>19. CASE skip
  <2> DEFINE q == [Skipped(p) EXCEPT !.current = None, !.step_plan = None]
  <2>1. pc = "failed" /\ UNCHANGED feedback /\ Checkpoint(q, Onward, at + 1, NewJob)  BY <1>19 DEF skip
  <2>2. Position(p, "failed", at, feedback)  BY <2>1 DEF PlaceInv
  <2>3. CASE planned
    <3>1. at = Len(p.completed) + 1 /\ InOrder(p) /\ at <= Len(Tasks)  BY <2>2, <2>3, <1>t DEF Position, planned
    <3>2. Push(p, "skipped") \in Progress  BY <2>3, PushType, <1>t
    <3>3. q \in Progress /\ SamePlan(q, Push(p, "skipped"))
      BY <2>3, <3>2 DEF Skipped, Progress, SamePlan
    <3> HIDE DEF q
    <3>4. Position(q, "walk", at + 1, feedback)
      BY <2>2, <2>3, <3>1, <3>3, PushPlace DEF Position, Busy, Working, SamePlan, InOrder
    <3> QED  BY <2>1, <2>3, <3>3, <3>4, <1>p, PlaceCheckpoint DEF Onward
  <2>4. CASE ~planned
    <3>1. q \in Progress  BY <2>4, <1>t DEF Skipped, Progress
    <3>2. /\ q.completed = p.completed
          /\ q.handled_rejections = p.handled_rejections /\ q.handled_changes = p.handled_changes
      BY <2>4, <1>t DEF Skipped, Progress
    <3> HIDE DEF q
    <3>3. at > Len(Tasks) /\ Len(p.completed) = Len(Tasks)
      BY <2>2, <2>4, <1>t, <1>c DEF Position, planned, InOrder
    <3>4. Position(q, "settled", at + 1, feedback)
      BY <2>2, <3>2, <3>3, <1>t DEF Position, Busy, Working, InOrder
    <3> QED  BY <2>1, <2>4, <3>1, <3>4, <1>p, PlaceCheckpoint DEF Onward
  <2> QED  BY <2>3, <2>4
<1>g. UNCHANGED feedback => Grows  BY DEF Grows, TypeOK
<1>20. CASE StopHere
  BY <1>20, <1>g, PlaceStops DEF StopHere
<1>21. CASE RevisePlan
  BY <1>21, <1>g, PlaceStops DEF RevisePlan
<1>22. CASE Interrupted
  BY <1>22, <1>g, PlaceStops DEF Interrupted
<1>23. CASE Rejected
  <2>1. PICK i \in 0 .. Len(Tasks) : Told([feedback EXCEPT !.rejections = Append(@, i)])
    BY <1>23 DEF Rejected
  <2>2. feedback.rejections \in Seq(0 .. Len(Tasks)) /\ feedback.changes \in Nat  BY DEF TypeOK
  <2>3. feedback'.rejections = Append(feedback.rejections, i) /\ feedback'.changes = feedback.changes
    BY <2>1 DEF Told, TypeOK
  <2>4. Grows  BY <2>2, <2>3 DEF Grows
  <2> QED  BY <2>1, <2>4, PlaceStops DEF Told
<1>24. CASE ChangesRequested
  <2>1. feedback'.rejections = feedback.rejections /\ feedback'.changes = feedback.changes + 1
    BY <1>24 DEF ChangesRequested, Told, TypeOK
  <2>2. Grows  BY <2>1 DEF Grows, TypeOK
  <2> QED  BY <1>24, <2>2, PlaceStops DEF ChangesRequested, Told
<1>25. CASE UNCHANGED vars
  BY <1>25 DEF vars, PlaceInv
<1> QED
  BY <1>1, <1>2, <1>3, <1>4, <1>5, <1>6, <1>7, <1>8, <1>9, <1>10, <1>11, <1>12, <1>13, <1>14, <1>15,
     <1>16, <1>17, <1>18, <1>19, <1>20, <1>21, <1>22, <1>23, <1>24, <1>25 DEF Next, QueueStep
(***************************************************************************)
(* The queue's progress, in memory and in its checkpoint, keeps the shape  *)
(* of the code's Progress through every step, interruption and resumption. *)
(***************************************************************************)
THEOREM QueueTypeCorrect == Spec => []TypeOK
<1>1. Init => TypeOK
  BY Plan DEF Init, TypeOK, Places
<1>2. Init => PlaceInv
  BY DEF Init, PlaceInv
<1>3. TypeOK /\ PlaceInv /\ [Next]_vars => TypeOK' /\ PlaceInv'
  BY TypeStep, PlaceStep
<1> QED  BY <1>1, <1>2, <1>3, PTL DEF Spec

(***************************************************************************)
(* The last rejection and the last change request, once read, are answered *)
(* or still due: a rejected task has not been settled again, or a repair   *)
(* is pending.  Only a request that came after the answer is unread.       *)
(***************************************************************************)
Settles(q, f) ==
    /\ Len(f.rejections) > 0 /\ q.handled_rejections = Len(f.rejections) =>
        \/ <<"rejection", Len(f.rejections)>> \in q.answered
        \/ /\ f.rejections[Len(f.rejections)] > 0
           /\ Len(q.completed) < f.rejections[Len(f.rejections)]
        \/ /\ f.rejections[Len(f.rejections)] = 0
           /\ <<"rejection", Len(f.rejections)>> \in q.pending_repair
    /\ f.changes > 0 /\ q.handled_changes = f.changes =>
        \/ <<"change", f.changes>> \in q.answered
        \/ /\ q.handled_rejections = Len(f.rejections)
           /\ <<"change", f.changes>> \in q.pending_repair

AnswerInv ==
    /\ saved # None => Settles(saved, feedback)
    /\ pc = "settled" => p.pending_repair \subseteq p.answered

LEMMA CheckpointCases ==
    \A q, n, a, j : Checkpoint(q, n, a, j) =>
        \/ p' = q /\ saved' = q /\ pc' = n /\ at' = a /\ job' = j /\ faults' = faults
        \/ Stops /\ saved' = saved /\ faults' = faults + 1
  BY DEF Checkpoint, Goto

LEMMA AnswerStops == AnswerInv /\ Stops /\ saved' \in {saved, None} /\ UNCHANGED feedback => AnswerInv'
  BY DEF AnswerInv, Stops, Goto

LEMMA AnswerSaves ==
    ASSUME AnswerInv, UNCHANGED feedback PROVE
        \A q, n, a, j :
            /\ Checkpoint(q, n, a, j) /\ Settles(q, feedback)
            /\ n = "settled" => q.pending_repair \subseteq q.answered
            => AnswerInv'
<1> SUFFICES ASSUME NEW q, NEW n, NEW a, NEW j, Checkpoint(q, n, a, j), Settles(q, feedback),
                    n = "settled" => q.pending_repair \subseteq q.answered
             PROVE AnswerInv'
  OBVIOUS
<1>1. CASE p' = q /\ saved' = q /\ pc' = n  BY <1>1 DEF AnswerInv
<1>2. CASE Stops /\ saved' = saved  BY <1>2, AnswerStops
<1> QED  BY <1>1, <1>2, CheckpointCases

LEMMA MemorySettles ==
    TypeOK /\ PlaceInv /\ AnswerInv /\ pc # "idle" => SamePlan(p, saved) /\ Settles(p, feedback)
<1> SUFFICES ASSUME TypeOK, PlaceInv, AnswerInv, pc # "idle" PROVE SamePlan(p, saved) /\ Settles(p, feedback)
  OBVIOUS
<1>1. SamePlan(p, saved)
  <2>1. saved = [p EXCEPT !.current = saved.current, !.unfinished = saved.unfinished] /\ p \in Progress
    BY DEF PlaceInv, TypeOK
  <2> DEFINE c == saved.current
             u == saved.unfinished
  <2>2. SamePlan(p, [p EXCEPT !.current = c, !.unfinished = u])
    <3> HIDE DEF c, u
    <3> QED  BY <2>1 DEF SamePlan, Progress
  <2> QED  BY <2>1, <2>2
<1>2. Settles(saved, feedback)  BY DEF PlaceInv, AnswerInv
<1> QED  BY <1>1, <1>2 DEF SamePlan, Settles

LEMMA AnswerWork ==
    ASSUME TypeOK, PlaceInv, AnswerInv, pc # "idle", UNCHANGED feedback PROVE
        \A q, n, a, j : SamePlan(q, p) /\ n # "settled" /\ Checkpoint(q, n, a, j) => AnswerInv'
<1> SUFFICES ASSUME NEW q, NEW n, NEW a, NEW j, SamePlan(q, p), n # "settled", Checkpoint(q, n, a, j)
             PROVE AnswerInv'
  OBVIOUS
<1>1. Settles(q, feedback)  BY MemorySettles DEF SamePlan, Settles
<1> QED  BY <1>1, AnswerSaves

LEMMA PushSettles ==
    ASSUME TypeOK, PlaceInv, AnswerInv, pc # "idle", planned PROVE
        \A how \in {"skipped", "flow", "accepted"} : Settles(Push(p, how), feedback)
<1> SUFFICES ASSUME NEW how \in {"skipped", "flow", "accepted"} PROVE Settles(Push(p, how), feedback)
  OBVIOUS
<1> DEFINE q == Push(p, how)
           n == Len(feedback.rejections)
<1>1. /\ p \in Progress /\ at \in Nat \ {0} /\ n \in Nat /\ Len(p.completed) \in Nat
      /\ feedback.rejections \in Seq(0 .. Len(Tasks))
  BY DEF TypeOK, Progress
<1>2. at = Len(p.completed) + 1 /\ InOrder(p) /\ p.handled_rejections = n
  BY <1>1, Plan DEF PlaceInv, Position, planned
<1>3. /\ Len(q.completed) = at /\ q.pending_repair = p.pending_repair
      /\ q.handled_rejections = p.handled_rejections /\ q.handled_changes = p.handled_changes
  BY <1>2, PushPlace
<1>4. q.answered = p.answered \cup Answers(p, at)  BY <1>1 DEF Push, Progress
<1>5. n > 0 /\ feedback.rejections[n] = at => <<"rejection", n>> \in q.answered
  BY <1>2, <1>4 DEF Answers
<1>6. Settles(p, feedback)  BY MemorySettles
<1>7. n > 0 => feedback.rejections[n] \in Nat  BY <1>1
<1> HIDE DEF q
<1>8. p.answered \subseteq q.answered  BY <1>4
<1>9. ASSUME n > 0 PROVE \/ <<"rejection", n>> \in q.answered
                         \/ feedback.rejections[n] > 0 /\ Len(q.completed) < feedback.rejections[n]
                         \/ feedback.rejections[n] = 0 /\ <<"rejection", n>> \in q.pending_repair
  BY <1>1, <1>2, <1>3, <1>5, <1>6, <1>7, <1>8, <1>9 DEF Settles
<1>10. Settles(q, feedback)  BY <1>2, <1>3, <1>6, <1>8, <1>9 DEF Settles
<1> QED  BY <1>10 DEF q

LEMMA AbsorbSettles ==
    ASSUME TypeOK PROVE
        \A q \in Progress : Fits(q, feedback) /\ Settles(q, feedback) => Settles(absorb(q), feedback)
<1> SUFFICES ASSUME NEW q \in Progress, Fits(q, feedback), Settles(q, feedback)
             PROVE  Settles(absorb(q), feedback)
  OBVIOUS
<1> DEFINE n == Len(feedback.rejections)
           r == reopen_after_rejection(q)
<1>1. n \in Nat /\ feedback.changes \in Nat /\ q.handled_rejections \in Nat /\ q.handled_rejections <= n
  BY DEF TypeOK, Progress, Fits
<1>2. r \in Progress  BY ReopenType
<1>3. r.handled_rejections = n /\ r.handled_changes = q.handled_changes /\ r.answered = q.answered
  BY <1>1 DEF reopen_after_rejection, Progress
<1>4. Settles(r, feedback)
  <2>1. CASE n = q.handled_rejections  BY <1>1, <2>1 DEF reopen_after_rejection
  <2>2. CASE n > q.handled_rejections
    <3>1. feedback.changes > 0 /\ r.handled_changes = feedback.changes => <<"change", feedback.changes>> \in r.answered
      BY <1>1, <1>3, <2>2 DEF Settles
    <3>2. feedback.rejections[n] \in Nat  BY <1>1, <2>2 DEF TypeOK
    <3>3. CASE feedback.rejections[n] > 0
      <4> DEFINE m == IF Len(q.completed) < feedback.rejections[n] THEN Len(q.completed)
                      ELSE feedback.rejections[n] - 1
      <4>1. r = [[q EXCEPT !.handled_rejections = n] EXCEPT
                    !.completed = SubSeq(q.completed, 1, m), !.current = Rejection]
        BY <1>1, <2>2, <3>3 DEF reopen_after_rejection, Progress
      <4>2. r.completed = SubSeq(q.completed, 1, m)  BY <4>1 DEF Progress
      <4>3. q.completed \in Seq(Entries) /\ Len(q.completed) \in Nat  BY DEF Progress
      <4>4. m \in 0 .. Len(q.completed) /\ m < feedback.rejections[n]  BY <3>2, <3>3, <4>3
      <4> HIDE DEF m, r
      <4>5. Len(r.completed) = m  BY <4>2, <4>3, <4>4
      <4> QED  BY <3>1, <3>3, <4>4, <4>5 DEF Settles
    <3>4. CASE feedback.rejections[n] = 0
      <4>1. r.pending_repair = {<<"rejection", n>>}
        BY <1>1, <2>2, <3>4 DEF reopen_after_rejection, Progress
      <4> QED  BY <3>1, <3>4, <4>1 DEF Settles
    <3> QED  BY <3>2, <3>3, <3>4
  <2> QED  BY <1>1, <2>1, <2>2
<1> HIDE DEF r
<1>5. CASE feedback.changes <= r.handled_changes
  BY <1>4, <1>5 DEF absorb, queue_user_changes, r
<1>6. CASE ~(feedback.changes <= r.handled_changes)
  <2> DEFINE c == [r EXCEPT !.handled_changes = feedback.changes,
                            !.pending_repair = @ \cup {<<"change", feedback.changes>>}]
  <2>1. absorb(q) = c  BY <1>6 DEF absorb, queue_user_changes, r
  <2>2. /\ c.completed = r.completed /\ c.handled_rejections = n /\ c.answered = r.answered
        /\ c.pending_repair = r.pending_repair \cup {<<"change", feedback.changes>>}
    BY <1>2, <1>3 DEF Progress
  <2> HIDE DEF c
  <2>3. Settles(c, feedback)  BY <1>3, <1>4, <2>2 DEF Settles
  <2> QED  BY <2>1, <2>3
<1> QED  BY <1>5, <1>6

LEMMA AnswerRecordBuild ==
    ASSUME TypeOK, PlaceInv, AnswerInv, pc # "idle", UNCHANGED feedback PROVE
        \A s, c : record_build(p, s, c) => AnswerInv'
<1> SUFFICES ASSUME NEW s, NEW c, record_build(p, s, c) PROVE AnswerInv'  OBVIOUS
<1> DEFINE noted == [p EXCEPT !.current = Current(s, FALSE),
                              !.unfinished = IF s \in builder_done THEN @ \ {Edit(p)}
                                             ELSE IF c THEN @ \cup {Edit(p)} ELSE @]
<1>1. SamePlan(noted, p)  BY DEF TypeOK, SamePlan, Progress
<1>2. \/ Checkpoint(noted, Again("Unfinished").next, at, Again("Unfinished").job)
      \/ Checkpoint(noted, "review", at, [job EXCEPT !.changed = c])
      \/ Checkpoint(noted, "failed", at, NewJob)
  BY DEF record_build
<1>3. Again("Unfinished").next # "settled"  BY JobTypes
<1> HIDE DEF noted
<1> QED  BY <1>1, <1>2, <1>3, AnswerWork

LEMMA AnswerStep == TypeOK /\ PlaceInv /\ AnswerInv /\ [Next]_vars => AnswerInv'
<1> SUFFICES ASSUME TypeOK, PlaceInv, AnswerInv, [Next]_vars PROVE AnswerInv'  OBVIOUS
<1>t. p \in Progress /\ at \in Nat \ {0} /\ saved \in Progress \cup {None}  BY DEF TypeOK
<1>s. pc # "idle" => Settles(p, feedback)  BY MemorySettles
<1>p. SamePlan(p, p)  BY DEF SamePlan
<1>1. CASE StartQueue
  <2>1. read_progress \in Progress  BY <1>t, Plan DEF read_progress
  <2>2. Fits(read_progress, feedback) /\ Settles(read_progress, feedback)
    <3>1. CASE saved = None
      BY <3>1, Plan DEF read_progress, NewProgress, Fits, Settles, InOrder, TypeOK
    <3> QED  BY <3>1 DEF PlaceInv, AnswerInv, read_progress
  <2>3. Settles(absorb(read_progress), feedback)  BY <2>1, <2>2, AbsorbSettles
  <2>4. /\ Checkpoint(absorb(read_progress), "walk", Len(absorb(read_progress).completed) + 1, NewJob)
        /\ UNCHANGED feedback
    BY <1>1 DEF StartQueue
  <2> QED  BY <2>3, <2>4, AnswerSaves
<1>2. CASE skip_if_blocked
  BY <1>2, PushSettles, AnswerSaves DEF skip_if_blocked
<1>3. CASE run_task_flow
  <2>1. PICK t \in Edited(p) :
          \/ Checkpoint([Push(p, "flow") EXCEPT !.current = None, !.accepted = t], "walk", at + 1, NewJob)
          \/ Goto("failed", at, NewJob) /\ UNCHANGED <<p, saved, faults>>
    BY <1>3 DEF run_task_flow
  <2>2. planned /\ pc # "idle" /\ UNCHANGED feedback
    BY <1>3, QueueAssumption DEF run_task_flow, task, planned, Taken
  <2> DEFINE q == [Push(p, "flow") EXCEPT !.current = None, !.accepted = t]
  <2>3. Push(p, "flow") \in Progress  BY <2>2, <1>t, PushType
  <2>4. SamePlan(q, Push(p, "flow"))  BY <2>3 DEF Progress, SamePlan
  <2>5. Settles(Push(p, "flow"), feedback)  BY <2>2, PushSettles
  <2> HIDE DEF q
  <2>6. Settles(q, feedback)  BY <2>4, <2>5 DEF Settles, SamePlan
  <2>7. CASE Checkpoint(q, "walk", at + 1, NewJob)  BY <2>2, <2>6, <2>7, AnswerSaves
  <2>8. CASE Goto("failed", at, NewJob) /\ UNCHANGED <<p, saved, faults>>
    BY <2>2, <2>8 DEF AnswerInv, Goto
  <2> QED  BY <2>1, <2>7, <2>8 DEF q
<1>4. CASE StartTask
  <2> DEFINE q == baseline(p)
             r == start_from_the_baseline(q, job.guidance)
  <2>1. q \in Progress /\ SamePlan(q, p)  BY <1>t, BaselineType DEF baseline, SamePlan, Progress
  <2> HIDE DEF q
  <2>2. SamePlan(r, q)  BY <2>1 DEF start_from_the_baseline, undo_attempt, Progress, SamePlan
  <2> HIDE DEF r
  <2>3. SamePlan(r, p)  BY <2>1, <2>2 DEF SamePlan
  <2>4. /\ Checkpoint(r, "plan", at, [NewJob EXCEPT !.guidance = job.guidance])
        /\ UNCHANGED feedback /\ pc # "idle"
    BY <1>4 DEF StartTask, Taken, q, r
  <2> QED  BY <2>3, <2>4, AnswerWork
<1>5. CASE plan_task
  <2>1. SamePlan([p EXCEPT !.step_plan = task], p) /\ SamePlan(record_split(p), p)
    BY <1>t DEF Progress, record_split, SamePlan
  <2>2. CASE Checkpoint([p EXCEPT !.step_plan = task], "build", at, NewJob)
    BY <2>1, <2>2, <1>5, AnswerWork DEF plan_task
  <2>3. CASE Checkpoint(record_split(p), "build", at, NewJob)
    BY <2>1, <2>3, <1>5, AnswerWork DEF plan_task
  <2>4. CASE (Goto("build", at, NewJob) \/ Goto("failed", at, NewJob)) /\ UNCHANGED <<p, saved, faults>>
    BY <2>4, <1>5 DEF plan_task, Goto, AnswerInv
  <2> QED  BY <2>2, <2>3, <2>4, <1>5 DEF plan_task
<1>6. CASE BuildStopped
  BY <1>6 DEF BuildStopped, Goto, AnswerInv
<1>7. CASE build_task
  <2>1. PICK changed \in BOOLEAN, status \in {"complete", "blocked_environment", "unfinished", "blocked"} :
        \E t \in (IF changed THEN Edited(p) ELSE {tree}) :
          /\ tree' = t
          /\ IF pending_split(p, task) /\ status \in builder_done
             THEN Checkpoint(finish_step(p, t), IF pending_split(finish_step(p, t), task) THEN "build" ELSE "built",
                             at, [job EXCEPT !.changed = job.changed \/ changed])
             ELSE record_build(p, status, job.changed \/ changed)
    BY <1>7 DEF build_task
  <2>2. PICK t \in (IF changed THEN Edited(p) ELSE {tree}) :
          \/ Checkpoint(finish_step(p, t), IF pending_split(finish_step(p, t), task) THEN "build" ELSE "built",
                        at, [job EXCEPT !.changed = job.changed \/ changed])
          \/ record_build(p, status, job.changed \/ changed)
    BY <2>1
  <2>3. UNCHANGED feedback /\ pc # "idle"  BY <1>7 DEF build_task
  <2> DEFINE q == finish_step(p, t)
  <2>4. SamePlan(q, p)  BY <1>t DEF finish_step, SamePlan, Progress
  <2> HIDE DEF q
  <2>5. CASE Checkpoint(q, IF pending_split(q, task) THEN "build" ELSE "built",
                        at, [job EXCEPT !.changed = job.changed \/ changed])
    BY <2>3, <2>4, <2>5, AnswerWork
  <2>6. CASE record_build(p, status, job.changed \/ changed)  BY <2>3, <2>6, AnswerRecordBuild
  <2> QED  BY <2>2, <2>5, <2>6 DEF q
<1>8. CASE AllStepsBuilt  BY <1>8, AnswerRecordBuild DEF AllStepsBuilt
<1>9. CASE check_after_build
  <2>1. Again("NewErrors").next # "settled"  BY JobTypes
  <2> QED  BY <1>9, <1>p, <2>1, AnswerWork DEF check_after_build
<1>10. CASE review_accepts
  <2> DEFINE q == record_acceptance(p)
  <2>1. pc # "idle" /\ UNCHANGED feedback /\ Checkpoint(q, Onward, at + 1, NewJob)  BY <1>10 DEF review_accepts
  <2>2. CASE planned
    <3>1. Push(p, "accepted") \in Progress  BY <2>2, PushType, <1>t
    <3>2. SamePlan(q, Push(p, "accepted"))  BY <2>2, <3>1 DEF record_acceptance, Accepted, Progress, SamePlan
    <3>3. Settles(Push(p, "accepted"), feedback)  BY <2>1, <2>2, PushSettles
    <3> HIDE DEF q
    <3>4. Settles(q, feedback)  BY <3>2, <3>3 DEF Settles, SamePlan
    <3> QED  BY <2>1, <2>2, <3>4, AnswerSaves DEF Onward
  <2>3. CASE ~planned
    <3>1. /\ q.completed = p.completed /\ q.pending_repair = p.pending_repair
          /\ q.handled_rejections = p.handled_rejections /\ q.handled_changes = p.handled_changes
          /\ q.answered = p.answered \cup p.pending_repair
      BY <2>3, <1>t DEF record_acceptance, Accepted, Progress
    <3> HIDE DEF q
    <3>2. Settles(q, feedback)  BY <1>s, <2>1, <3>1 DEF Settles
    <3> QED  BY <2>1, <3>1, <3>2, AnswerSaves
  <2> QED  BY <2>2, <2>3
<1>11. CASE review_rejects
  <2>1. Again("Rejected").next # "settled"  BY JobTypes
  <2> QED  BY <1>11, <1>p, <2>1, AnswerWork DEF review_rejects
<1>12. CASE review_unfinished
  BY <1>12, <1>p, AnswerWork DEF review_unfinished
<1>13. CASE keep_the_work
  <2>1. SamePlan([p EXCEPT !.current.kept = TRUE], p)  BY <1>t DEF SamePlan, Progress
  <2> QED  BY <1>13, <2>1, AnswerWork DEF keep_the_work
<1>14. CASE undo_and_checkpoint
  <2>1. SamePlan(undo_attempt(p), p)  BY <1>t DEF SamePlan, Progress, undo_attempt
  <2> QED  BY <1>14, <2>1, AnswerWork DEF undo_and_checkpoint
<1>15. CASE try_split
  <2>1. SamePlan(record_split(p), p)  BY <1>t DEF Progress, record_split, SamePlan
  <2>2. CASE Checkpoint(record_split(p), "build", at, NewJob)  BY <2>1, <2>2, <1>15, AnswerWork DEF try_split
  <2>3. CASE Goto("failed", at, NewJob) /\ UNCHANGED <<p, saved, faults>>
    BY <2>3, <1>15 DEF try_split, Goto, AnswerInv
  <2> QED  BY <2>2, <2>3, <1>15 DEF try_split
<1>16. CASE RepairSettled
  <2> DEFINE q == [p EXCEPT !.pending_repair = {}]
  <2>1. /\ q.completed = p.completed /\ q.answered = p.answered /\ p.pending_repair \subseteq p.answered
        /\ q.handled_rejections = p.handled_rejections /\ q.handled_changes = p.handled_changes
    BY <1>16, <1>t DEF Progress, RepairSettled, AnswerInv
  <2> HIDE DEF q
  <2>2. Settles(q, feedback)  BY <2>1, <1>s, <1>16 DEF RepairSettled, Settles
  <2> QED  BY <1>16, <2>2, AnswerSaves DEF RepairSettled, q
<1>17. CASE Finish  BY <1>17 DEF Finish, Goto, AnswerInv
<1>18. CASE Retry  BY <1>18 DEF Retry, Goto, AnswerInv
<1>19. CASE skip
  <2> DEFINE q == [Skipped(p) EXCEPT !.current = None, !.step_plan = None]
  <2>1. pc # "idle" /\ UNCHANGED feedback /\ Checkpoint(q, Onward, at + 1, NewJob)  BY <1>19 DEF skip
  <2>2. CASE planned
    <3>1. Push(p, "skipped") \in Progress  BY <2>2, PushType, <1>t
    <3>2. SamePlan(q, Push(p, "skipped"))  BY <2>2, <3>1 DEF Skipped, Progress, SamePlan
    <3>3. Settles(Push(p, "skipped"), feedback)  BY <2>1, <2>2, PushSettles
    <3> HIDE DEF q
    <3>4. Settles(q, feedback)  BY <3>2, <3>3 DEF Settles, SamePlan
    <3> QED  BY <2>1, <2>2, <3>4, AnswerSaves DEF Onward
  <2>3. CASE ~planned
    <3>1. /\ q.completed = p.completed /\ q.pending_repair = {}
          /\ q.handled_rejections = p.handled_rejections /\ q.handled_changes = p.handled_changes
          /\ q.answered = p.answered \cup p.pending_repair
      BY <2>3, <1>t DEF Skipped, Progress
    <3> HIDE DEF q
    <3>2. Settles(q, feedback)  BY <1>s, <2>1, <3>1 DEF Settles
    <3> QED  BY <2>1, <3>1, <3>2, AnswerSaves
  <2> QED  BY <2>2, <2>3
<1>20. CASE StopHere  BY <1>20, AnswerStops DEF StopHere
<1>21. CASE RevisePlan  BY <1>21, AnswerStops DEF RevisePlan
<1>22. CASE Interrupted  BY <1>22, AnswerStops DEF Interrupted
<1>f. pc = "finished" =>
        /\ saved = p /\ p.pending_repair = {} /\ Settles(p, feedback)
        /\ p.handled_rejections = Len(feedback.rejections) /\ p.handled_changes = feedback.changes
  BY <1>s DEF PlaceInv, Position
<1>23. CASE Rejected
  <2>1. PICK i \in 0 .. Len(Tasks) : Told([feedback EXCEPT !.rejections = Append(@, i)])
    BY <1>23 DEF Rejected
  <2>2. feedback.rejections \in Seq(0 .. Len(Tasks))  BY DEF TypeOK
  <2>3. Len(feedback'.rejections) = Len(feedback.rejections) + 1 /\ feedback'.changes = feedback.changes
    BY <2>1, <2>2 DEF Told, TypeOK
  <2>4. Len(feedback.rejections) \in Nat  BY <2>2
  <2>5. pc = "finished" /\ saved' = saved /\ pc' = "idle"  BY <2>1 DEF Told, Stops, Goto
  <2>6. Settles(saved, feedback')  BY <1>f, <2>3, <2>4, <2>5 DEF Settles
  <2> QED  BY <2>5, <2>6 DEF AnswerInv
<1>24. CASE ChangesRequested
  <2>1. feedback'.rejections = feedback.rejections /\ feedback'.changes = feedback.changes + 1
    BY <1>24 DEF ChangesRequested, Told, TypeOK
  <2>2. feedback.changes \in Nat  BY DEF TypeOK
  <2>3. pc = "finished" /\ saved' = saved /\ pc' = "idle"  BY <1>24 DEF ChangesRequested, Told, Stops, Goto
  <2>4. Settles(saved, feedback')  BY <1>f, <2>1, <2>2, <2>3 DEF Settles
  <2> QED  BY <2>3, <2>4 DEF AnswerInv
<1>25. CASE UNCHANGED vars  BY <1>25 DEF vars, AnswerInv
<1> QED
  BY <1>1, <1>2, <1>3, <1>4, <1>5, <1>6, <1>7, <1>8, <1>9, <1>10, <1>11, <1>12, <1>13, <1>14, <1>15,
     <1>16, <1>17, <1>18, <1>19, <1>20, <1>21, <1>22, <1>23, <1>24, <1>25 DEF Next, QueueStep

(***************************************************************************)
(* When the queue reports that it is done, the last rejection and the last *)
(* change request were answered: absorb forgets neither, whatever stopped  *)
(* or revised the queue since, and a repair is only taken off the progress *)
(* once it was made or skipped.                                            *)
(***************************************************************************)
THEOREM RequestsAreAnswered == Spec => []EveryRequestIsAnswered
<1>1. Init => TypeOK /\ PlaceInv /\ AnswerInv
  BY Plan DEF Init, TypeOK, Places, PlaceInv, AnswerInv
<1>2. TypeOK /\ PlaceInv /\ AnswerInv /\ [Next]_vars => (TypeOK /\ PlaceInv /\ AnswerInv)'
  BY TypeStep, PlaceStep, AnswerStep
<1>3. TypeOK /\ PlaceInv /\ AnswerInv => EveryRequestIsAnswered
  <2> SUFFICES ASSUME TypeOK, PlaceInv, AnswerInv, pc = "finished"
               PROVE  /\ feedback.rejections # <<>> => <<"rejection", Len(feedback.rejections)>> \in p.answered
                      /\ feedback.changes > 0 => <<"change", feedback.changes>> \in p.answered
    BY DEF EveryRequestIsAnswered
  <2> DEFINE n == Len(feedback.rejections)
  <2>1. Settles(p, feedback)  BY MemorySettles
  <2>2. /\ p.handled_rejections = n /\ p.handled_changes = feedback.changes
        /\ p.pending_repair = {} /\ Position(p, pc, at, feedback)
    BY DEF PlaceInv, Position
  <2>3. at \in Nat /\ Len(p.completed) \in Nat /\ Len(Tasks) \in Nat  BY Plan DEF TypeOK, Progress
  <2>4. Len(p.completed) = Len(Tasks)  BY <2>2, <2>3 DEF Position, InOrder
  <2>5. feedback.rejections \in Seq(0 .. Len(Tasks)) /\ n \in Nat  BY DEF TypeOK
  <2>6. n > 0 => feedback.rejections[n] \in 0 .. Len(Tasks)  BY <2>5
  <2>7. feedback.rejections # <<>> => n > 0  BY <2>5
  <2> HIDE DEF n
  <2>8. n > 0 => <<"rejection", n>> \in p.answered
    BY <2>1, <2>2, <2>3, <2>4, <2>5, <2>6 DEF Settles, n
  <2> QED  BY <2>1, <2>2, <2>7, <2>8 DEF Settles, n
<1> QED  BY <1>1, <1>2, <1>3, PTL DEF Spec

(***************************************************************************)
(* Accepted work is in the tree, and in every tree an undo can go back to. *)
(***************************************************************************)
Kept(q, t) == q.accepted \subseteq t /\ (q.baseline # None => q.accepted \subseteq q.baseline.tree)

AcceptInv == saved # None => Kept(saved, tree)

LEMMA MemoryKept ==
    TypeOK /\ PlaceInv /\ AcceptInv /\ pc # "idle" =>
        /\ Kept(p, tree) /\ saved # None
        /\ saved.accepted = p.accepted /\ saved.baseline = p.baseline
<1> SUFFICES ASSUME TypeOK, PlaceInv, AcceptInv, pc # "idle"
             PROVE  /\ Kept(p, tree) /\ saved # None
                    /\ saved.accepted = p.accepted /\ saved.baseline = p.baseline
  OBVIOUS
<1>1. /\ saved = [p EXCEPT !.current = saved.current, !.unfinished = saved.unfinished]
      /\ p \in Progress /\ saved # None
  BY DEF PlaceInv, TypeOK
<1>3. saved.accepted = p.accepted /\ saved.baseline = p.baseline
  <2> DEFINE c == saved.current
             u == saved.unfinished
             q == [p EXCEPT !.current = c, !.unfinished = u]
  <2>1. q.accepted = p.accepted /\ q.baseline = p.baseline
    <3> HIDE DEF c, u
    <3> QED  BY <1>1 DEF Progress
  <2> QED  BY <1>1, <2>1
<1> QED  BY <1>1, <1>3 DEF AcceptInv, Kept

LEMMA AcceptWork ==
    ASSUME TypeOK, PlaceInv, AcceptInv, pc # "idle", p.accepted \subseteq tree' PROVE
        \A q, n, a, j : Checkpoint(q, n, a, j) /\ Kept(q, tree') => AcceptInv'
<1> SUFFICES ASSUME NEW q, NEW n, NEW a, NEW j, Checkpoint(q, n, a, j), Kept(q, tree') PROVE AcceptInv'
  OBVIOUS
<1>1. CASE saved' = q  BY <1>1 DEF AcceptInv
<1>2. CASE saved' = saved  BY <1>2, MemoryKept DEF AcceptInv, Kept
<1> QED  BY <1>1, <1>2, CheckpointCases

LEMMA AcceptIdle ==
    AcceptInv /\ saved' \in {saved, None} /\ tree \subseteq tree' => AcceptInv'
  BY DEF AcceptInv, Kept

LEMMA AcceptRecordBuild ==
    ASSUME TypeOK, PlaceInv, AcceptInv, pc # "idle", tree \subseteq tree' PROVE
        \A s, c : record_build(p, s, c) => AcceptInv'
<1> SUFFICES ASSUME NEW s, NEW c, record_build(p, s, c) PROVE AcceptInv'  OBVIOUS
<1> DEFINE noted == [p EXCEPT !.current = Current(s, FALSE),
                              !.unfinished = IF s \in builder_done THEN @ \ {Edit(p)}
                                             ELSE IF c THEN @ \cup {Edit(p)} ELSE @]
<1>1. noted.accepted = p.accepted /\ noted.baseline = p.baseline  BY DEF TypeOK, Progress
<1>2. \/ Checkpoint(noted, Again("Unfinished").next, at, Again("Unfinished").job)
      \/ Checkpoint(noted, "review", at, [job EXCEPT !.changed = c])
      \/ Checkpoint(noted, "failed", at, NewJob)
  BY DEF record_build
<1> HIDE DEF noted
<1>3. Kept(p, tree) /\ p.accepted \subseteq tree'  BY MemoryKept DEF Kept
<1>4. Kept(noted, tree')  BY <1>1, <1>3 DEF Kept
<1> QED  BY <1>2, <1>3, <1>4, AcceptWork

LEMMA AcceptStep == FlowTasks = {} /\ TypeOK /\ PlaceInv /\ AcceptInv /\ [Next]_vars => AcceptInv'
<1> SUFFICES ASSUME FlowTasks = {}, TypeOK, PlaceInv, AcceptInv, [Next]_vars PROVE AcceptInv'  OBVIOUS
<1>t. p \in Progress /\ saved \in Progress \cup {None}  BY DEF TypeOK
<1>k. pc # "idle" => Kept(p, tree) /\ p.accepted \subseteq tree  BY MemoryKept DEF Kept
<1>1. CASE StartQueue
  <2> DEFINE r == reopen_after_rejection(read_progress)
             q == absorb(read_progress)
  <2>1. read_progress \in Progress  BY <1>t, Plan DEF read_progress
  <2>2. r \in Progress  BY <2>1, ReopenType
  <2>3. r.accepted = read_progress.accepted /\ r.baseline = read_progress.baseline
    BY <2>1 DEF reopen_after_rejection, Progress
  <2> HIDE DEF r
  <2>4. q.accepted = r.accepted /\ q.baseline = r.baseline
    BY <2>2 DEF absorb, queue_user_changes, Progress, r
  <2> HIDE DEF q
  <2>5. Kept(read_progress, tree)  BY DEF read_progress, AcceptInv, Kept, NewProgress
  <2>6. Kept(q, tree')  BY <1>1, <2>3, <2>4, <2>5 DEF StartQueue, Kept
  <2>7. \E a : Checkpoint(q, "walk", a, NewJob)  BY <1>1 DEF StartQueue, q
  <2>8. saved' = q \/ saved' = saved  BY <2>7, CheckpointCases
  <2> QED  BY <1>1, <2>6, <2>8 DEF AcceptInv, StartQueue
<1>2. CASE skip_if_blocked
  <2>1. Push(p, "skipped").accepted = p.accepted /\ Push(p, "skipped").baseline = p.baseline
    BY <1>t DEF Push, Progress
  <2>2. Kept(Push(p, "skipped"), tree')  BY <1>2, <1>k, <2>1 DEF skip_if_blocked, Kept
  <2> QED  BY <1>2, <1>k, <2>2, AcceptWork DEF skip_if_blocked
<1>3. CASE run_task_flow  BY <1>3 DEF run_task_flow
<1>4. CASE StartTask
  <2> DEFINE q == baseline(p)
             r == start_from_the_baseline(q, job.guidance)
  <2>1. q \in Progress  BY <1>t, BaselineType
  <2>2. pc # "idle" /\ tree' \in {Restored(q), tree}
        /\ Checkpoint(r, "plan", at, [NewJob EXCEPT !.guidance = job.guidance])
    BY <1>4 DEF StartTask, Taken
  <2>3. q.baseline # None => q.accepted \subseteq q.baseline.tree
    BY <2>2, <1>t, <1>k DEF baseline, Progress, Kept
  <2>4. q.accepted = p.accepted  BY <1>t DEF baseline, Progress
  <2> HIDE DEF q
  <2>5. r.accepted = q.accepted /\ r.baseline = q.baseline
    BY <2>1 DEF start_from_the_baseline, undo_attempt, Progress
  <2> HIDE DEF r
  <2>6. p.accepted \subseteq tree'  BY <2>2, <2>3, <2>4, <1>k DEF Restored, Of
  <2>7. Kept(r, tree')  BY <2>3, <2>4, <2>5, <2>6 DEF Kept
  <2> QED  BY <2>2, <2>6, <2>7, AcceptWork
<1>5. CASE plan_task
  <2> DEFINE q == [p EXCEPT !.step_plan = task]
             r == record_split(p)
  <2>1. /\ q.accepted = p.accepted /\ q.baseline = p.baseline
        /\ r.accepted = p.accepted /\ r.baseline = p.baseline
    BY <1>t DEF Progress, record_split
  <2>2. /\ pc # "idle" /\ tree' = tree
        /\ saved' = saved \/ Checkpoint(q, "build", at, NewJob) \/ Checkpoint(r, "build", at, NewJob)
    BY <1>5 DEF plan_task
  <2> HIDE DEF q, r
  <2>3. Kept(q, tree') /\ Kept(r, tree')  BY <2>1, <2>2, <1>k DEF Kept
  <2> QED  BY <2>2, <2>3, <1>k, AcceptWork, AcceptIdle
<1>6. CASE BuildStopped
  BY <1>6, EditedType, AcceptIdle DEF BuildStopped
<1>7. CASE build_task
  <2>1. PICK changed \in BOOLEAN, status \in {"complete", "blocked_environment", "unfinished", "blocked"} :
        \E t \in (IF changed THEN Edited(p) ELSE {tree}) :
          /\ tree' = t
          /\ IF pending_split(p, task) /\ status \in builder_done
             THEN Checkpoint(finish_step(p, t), IF pending_split(finish_step(p, t), task) THEN "build" ELSE "built",
                             at, [job EXCEPT !.changed = job.changed \/ changed])
             ELSE record_build(p, status, job.changed \/ changed)
    BY <1>7 DEF build_task
  <2>2. PICK t \in (IF changed THEN Edited(p) ELSE {tree}) :
          /\ tree' = t
          /\ \/ Checkpoint(finish_step(p, t), IF pending_split(finish_step(p, t), task) THEN "build" ELSE "built",
                           at, [job EXCEPT !.changed = job.changed \/ changed])
             \/ record_build(p, status, job.changed \/ changed)
    BY <2>1
  <2>3. tree \subseteq t  BY EditedType
  <2>4. pc # "idle"  BY <1>7 DEF build_task
  <2> DEFINE q == finish_step(p, t)
  <2>5. q.accepted = p.accepted /\ q.baseline = [task |-> task, tree |-> t]
    BY <1>t DEF finish_step, Progress
  <2> HIDE DEF q
  <2>6. p.accepted \subseteq t  BY <2>3, <2>4, <1>k
  <2>7. Kept(q, tree')  BY <2>2, <2>5, <2>6 DEF Kept
  <2>8. CASE Checkpoint(q, IF pending_split(q, task) THEN "build" ELSE "built",
                        at, [job EXCEPT !.changed = job.changed \/ changed])
    BY <2>2, <2>4, <2>6, <2>7, <2>8, AcceptWork
  <2>9. CASE record_build(p, status, job.changed \/ changed)  BY <2>2, <2>3, <2>4, <2>9, AcceptRecordBuild
  <2> QED  BY <2>2, <2>8, <2>9 DEF q
<1>8. CASE AllStepsBuilt  BY <1>8, AcceptRecordBuild DEF AllStepsBuilt
<1>9. CASE check_after_build  BY <1>9, <1>k, AcceptWork DEF check_after_build
<1>10. CASE review_accepts
  <2> DEFINE q == record_acceptance(p)
  <2>1. q.accepted = tree /\ q.baseline = None
    <3>1. Accepted(p) \in Progress  BY <1>t, PushType DEF Accepted, Progress
    <3> QED  BY <3>1 DEF record_acceptance, Progress
  <2>2. pc # "idle" /\ tree' = tree /\ Checkpoint(q, Onward, at + 1, NewJob)  BY <1>10 DEF review_accepts
  <2> HIDE DEF q
  <2>3. Kept(q, tree')  BY <2>1, <2>2 DEF Kept
  <2> QED  BY <2>2, <2>3, <1>k, AcceptWork
<1>11. CASE review_rejects  BY <1>11, <1>k, AcceptWork DEF review_rejects
<1>12. CASE review_unfinished  BY <1>12, <1>k, AcceptWork DEF review_unfinished
<1>13. CASE keep_the_work
  <2> DEFINE q == [p EXCEPT !.current.kept = TRUE]
  <2>1. q.accepted = p.accepted /\ q.baseline = p.baseline  BY <1>t DEF Progress
  <2> HIDE DEF q
  <2>2. pc # "idle" /\ tree' = tree /\ Checkpoint(q, "failed", at, NewJob)  BY <1>13 DEF keep_the_work, q
  <2>3. Kept(q, tree')  BY <2>1, <2>2, <1>k DEF Kept
  <2> QED  BY <2>2, <2>3, <1>k, AcceptWork
<1>14. CASE undo_and_checkpoint
  <2> DEFINE q == undo_attempt(p)
  <2>1. q.accepted = p.accepted /\ q.baseline = p.baseline  BY <1>t DEF Progress, undo_attempt
  <2> HIDE DEF q
  <2>2. pc # "idle" /\ tree' = Restored(p) /\ Checkpoint(q, "undone", at, NewJob)
    BY <1>14 DEF undo_and_checkpoint, q
  <2>3. p.accepted \subseteq tree'  BY <2>2, <1>k DEF Restored, Of, Kept
  <2>4. Kept(q, tree')  BY <2>1, <2>2, <2>3, <1>k DEF Kept
  <2> QED  BY <2>2, <2>3, <2>4, AcceptWork
<1>15. CASE try_split
  <2> DEFINE q == record_split(p)
  <2>1. q.accepted = p.accepted /\ q.baseline = p.baseline  BY <1>t DEF Progress, record_split
  <2> HIDE DEF q
  <2>2. pc # "idle" /\ tree' = tree /\ (saved' = saved \/ Checkpoint(q, "build", at, NewJob))
    BY <1>15 DEF try_split, q
  <2>3. Kept(q, tree')  BY <2>1, <2>2, <1>k DEF Kept
  <2> QED  BY <2>2, <2>3, <1>k, AcceptWork, AcceptIdle
<1>16. CASE RepairSettled
  <2> DEFINE q == [p EXCEPT !.pending_repair = {}]
  <2>1. q.accepted = p.accepted /\ q.baseline = p.baseline  BY <1>t DEF Progress
  <2> HIDE DEF q
  <2>2. pc # "idle" /\ tree' = tree /\ Checkpoint(q, "walk", at, NewJob)  BY <1>16 DEF RepairSettled, q
  <2>3. Kept(q, tree')  BY <2>1, <2>2, <1>k DEF Kept
  <2> QED  BY <2>2, <2>3, <1>k, AcceptWork
<1>19. CASE skip
  <2> DEFINE q == [Skipped(p) EXCEPT !.current = None, !.step_plan = None]
  <2>1. q.accepted = p.accepted /\ q.baseline = p.baseline
    <3>1. CASE planned
      <4>1. Push(p, "skipped") \in Progress  BY <3>1, <1>t, PushType
      <4>2. Push(p, "skipped").accepted = p.accepted /\ Push(p, "skipped").baseline = p.baseline
        BY <1>t DEF Push, Progress
      <4> QED  BY <3>1, <4>1, <4>2 DEF Skipped, Progress
    <3>2. CASE ~planned  BY <3>2, <1>t DEF Skipped, Progress
    <3> QED  BY <3>1, <3>2
  <2> HIDE DEF q
  <2>2. pc # "idle" /\ tree' = tree /\ Checkpoint(q, Onward, at + 1, NewJob)  BY <1>19 DEF skip, q
  <2>3. Kept(q, tree')  BY <2>1, <2>2, <1>k DEF Kept
  <2> QED  BY <2>2, <2>3, <1>k, AcceptWork
<1>20. CASE Finish \/ Retry \/ StopHere \/ RevisePlan \/ Interrupted \/ Rejected \/ ChangesRequested
  <2>1. saved' \in {saved, None} /\ tree' = tree
    BY <1>20 DEF Finish, Retry, StopHere, RevisePlan, Interrupted, Rejected, ChangesRequested, Told
  <2> QED  BY <2>1, AcceptIdle
<1>25. CASE UNCHANGED vars  BY <1>25 DEF vars, AcceptInv
<1> QED
  BY <1>1, <1>2, <1>3, <1>4, <1>5, <1>6, <1>7, <1>8, <1>9, <1>10, <1>11, <1>12, <1>13, <1>14, <1>15,
     <1>16, <1>19, <1>20, <1>25 DEF Next, QueueStep

(***************************************************************************)
(* In a queue whose tasks are all built and reviewed, no undo takes away   *)
(* accepted work, however tasks are retried, split, skipped, reopened and  *)
(* interrupted: an accepted task clears the baseline, so that no earlier   *)
(* tree can come back.  A flow's end does not, hence the hypothesis.       *)
(***************************************************************************)
THEOREM AcceptedWorkIsKept ==
    ASSUME FlowTasks = {} PROVE Spec => []AcceptedWorkStays
<1>1. Init => TypeOK /\ PlaceInv /\ AcceptInv
  BY Plan DEF Init, TypeOK, Places, PlaceInv, AcceptInv
<1>2. TypeOK /\ PlaceInv /\ AcceptInv /\ [Next]_vars => (TypeOK /\ PlaceInv /\ AcceptInv)'
  BY TypeStep, PlaceStep, AcceptStep
<1>3. TypeOK /\ PlaceInv /\ AcceptInv => AcceptedWorkStays
  <2>1. PlaceInv /\ pc = "idle" => AcceptedWorkStays  BY DEF PlaceInv, NewProgress, AcceptedWorkStays
  <2> QED  BY <2>1, MemoryKept DEF Kept, AcceptedWorkStays
<1> QED  BY <1>1, <1>2, <1>3, PTL DEF Spec

(***************************************************************************)
(* Edits of builds that did not finish.  Those made since the last         *)
(* feedback belong to a task that is settled, or to the walk's next task,  *)
(* and then its last attempt is one that needs_undo will undo.  (Without   *)
(* interruptions: a build that is cut off leaves no note.)                 *)
(***************************************************************************)
Mark(q) == q.handled_rejections + q.handled_changes
NextTask(q) == TaskAt(Len(q.completed) + 1)

SettledIn(q, t) ==
    \/ \E i \in 1 .. Len(q.completed) : q.completed[i].task = t
    \/ t = Repair /\ q.pending_repair = {}

Clean(q) ==
    \A e \in q.unfinished :
        /\ e[2] <= Mark(q)
        /\ e[2] = Mark(q) => SettledIn(q, e[1]) \/ (e[1] = NextTask(q) /\ needs_undo(q, e[1], FALSE))

\* Where the task's last build, if any, has finished or has been undone.
Tidy(n, last) ==
    n \in {"plan", "review", "undone"} \/ (n = "round" /\ last \in {"Rejected", "Disagreement"})

CleanInv ==
    faults = 0 =>
        /\ Clean(p) /\ (saved # None => Clean(saved))
        /\ Tidy(pc, job.last) => Edit(p) \notin p.unfinished

LEMMA WalksNext == TypeOK /\ PlaceInv /\ pc # "idle" => task = NextTask(p)
<1> SUFFICES ASSUME TypeOK, PlaceInv, pc # "idle" PROVE task = NextTask(p)  OBVIOUS
<1>1. at \in Nat /\ Len(p.completed) \in Nat /\ Len(Tasks) \in Nat  BY Plan DEF TypeOK, Progress
<1>2. Position(p, pc, at, feedback)  BY DEF PlaceInv
<1> QED  BY <1>1, <1>2, TaskType DEF Position, InOrder, NextTask, TaskAt

LEMMA NotSettled ==
    TypeOK /\ PlaceInv /\ (pc \in Busy \/ Taken) => ~SettledIn(p, task)
<1> SUFFICES ASSUME TypeOK, PlaceInv, pc \in Busy \/ Taken PROVE ~SettledIn(p, task)  OBVIOUS
<1>1. /\ at \in Nat /\ Len(p.completed) \in Nat /\ Len(Tasks) \in Nat
      /\ \A i \in 1 .. Len(Tasks) : Tasks[i] \in Planned
  BY Plan DEF TypeOK, Progress
<1>2. pc # "idle" /\ Position(p, pc, at, feedback) /\ (planned \/ p.pending_repair # {})
  BY DEF PlaceInv, Position, Busy, Taken, planned
<1>3. CASE planned
  <2>1. at = Len(p.completed) + 1 /\ at <= Len(Tasks) /\ InOrder(p)  BY <1>1, <1>2, <1>3 DEF planned, Position
  <2>2. task = Tasks[at]  BY <2>1 DEF task
  <2>3. \A i \in 1 .. Len(p.completed) : p.completed[i].task # task
    BY <1>1, <2>1, <2>2, QueueAssumption DEF InOrder
  <2>4. task # Repair  BY <1>1, <2>1, <2>2, QueueAssumption
  <2> QED  BY <2>3, <2>4 DEF SettledIn
<1>4. CASE ~planned
  <2>1. task = Repair /\ p.pending_repair # {}  BY <1>2, <1>4 DEF task, planned
  <2>2. \A i \in 1 .. Len(p.completed) : p.completed[i].task # Repair
    BY <1>1, <1>2, QueueAssumption DEF Position, InOrder
  <2> QED  BY <2>1, <2>2 DEF SettledIn
<1> QED  BY <1>3, <1>4

LEMMA DirtyNow ==
    TypeOK /\ PlaceInv /\ (pc \in Busy \/ Taken) /\ Clean(p) /\ Edit(p) \in p.unfinished
        => needs_undo(p, task, FALSE)
<1> SUFFICES ASSUME TypeOK, PlaceInv, pc \in Busy \/ Taken, Clean(p), Edit(p) \in p.unfinished
             PROVE needs_undo(p, task, FALSE)
  OBVIOUS
<1>1. ~SettledIn(p, task)  BY NotSettled
<1>2. Edit(p)[1] = task /\ Edit(p)[2] = Mark(p)  BY DEF Edit, Mark
<1> QED  BY <1>1, <1>2 DEF Clean

SameTasks(r, q) ==
    /\ r.completed = q.completed /\ r.pending_repair = q.pending_repair
    /\ r.handled_rejections = q.handled_rejections /\ r.handled_changes = q.handled_changes

LEMMA CleanWork ==
    ASSUME TypeOK, PlaceInv, pc # "idle", Clean(p) PROVE
        \A q \in Progress :
            /\ SameTasks(q, p) /\ q.unfinished \subseteq p.unfinished \cup {Edit(p)}
            /\ Edit(p) \in q.unfinished => needs_undo(q, task, FALSE)
            => Clean(q)
<1> SUFFICES ASSUME NEW q \in Progress, SameTasks(q, p), q.unfinished \subseteq p.unfinished \cup {Edit(p)},
                    Edit(p) \in q.unfinished => needs_undo(q, task, FALSE), NEW e \in q.unfinished
             PROVE  /\ e[2] <= Mark(q)
                    /\ e[2] = Mark(q) => SettledIn(q, e[1]) \/ (e[1] = NextTask(q) /\ needs_undo(q, e[1], FALSE))
  BY DEF Clean
<1>1. /\ Mark(q) = Mark(p) /\ Mark(p) \in Nat /\ NextTask(q) = NextTask(p)
      /\ \A t : SettledIn(q, t) <=> SettledIn(p, t)
  BY DEF SameTasks, Mark, NextTask, SettledIn, TypeOK, Progress
<1>2. task = NextTask(p)  BY WalksNext
<1>3. Edit(p) = <<task, Mark(p)>>  BY DEF Edit, Mark
<1>4. CASE e = Edit(p)
  <2>1. e[1] = task /\ e[2] = Mark(p)  BY <1>3, <1>4
  <2>2. e[2] <= Mark(q)  BY <1>1, <2>1
  <2>3. e[1] = NextTask(q)  BY <1>1, <1>2, <2>1
  <2>4. needs_undo(q, task, FALSE)  BY <1>4
  <2>5. needs_undo(q, e[1], FALSE)  BY <2>1, <2>4
  <2> QED  BY <2>2, <2>3, <2>5
<1>5. CASE e # Edit(p)
  <2>1. e \in p.unfinished /\ e = <<e[1], e[2]>>  BY <1>5 DEF TypeOK, Progress, Edits
  <2>2. e[2] = Mark(p) => e[1] # task  BY <1>3, <1>5, <2>1
  <2> QED  BY <1>1, <1>2, <2>1, <2>2 DEF Clean
<1> QED  BY <1>4, <1>5

\* A task is pushed on the completed ones, or the repair is taken off: the walk's task is settled.
LEMMA CleanSettle ==
    ASSUME TypeOK, PlaceInv, pc # "idle", Clean(p) PROVE
        \A q \in Progress :
            /\ q.unfinished \subseteq p.unfinished /\ Mark(q) = Mark(p)
            /\ \A t : SettledIn(p, t) \/ t = task => SettledIn(q, t)
            => Clean(q)
  BY WalksNext DEF Clean

LEMMA CleanPush ==
    ASSUME TypeOK, PlaceInv, pc # "idle", Clean(p), planned PROVE
        \A q \in Progress, how \in {"skipped", "flow", "accepted"} :
            SameTasks(q, Push(p, how)) /\ q.unfinished = p.unfinished => Clean(q)
<1> SUFFICES ASSUME NEW q \in Progress, NEW how \in {"skipped", "flow", "accepted"},
                    SameTasks(q, Push(p, how)), q.unfinished = p.unfinished
             PROVE Clean(q)
  OBVIOUS
<1>1. at = Len(p.completed) + 1 /\ InOrder(p) /\ at \in Nat
  BY Plan DEF PlaceInv, Position, planned, TypeOK, Progress
<1>2. /\ Push(p, how).pending_repair = p.pending_repair
      /\ Push(p, how).handled_rejections = p.handled_rejections
      /\ Push(p, how).handled_changes = p.handled_changes
  BY <1>1, PushPlace
<1>3. q.completed = Append(p.completed, [task |-> task, how |-> how])
  BY DEF SameTasks, Push, TypeOK, Progress
<1> DEFINE e == [task |-> task, how |-> how]
<1>4. e.task = task /\ e \in Entries  BY TaskType DEF Entries
<1> HIDE DEF e
<1>5. p.completed \in Seq(Entries) /\ q.completed = Append(p.completed, e)  BY <1>3 DEF TypeOK, Progress, e
<1>6. /\ Len(q.completed) = Len(p.completed) + 1 /\ q.completed[Len(p.completed) + 1] = e
      /\ \A i \in 1 .. Len(p.completed) : q.completed[i] = p.completed[i]
  BY <1>4, <1>5
<1>7. Len(p.completed) \in Nat  BY <1>5
<1>8. \A t : SettledIn(p, t) \/ t = task => SettledIn(q, t)
  BY <1>2, <1>4, <1>6, <1>7, SMTT(30) DEF SettledIn, SameTasks
<1>9. Mark(q) = Mark(p)  BY <1>2 DEF Mark, SameTasks
<1> QED  BY <1>8, <1>9, CleanSettle

LEMMA CleanAbsorb ==
    ASSUME TypeOK PROVE
        \A q \in Progress : Fits(q, feedback) /\ Clean(q) => Clean(absorb(q))
<1> SUFFICES ASSUME NEW q \in Progress, Fits(q, feedback), Clean(q) PROVE Clean(absorb(q))  OBVIOUS
<1> DEFINE r == reopen_after_rejection(q)
<1>1. /\ absorb(q).handled_rejections = Len(feedback.rejections)
      /\ absorb(q).handled_changes = feedback.changes
  BY AbsorbPlace
<1>2. /\ Len(feedback.rejections) \in Nat /\ feedback.changes \in Nat
      /\ q.handled_rejections \in Nat /\ q.handled_changes \in Nat
      /\ q.handled_rejections <= Len(feedback.rejections) /\ q.handled_changes <= feedback.changes
  BY DEF TypeOK, Progress, Fits
<1>3. CASE q.handled_rejections = Len(feedback.rejections) /\ q.handled_changes = feedback.changes
  BY <1>2, <1>3 DEF absorb, reopen_after_rejection, queue_user_changes
<1>4. CASE ~(q.handled_rejections = Len(feedback.rejections) /\ q.handled_changes = feedback.changes)
  <2>1. Mark(q) < Mark(absorb(q)) /\ Mark(q) \in Nat /\ Mark(absorb(q)) \in Nat
    BY <1>1, <1>2, <1>4 DEF Mark
  <2>2. r \in Progress /\ r.unfinished = q.unfinished
    BY ReopenType DEF reopen_after_rejection, Progress
  <2> HIDE DEF r
  <2>3. absorb(q).unfinished = r.unfinished  BY <2>2 DEF absorb, queue_user_changes, Progress, r
  <2>4. \A e \in q.unfinished : e[2] <= Mark(q) /\ e[2] \in Nat  BY DEF Clean, Progress, Edits
  <2>5. ASSUME NEW e \in absorb(q).unfinished PROVE e[2] <= Mark(absorb(q)) /\ e[2] # Mark(absorb(q))
    <3>1. e[2] <= Mark(q) /\ e[2] \in Nat  BY <2>2, <2>3, <2>4
    <3> QED  BY <2>1, <3>1
  <2> QED  BY <2>5 DEF Clean
<1> QED  BY <1>3, <1>4

LEMMA CleanSaves ==
    ASSUME CleanInv, TypeOK PROVE
        \A q, n, a, j :
            /\ Checkpoint(q, n, a, j)
            /\ faults = 0 => Clean(q) /\ (Tidy(n, j.last) => <<TaskAt(a), Mark(q)>> \notin q.unfinished)
            => CleanInv'
<1> SUFFICES ASSUME NEW q, NEW n, NEW a, NEW j, Checkpoint(q, n, a, j), faults' = 0,
                    faults = 0 => Clean(q) /\ (Tidy(n, j.last) => <<TaskAt(a), Mark(q)>> \notin q.unfinished)
             PROVE  /\ Clean(p)' /\ (saved # None => Clean(saved))'
                    /\ Tidy(pc', job'.last) => Edit(p)' \notin p'.unfinished
  BY DEF CleanInv
<1>1. p' = q /\ saved' = q /\ pc' = n /\ at' = a /\ job' = j /\ faults = 0
  BY CheckpointCases DEF TypeOK
<1>2. Edit(p)' = <<TaskAt(a), Mark(q)>>  BY <1>1 DEF Edit, task, TaskAt, Mark
<1> QED  BY <1>1, <1>2 DEF Clean

LEMMA CleanStops ==
    ASSUME CleanInv, TypeOK, Stops, saved' \in {saved, None}, faults' \in {faults, faults + 1} PROVE CleanInv'
<1> SUFFICES ASSUME faults' = 0
             PROVE  /\ Clean(p)' /\ (saved # None => Clean(saved))'
                    /\ Tidy(pc', job'.last) => Edit(p)' \notin p'.unfinished
  BY DEF CleanInv
<1>1. faults = 0 /\ p' = NewProgress /\ pc' = "idle"  BY DEF TypeOK, Stops, Goto
<1>2. Clean(p)'  BY <1>1 DEF Clean, NewProgress
<1>3. (saved # None => Clean(saved))'  BY <1>1 DEF CleanInv, Clean
<1> QED  BY <1>1, <1>2, <1>3 DEF Tidy

LEMMA CleanWorkSaves ==
    ASSUME TypeOK, PlaceInv, CleanInv, pc # "idle" PROVE
        \A q \in Progress : \A n, j :
            /\ Checkpoint(q, n, at, j)
            /\ SameTasks(q, p) /\ q.unfinished \subseteq p.unfinished \cup {Edit(p)}
            /\ faults = 0 /\ Edit(p) \in q.unfinished => needs_undo(q, task, FALSE) /\ ~Tidy(n, j.last)
            => CleanInv'
<1> SUFFICES ASSUME NEW q \in Progress, NEW n, NEW j, Checkpoint(q, n, at, j), SameTasks(q, p),
                    q.unfinished \subseteq p.unfinished \cup {Edit(p)},
                    faults = 0 /\ Edit(p) \in q.unfinished => needs_undo(q, task, FALSE) /\ ~Tidy(n, j.last)
             PROVE CleanInv'
  OBVIOUS
<1>1. <<TaskAt(at), Mark(q)>> = Edit(p)  BY TaskType DEF Edit, Mark, SameTasks
<1>2. faults = 0 => Clean(q)
  <2> SUFFICES ASSUME faults = 0 PROVE Clean(q)  OBVIOUS
  <2>1. Clean(p)  BY DEF CleanInv
  <2>2. Edit(p) \in q.unfinished => needs_undo(q, task, FALSE)  OBVIOUS
  <2> QED  BY <2>1, <2>2, CleanWork
<1>3. faults = 0 => (Tidy(n, j.last) => <<TaskAt(at), Mark(q)>> \notin q.unfinished)  BY <1>1
<1> QED  BY <1>2, <1>3, CleanSaves

LEMMA CleanRecordBuild ==
    ASSUME TypeOK, PlaceInv, CleanInv, pc # "idle" PROVE
        \A s \in {"complete", "blocked_environment", "unfinished", "blocked"}, c \in BOOLEAN :
            record_build(p, s, c) => CleanInv'
<1> SUFFICES ASSUME NEW s \in {"complete", "blocked_environment", "unfinished", "blocked"},
                    NEW c \in BOOLEAN, record_build(p, s, c)
             PROVE CleanInv'
  OBVIOUS
<1> DEFINE noted == [p EXCEPT !.current = Current(s, FALSE),
                              !.unfinished = IF s \in builder_done THEN @ \ {Edit(p)}
                                             ELSE IF c THEN @ \cup {Edit(p)} ELSE @]
<1>1. p \in Progress /\ Edit(p) \in Edits /\ Current(s, FALSE) \in Attempts
  BY EditType, CurrentType DEF TypeOK
<1>2. /\ noted \in Progress /\ SameTasks(noted, p) /\ noted.current = Current(s, FALSE)
      /\ noted.unfinished \subseteq p.unfinished \cup {Edit(p)}
      /\ s \in builder_done => Edit(p) \notin noted.unfinished
  BY <1>1 DEF Progress, SameTasks
<1>3. \/ /\ s \notin builder_done
         /\ Checkpoint(noted, Again("Unfinished").next, at, Again("Unfinished").job)
      \/ s \in builder_done /\ Checkpoint(noted, "review", at, [job EXCEPT !.changed = c])
      \/ s \notin builder_done /\ Checkpoint(noted, "failed", at, NewJob)
  BY DEF record_build, builder_done
<1> HIDE DEF noted
<1>4. s \notin builder_done => needs_undo(noted, task, FALSE)
  <2> SUFFICES ASSUME s \notin builder_done PROVE needs_undo(noted, task, FALSE)  OBVIOUS
  <2>1. Current(s, FALSE) # None /\ s # "complete"  BY <1>1, QueueAssumption DEF builder_done
  <2>2. /\ noted.current # None /\ noted.current.task = task /\ noted.current.status # "complete"
        /\ ~noted.current.undone /\ ~noted.current.kept
    BY <1>2, <2>1 DEF Current
  <2> QED  BY <2>2 DEF needs_undo, Of
<1>5. ~Tidy(Again("Unfinished").next, Again("Unfinished").job.last)
  BY Plan DEF Again, Tidy, TypeOK, Jobs
<1>6. ~Tidy("failed", NewJob.last)  BY DEF Tidy
<1>7. CASE s \in builder_done /\ Checkpoint(noted, "review", at, [job EXCEPT !.changed = c])
  BY <1>2, <1>7, CleanWorkSaves
<1>8. CASE s \notin builder_done /\ Checkpoint(noted, Again("Unfinished").next, at, Again("Unfinished").job)
  BY <1>2, <1>4, <1>5, <1>8, CleanWorkSaves
<1>9. CASE s \notin builder_done /\ Checkpoint(noted, "failed", at, NewJob)
  BY <1>2, <1>4, <1>6, <1>9, CleanWorkSaves
<1> QED  BY <1>3, <1>7, <1>8, <1>9

LEMMA CleanStep == TypeOK /\ PlaceInv /\ CleanInv /\ [Next]_vars => CleanInv'
<1> SUFFICES ASSUME TypeOK, PlaceInv, CleanInv, [Next]_vars PROVE CleanInv'  OBVIOUS
<1>t. p \in Progress /\ saved \in Progress \cup {None} /\ faults \in Nat /\ p.unfinished \subseteq Edits
  BY DEF TypeOK, Progress
<1>c. faults = 0 => Clean(p)  BY DEF CleanInv
<1>d. /\ faults = 0 /\ Tidy(pc, job.last) => Edit(p) \notin p.unfinished
      /\ SameTasks(p, p) /\ p.unfinished \subseteq p.unfinished \cup {Edit(p)}
  BY DEF CleanInv, SameTasks
<1>y. /\ \A last : Tidy("plan", last) /\ Tidy("review", last) /\ Tidy("undone", last)
      /\ \A last : ~Tidy("build", last) /\ ~Tidy("built", last) /\ ~Tidy("failed", last) /\ ~Tidy("walk", last)
                  /\ ~Tidy("settled", last) /\ ~Tidy("retry", last) /\ ~Tidy("finished", last)
  BY DEF Tidy
<1>1. CASE StartQueue
  <2>1. read_progress \in Progress  BY <1>t, Plan DEF read_progress
  <2>2. Fits(read_progress, feedback)
    <3>1. CASE saved = None
      BY <3>1, Plan DEF read_progress, NewProgress, Fits, InOrder, TypeOK
    <3> QED  BY <3>1 DEF PlaceInv, read_progress
  <2>3. faults = 0 => Clean(read_progress)  BY DEF read_progress, CleanInv, Clean, NewProgress
  <2>4. faults = 0 => Clean(absorb(read_progress))  BY <2>1, <2>2, <2>3, CleanAbsorb
  <2>5. Checkpoint(absorb(read_progress), "walk", Len(absorb(read_progress).completed) + 1, NewJob)
    BY <1>1 DEF StartQueue
  <2> QED  BY <2>4, <2>5, <1>y, CleanSaves
<1>2. CASE skip_if_blocked
  <2> DEFINE q == Push(p, "skipped")
  <2>1. pc # "idle" /\ planned /\ Checkpoint(q, "walk", at + 1, NewJob)  BY <1>2 DEF skip_if_blocked
  <2>2. q \in Progress  BY <2>1, PushType, <1>t
  <2>3. q.unfinished = p.unfinished /\ SameTasks(q, Push(p, "skipped"))  BY <1>t DEF Push, Progress, SameTasks
  <2>4. faults = 0 => Clean(q)  BY <2>1, <2>2, <2>3, <1>c, CleanPush
  <2> QED  BY <2>1, <2>4, <1>y, CleanSaves
<1>3. CASE run_task_flow
  <2>1. PICK t \in Edited(p) :
          \/ Checkpoint([Push(p, "flow") EXCEPT !.current = None, !.accepted = t], "walk", at + 1, NewJob)
          \/ Goto("failed", at, NewJob) /\ UNCHANGED <<p, saved, faults>>
    BY <1>3 DEF run_task_flow
  <2>2. planned /\ pc # "idle"  BY <1>3, QueueAssumption DEF run_task_flow, task, planned, Taken
  <2> DEFINE q == [Push(p, "flow") EXCEPT !.current = None, !.accepted = t]
  <2>3. Push(p, "flow") \in Progress /\ Push(p, "flow").unfinished = p.unfinished
    BY <2>2, <1>t, PushType DEF Push, Progress
  <2>4. q \in Progress /\ SameTasks(q, Push(p, "flow")) /\ q.unfinished = p.unfinished
    BY <2>3, EditedType DEF Progress, SameTasks
  <2> HIDE DEF q
  <2>5. faults = 0 => Clean(q)  BY <2>2, <2>4, <1>c, CleanPush
  <2>6. CASE Checkpoint(q, "walk", at + 1, NewJob)  BY <2>5, <2>6, <1>y, CleanSaves
  <2>7. CASE Goto("failed", at, NewJob) /\ UNCHANGED <<p, saved, faults>>
    BY <2>7, <1>y DEF CleanInv, Goto
  <2> QED  BY <2>1, <2>6, <2>7 DEF q
<1>4. CASE StartTask
  <2> DEFINE q == baseline(p)
             r == start_from_the_baseline(q, job.guidance)
  <2>1. q \in Progress  BY <1>t, BaselineType
  <2>2. r \in Progress  BY <2>1, UndoType DEF start_from_the_baseline
  <2>3. Of(q.baseline, task) /\ SameTasks(q, p) /\ q.unfinished = p.unfinished /\ q.current = p.current
    <3>1. [task |-> task, tree |-> tree] \in Baselines  BY TaskType DEF Baselines, TypeOK
    <3>2. [task |-> task, tree |-> tree] # None  BY <3>1, QueueAssumption
    <3> QED  BY <1>t, <3>2 DEF baseline, Of, SameTasks, Progress
  <2>4. /\ Checkpoint(r, "plan", at, [NewJob EXCEPT !.guidance = job.guidance])
        /\ Taken /\ pc # "idle"
    BY <1>4 DEF StartTask, Taken
  <2> HIDE DEF q
  <2>5. SameTasks(r, q) /\ r.unfinished \subseteq q.unfinished
    BY <2>1 DEF start_from_the_baseline, undo_attempt, Progress, SameTasks
  <2>6. Edit(q) = Edit(p)  BY <2>3 DEF Edit, SameTasks
  <2>7. faults = 0 => Edit(p) \notin r.unfinished
    <3>1. CASE needs_undo(q, task, job.guidance)
      BY <2>1, <2>3, <2>6, <3>1 DEF start_from_the_baseline, undo_attempt, Progress
    <3>2. CASE ~needs_undo(q, task, job.guidance)
      <4>1. r = q  BY <3>2 DEF start_from_the_baseline
      <4>2. ~needs_undo(p, task, FALSE)  BY <2>3, <3>2 DEF needs_undo, Of
      <4>3. faults = 0 => Edit(p) \notin p.unfinished  BY <4>2, <2>4, <1>c, DirtyNow
      <4> QED  BY <4>1, <4>3, <2>3
    <3> QED  BY <3>1, <3>2
  <2> HIDE DEF r
  <2>8. SameTasks(r, p) /\ r.unfinished \subseteq p.unfinished \cup {Edit(p)}
    BY <2>3, <2>5 DEF SameTasks
  <2> QED  BY <2>2, <2>4, <2>7, <2>8, CleanWorkSaves
<1>5. CASE plan_task
  <2> DEFINE q == [p EXCEPT !.step_plan = task]
             r == record_split(p)
  <2>1. /\ q \in Progress /\ SameTasks(q, p) /\ q.unfinished = p.unfinished
        /\ r \in Progress /\ SameTasks(r, p) /\ r.unfinished = p.unfinished
    BY <1>t, TaskType DEF Progress, record_split, Splits, SameTasks
  <2>2. /\ pc = "plan"
        /\ \/ Goto("build", at, NewJob) /\ UNCHANGED <<p, saved, faults>>
           \/ Checkpoint(q, "build", at, NewJob)
           \/ Checkpoint(r, "build", at, NewJob)
           \/ Goto("failed", at, NewJob) /\ UNCHANGED <<p, saved, faults>>
    BY <1>5 DEF plan_task
  <2> HIDE DEF q, r
  <2>3. faults = 0 => Edit(p) \notin p.unfinished  BY <2>2, <1>d, <1>y
  <2>4. CASE Checkpoint(q, "build", at, NewJob)  BY <2>1, <2>2, <2>3, <2>4, CleanWorkSaves
  <2>5. CASE Checkpoint(r, "build", at, NewJob)  BY <2>1, <2>2, <2>3, <2>5, CleanWorkSaves
  <2>6. CASE (Goto("build", at, NewJob) \/ Goto("failed", at, NewJob)) /\ UNCHANGED <<p, saved, faults>>
    BY <2>6, <1>y DEF CleanInv, Goto
  <2> QED  BY <2>2, <2>4, <2>5, <2>6
<1>6. CASE BuildStopped
  <2> SUFFICES ASSUME faults' = 0 PROVE CleanInv'  BY DEF CleanInv
  <2> DEFINE q == [p EXCEPT !.current = Current("none", TRUE), !.unfinished = @ \cup {Edit(p)}]
  <2>1. p' = q /\ pc # "idle" /\ pc' = "round" /\ job'.last = "Stopped" /\ UNCHANGED <<saved, faults>>
    BY <1>6 DEF BuildStopped, Goto, NewJob
  <2>2. Edit(p) \in Edits /\ Current("none", TRUE) \in Attempts  BY <1>t, EditType, CurrentType
  <2>3. /\ q \in Progress /\ SameTasks(q, p) /\ q.unfinished = p.unfinished \cup {Edit(p)}
        /\ q.current = Current("none", TRUE)
    BY <1>t, <2>2 DEF Progress, SameTasks
  <2> HIDE DEF q
  <2>4. needs_undo(q, task, FALSE)
    <3>1. Current("none", TRUE) # None  BY <2>2, QueueAssumption
    <3>2. /\ q.current # None /\ q.current.task = task /\ q.current.stopped
          /\ ~q.current.undone /\ ~q.current.kept
      BY <2>3, <3>1 DEF Current
    <3> QED  BY <3>2 DEF needs_undo, Of
  <2>5. Clean(q)  BY <2>1, <2>3, <2>4, <1>c, CleanWork
  <2>6. Clean(p') /\ (saved' # None => Clean(saved'))  BY <2>1, <2>5 DEF CleanInv
  <2>7. ~Tidy(pc', job'.last)  BY <2>1 DEF Tidy
  <2> QED  BY <2>6, <2>7 DEF CleanInv
<1>7. CASE build_task
  <2>1. PICK changed \in BOOLEAN, status \in {"complete", "blocked_environment", "unfinished", "blocked"} :
        \E t \in (IF changed THEN Edited(p) ELSE {tree}) :
          /\ tree' = t
          /\ IF pending_split(p, task) /\ status \in builder_done
             THEN Checkpoint(finish_step(p, t), IF pending_split(finish_step(p, t), task) THEN "build" ELSE "built",
                             at, [job EXCEPT !.changed = job.changed \/ changed])
             ELSE record_build(p, status, job.changed \/ changed)
    BY <1>7 DEF build_task
  <2>2. PICK t \in (IF changed THEN Edited(p) ELSE {tree}) :
          \/ /\ pending_split(p, task)
             /\ Checkpoint(finish_step(p, t), IF pending_split(finish_step(p, t), task) THEN "build" ELSE "built",
                           at, [job EXCEPT !.changed = job.changed \/ changed])
          \/ record_build(p, status, job.changed \/ changed)
    BY <2>1
  <2>3. t \subseteq Edits  BY EditedType DEF TypeOK
  <2>4. pc # "idle" /\ pc \in Busy  BY <1>7 DEF build_task, Busy
  <2>5. CASE record_build(p, status, job.changed \/ changed)
    <3>1. (job.changed \/ changed) \in BOOLEAN  OBVIOUS
    <3> QED  BY <2>4, <2>5, <3>1, CleanRecordBuild
  <2>6. CASE /\ pending_split(p, task)
             /\ Checkpoint(finish_step(p, t), IF pending_split(finish_step(p, t), task) THEN "build" ELSE "built",
                           at, [job EXCEPT !.changed = job.changed \/ changed])
    <3> DEFINE q == finish_step(p, t)
               j == [job EXCEPT !.changed = job.changed \/ changed]
               n == IF pending_split(q, task) THEN "build" ELSE "built"
    <3>1. q \in Progress  BY <2>3, <2>6, FinishStepType
    <3>2. SameTasks(q, p) /\ q.unfinished = p.unfinished /\ q.current = p.current
      BY <1>t DEF finish_step, SameTasks, Progress
    <3>3. Checkpoint(q, n, at, j)  BY <2>6
    <3>4. ~Tidy(n, j.last)  BY <1>y
    <3> HIDE DEF q, j, n
    <3>5. faults = 0 /\ Edit(p) \in q.unfinished => needs_undo(p, task, FALSE)
      BY <3>2, <2>4, <1>c, DirtyNow
    <3>6. needs_undo(p, task, FALSE) => needs_undo(q, task, FALSE)  BY <3>2 DEF needs_undo
    <3> QED  BY <3>1, <3>2, <3>3, <3>4, <3>5, <3>6, <2>4, CleanWorkSaves
  <2> QED  BY <2>2, <2>5, <2>6
<1>8. CASE AllStepsBuilt
  <2>1. job.changed \in BOOLEAN  BY DEF TypeOK, Jobs
  <2> QED  BY <1>8, <2>1, CleanRecordBuild DEF AllStepsBuilt
<1>r. pc = "review" /\ faults = 0 => Edit(p) \notin p.unfinished  BY <1>d, <1>y
<1>9. CASE check_after_build  BY <1>9, <1>t, <1>d, <1>r, CleanWorkSaves DEF check_after_build
<1>10. CASE review_accepts
  <2> DEFINE q == record_acceptance(p)
  <2>1. pc = "review" /\ Checkpoint(q, Onward, at + 1, NewJob)  BY <1>10 DEF review_accepts
  <2>2. faults = 0 => Clean(q)
    <3>1. CASE planned
      <4>1. Push(p, "accepted") \in Progress /\ Push(p, "accepted").unfinished = p.unfinished
        BY <3>1, PushType, <1>t DEF Push, Progress
      <4>2. q \in Progress /\ SameTasks(q, Push(p, "accepted")) /\ q.unfinished = p.unfinished
        BY <3>1, <4>1 DEF record_acceptance, Accepted, Progress, SameTasks, TypeOK
      <4> HIDE DEF q
      <4> QED  BY <2>1, <3>1, <4>2, <1>c, CleanPush
    <3>2. CASE ~planned
      <4>1. q \in Progress /\ SameTasks(q, p) /\ q.unfinished = p.unfinished
        BY <3>2, <1>t DEF record_acceptance, Accepted, Progress, SameTasks, TypeOK
      <4> HIDE DEF q
      <4> QED  BY <2>1, <4>1, <1>c, <1>r, CleanWork
    <3> QED  BY <3>1, <3>2
  <2>3. \A last : ~Tidy(Onward, last)  BY <1>y DEF Onward
  <2> QED  BY <2>1, <2>2, <2>3, CleanSaves
<1>11. CASE review_rejects  BY <1>11, <1>t, <1>d, <1>r, CleanWorkSaves DEF review_rejects
<1>12. CASE review_unfinished  BY <1>12, <1>t, <1>d, <1>r, CleanWorkSaves DEF review_unfinished
<1>13. CASE keep_the_work
  <2> DEFINE q == [p EXCEPT !.current.kept = TRUE]
  <2>1. q \in Progress  BY <1>13, KeptType DEF keep_the_work
  <2>2. SameTasks(q, p) /\ q.unfinished = p.unfinished  BY <1>t DEF SameTasks, Progress
  <2> HIDE DEF q
  <2>3. pc = "round" /\ Tidy(pc, job.last) /\ Checkpoint(q, "failed", at, NewJob)
    BY <1>13 DEF keep_the_work, q, Tidy
  <2> QED  BY <2>1, <2>2, <2>3, <1>d, CleanWorkSaves
<1>14. CASE undo_and_checkpoint
  <2> DEFINE q == undo_attempt(p)
  <2>1. pc = "round" /\ Checkpoint(q, "undone", at, NewJob)  BY <1>14 DEF undo_and_checkpoint
  <2>2. Of(p.baseline, task)  BY <2>1, TaskType DEF PlaceInv, Position, Working
  <2>3. q \in Progress  BY <1>t, UndoType
  <2>4. SameTasks(q, p) /\ q.unfinished = p.unfinished \ {Edit(p)}
    BY <1>t, <2>2 DEF SameTasks, Progress, undo_attempt
  <2> HIDE DEF q
  <2> QED  BY <2>1, <2>3, <2>4, CleanWorkSaves
<1>15. CASE try_split
  <2> DEFINE q == record_split(p)
  <2>1. q \in Progress /\ SameTasks(q, p) /\ q.unfinished = p.unfinished
    BY <1>t, TaskType DEF Progress, record_split, Splits, SameTasks
  <2> HIDE DEF q
  <2>2. /\ pc = "undone"
        /\ Checkpoint(q, "build", at, NewJob) \/ (Goto("failed", at, NewJob) /\ UNCHANGED <<p, saved, faults>>)
    BY <1>15 DEF try_split, q
  <2>3. faults = 0 => Edit(p) \notin p.unfinished  BY <2>2, <1>d, <1>y
  <2>4. CASE Checkpoint(q, "build", at, NewJob)  BY <2>1, <2>2, <2>3, <2>4, CleanWorkSaves
  <2>5. CASE Goto("failed", at, NewJob) /\ UNCHANGED <<p, saved, faults>>
    BY <2>5, <1>y DEF CleanInv, Goto
  <2> QED  BY <2>2, <2>4, <2>5
<1>e. \A q \in Progress :
        /\ pc # "idle" /\ ~planned /\ q.completed = p.completed /\ q.pending_repair = {}
        /\ q.handled_rejections = p.handled_rejections /\ q.handled_changes = p.handled_changes
        /\ q.unfinished = p.unfinished /\ Clean(p)
        => Clean(q)
  <2> SUFFICES ASSUME NEW q \in Progress, pc # "idle", ~planned, q.completed = p.completed, q.pending_repair = {},
                      q.handled_rejections = p.handled_rejections, q.handled_changes = p.handled_changes,
                      q.unfinished = p.unfinished, Clean(p)
               PROVE Clean(q)
    OBVIOUS
  <2>1. task = Repair  BY DEF task, planned
  <2>2. \A t : SettledIn(p, t) \/ t = task => SettledIn(q, t)  BY <2>1 DEF SettledIn
  <2>3. Mark(q) = Mark(p)  BY DEF Mark
  <2> QED  BY <2>2, <2>3, CleanSettle
<1>16. CASE RepairSettled
  <2> DEFINE q == [p EXCEPT !.pending_repair = {}]
  <2>1. /\ q \in Progress /\ q.completed = p.completed /\ q.unfinished = p.unfinished /\ q.pending_repair = {}
        /\ q.handled_rejections = p.handled_rejections /\ q.handled_changes = p.handled_changes
    BY <1>t DEF Progress
  <2> HIDE DEF q
  <2>2. pc = "settled" /\ Checkpoint(q, "walk", at, NewJob)  BY <1>16 DEF RepairSettled, q
  <2>3. ~planned  BY <2>2, Plan DEF PlaceInv, Position, planned, TypeOK
  <2>4. faults = 0 => Clean(q)  BY <2>1, <2>2, <2>3, <1>c, <1>e
  <2> QED  BY <2>2, <2>4, <1>y, CleanSaves
<1>17. CASE Finish \/ Retry
  <2>1. UNCHANGED <<p, saved, faults>> /\ pc' \in {"finished", "retry"}  BY <1>17 DEF Finish, Retry, Goto
  <2> QED  BY <2>1, <1>y DEF CleanInv
<1>19. CASE skip
  <2> DEFINE q == [Skipped(p) EXCEPT !.current = None, !.step_plan = None]
  <2>1. pc # "idle" /\ Checkpoint(q, Onward, at + 1, NewJob)  BY <1>19 DEF skip
  <2>2. faults = 0 => Clean(q)
    <3>1. CASE planned
      <4>1. Push(p, "skipped") \in Progress /\ Push(p, "skipped").unfinished = p.unfinished
        BY <3>1, PushType, <1>t DEF Push, Progress
      <4>2. q \in Progress /\ SameTasks(q, Push(p, "skipped")) /\ q.unfinished = p.unfinished
        BY <3>1, <4>1 DEF Skipped, Progress, SameTasks
      <4> HIDE DEF q
      <4> QED  BY <2>1, <3>1, <4>2, <1>c, CleanPush
    <3>2. CASE ~planned
      <4>1. /\ q \in Progress /\ q.completed = p.completed /\ q.unfinished = p.unfinished /\ q.pending_repair = {}
            /\ q.handled_rejections = p.handled_rejections /\ q.handled_changes = p.handled_changes
        BY <3>2, <1>t DEF Skipped, Progress
      <4> HIDE DEF q
      <4> QED  BY <2>1, <3>2, <4>1, <1>c, <1>e
    <3> QED  BY <3>1, <3>2
  <2>3. \A last : ~Tidy(Onward, last)  BY <1>y DEF Onward
  <2> QED  BY <2>1, <2>2, <2>3, CleanSaves
<1>20. CASE StopHere \/ RevisePlan \/ Interrupted \/ Rejected \/ ChangesRequested
  <2>1. Stops /\ saved' \in {saved, None} /\ faults' \in {faults, faults + 1}
    BY <1>20 DEF StopHere, RevisePlan, Interrupted, Rejected, ChangesRequested, Told
  <2> QED  BY <2>1, CleanStops
<1>25. CASE UNCHANGED vars
  <2>1. UNCHANGED <<p, saved, faults, pc, job>> /\ Edit(p)' = Edit(p)  BY <1>25 DEF vars, Edit, task
  <2> QED  BY <2>1 DEF CleanInv
<1> QED
  BY <1>1, <1>2, <1>3, <1>4, <1>5, <1>6, <1>7, <1>8, <1>9, <1>10, <1>11, <1>12, <1>13, <1>14, <1>15,
     <1>16, <1>17, <1>19, <1>20, <1>25 DEF Next, QueueStep

(***************************************************************************)
(* needs_undo finds every attempt that did not finish: as long as nothing  *)
(* interrupts the queue between two checkpoints, a try starts without the  *)
(* edits of an unfinished one, also after the user stopped the step and it *)
(* was resumed, and after a rejection reopened the task.                   *)
(***************************************************************************)
THEOREM TriesAreClean == Spec => []TriesStartClean
<1>1. Init => TypeOK /\ PlaceInv /\ CleanInv
  BY Plan DEF Init, TypeOK, Places, PlaceInv, CleanInv, Clean, NewProgress, Tidy
<1>2. TypeOK /\ PlaceInv /\ CleanInv /\ [Next]_vars => (TypeOK /\ PlaceInv /\ CleanInv)'
  BY TypeStep, PlaceStep, CleanStep
<1>3. CleanInv => TriesStartClean
  BY DEF CleanInv, Tidy, TriesStartClean
<1> QED  BY <1>1, <1>2, <1>3, PTL DEF Spec
=============================================================================

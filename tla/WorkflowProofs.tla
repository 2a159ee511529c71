--------------------------- MODULE WorkflowProofs ---------------------------
(***************************************************************************)
(* Proofs about the workflow reducer and the loop that drives it.  What    *)
(* holds of a run state is said of an arbitrary state r, because it has to *)
(* hold of two: the one the loop holds, and the one in the store, which is *)
(* what a restart goes on from.                                            *)
(***************************************************************************)
EXTENDS WorkflowRunner, FiniteSetTheorems, TLAPS

Closing == Terminal \cup {"Cancelling"}

\* The steps the run goes on with.
FrontStatus == ActiveStatus \cup {"Ready", "RetryScheduled"}
Front(r) == {n \in Nodes : r.steps[n].status \in FrontStatus}

\* settle has been applied.
Settled(r) ==
    IF ActiveSteps(r) # {} THEN r.status \in ActiveStatus
    ELSE r.status = IF r.paused THEN "Paused" ELSE "Ready"

\* A run that goes on has exactly one step to go on with; one that is over
\* or being cancelled has no attempt in flight, and one that failed at a
\* step has nothing left that could begin.
FrontInv(r) ==
    /\ r.failed_step # None => r.status = "Failed" /\ Front(r) = {}
    /\ r.status = "Created" => Front(r) = {}
    /\ r.status \in Closing => ActiveSteps(r) = {}
    /\ r.status \notin Closing \cup {"Created"} =>
        (\E f \in Nodes : Front(r) = {f}) /\ Settled(r)

\* The pending flags say what the status of the step says.
FlagInv(r) ==
    \A n \in Nodes :
        /\ r.steps[n].pending_permission <=> r.steps[n].status = "WaitingForPermission"
        /\ r.steps[n].pending_input <=> r.steps[n].status = "WaitingForInput"

\* The agent attempts whose end the loop has not applied.
AgentKinds == {"Agent", "Subflow"}
Open == {n \in Nodes : kind[n] \in AgentKinds /\ started[n] # reported[n]}

\* An agent attempt whose end is unknown is in flight, or the run is over in
\* a way that the user cannot retry.
OpenInv(r, open) ==
    \A n \in open : n \in ActiveSteps(r) \/ (r.status \in Closing /\ r.failed_step = None)

RunInv(r) == FrontInv(r) /\ FlagInv(r) /\ OpenInv(r, Open)

\* The store is never ahead of the loop, nor behind what was dispatched.
RecordInv ==
    /\ \A n \in Nodes : started[n] <= run.steps[n].attempts
    /\ EveryAttemptIsOnRecord

StoreInv == store.snapshot # None => RunInv(store.snapshot) /\ store.snapshot.status # "Created"

\* What the loop holds of the attempt is what the reducer holds of it.
LoopInv ==
    /\ loop = "start" => run.status = "Created"
    /\ loop \in {"recover", "running"} => run.status \notin Terminal \cup {"Created"}
    /\ Live => ActiveSteps(run) = IF active = None THEN {} ELSE {active.node}
    /\ Live /\ active # None => active.attempt = run.steps[active.node].attempts
    /\ Running /\ active # None /\ kind[active.node] \in AgentKinds =>
        started[active.node] = reported[active.node] + 1

\* The signals not yet received: usage, and at most one question or
\* checkpoint, the last of them.
Quiet(s) == \A i \in DOMAIN s : s[i] = "usage"
Pends(s, x) == s # <<>> /\ s[Len(s)] = x /\ \A i \in 1..(Len(s) - 1) : s[i] = "usage"

\* The attempt waits for what the run says it waits for, and one that has
\* ended well left nothing unanswered.
Asked(a, r, s) ==
    LET step == r.steps[a.node]
        idle == Quiet(s) /\ step.status = "Running"
    IN  /\ \/ Quiet(s)
           \/ \E x \in {"permission", "input", "checkpoint"} : Pends(s, x) /\ step.status = "Running"
        /\ a.task = "work" => idle
        /\ a.task = "over" /\ a.result = "ok" /\ ~a.stalled => idle
        /\ a.task = "permission" => Pends(s, "permission") \/ step.status = "WaitingForPermission"
        /\ a.task = "asking" => Pends(s, "input") \/ step.status = "WaitingForInput"
        /\ a.task = "checkpoint" => Pends(s, "checkpoint")

AskInv == Live /\ active # None => Asked(active, run, signals)

WorkflowInv ==
    /\ TypeOK /\ RunInv(run) /\ StoreInv /\ RecordInv /\ LoopInv /\ AskInv

-----------------------------------------------------------------------------
(* The order of the steps, in definitions in which a step that sends work  *)
(* back sends it to a step on its own path (OnThePath)                     *)

\* The steps that have begun are before the one the run goes on with.
PathInv(r) ==
    /\ r.status = "Created" => \A m \in Nodes : r.steps[m].status = "Pending"
    /\ r.status \notin Closing => \A f \in Front(r) : \A m \in Nodes :
        r.steps[m].status # "Pending" => m = f \/ m \in ancestors[f]
    /\ r.failed_step # None => \A m \in Nodes :
        r.steps[m].status \notin {"Pending", "Skipped"} =>
            m = r.failed_step \/ m \in ancestors[r.failed_step]

\* What a step was given is what the steps before it have made last.
FreshInv(r) ==
    \A n \in Nodes :
        r.steps[n].status = "Succeeded" \/ (r.status \notin Closing /\ n \in ActiveSteps(r))
        => \A m \in ancestors[n] : r.steps[n].read[m] = r.steps[m].output

WellOrdered(r) == PathInv(r) /\ FreshInv(r)

OrderInv ==
    /\ WellOrdered(run) /\ NoDeadEnds
    /\ store.snapshot # None => WellOrdered(store.snapshot)

-----------------------------------------------------------------------------
(* What each command does, step by step and field by field *)

\* s is r except for the status and the flags of step n.
Marked(r, s, n, status, permission, input) ==
    /\ s \in Runs /\ s.failed_step = r.failed_step /\ s.paused = r.paused
    /\ \A m \in Nodes \ {n} : s.steps[m] = r.steps[m]
    /\ s.steps[n].status = status
    /\ s.steps[n].pending_permission = permission /\ s.steps[n].pending_input = input
    /\ s.steps[n].attempts = r.steps[n].attempts
    /\ s.steps[n].output = r.steps[n].output /\ s.steps[n].read = r.steps[n].read

\* The status of s is what settle makes of that of r.
SettledFrom(r, s) ==
    /\ r.status \in Closing => s.status = r.status
    /\ r.status \notin Closing => Settled(s)

\* What a step has made and was given, and how often it was tried.
SameWork(x, y) == x.attempts = y.attempts /\ x.output = y.output /\ x.read = y.read

\* settle changes the status of the run only.
LEMMA SettleFacts ==
    ASSUME NEW r \in Runs
    PROVE  /\ settle(r) \in Runs
           /\ settle(r).steps = r.steps /\ settle(r).failed_step = r.failed_step
           /\ settle(r).paused = r.paused
           /\ SettledFrom(r, settle(r))
  <1>1. CASE r.status \in Closing
    BY <1>1 DEF settle, Closing, SettledFrom
  <1>2. CASE r.status \notin Closing
    <2> DEFINE st == IF ActiveSteps(r) # {} THEN r.steps[CHOOSE n \in ActiveSteps(r) : TRUE].status
                     ELSE IF r.paused THEN "Paused" ELSE "Ready"
    <2>1. /\ st \in RunStatus
          /\ ActiveSteps(r) # {} => st \in ActiveStatus
      <3>1. CASE ActiveSteps(r) # {}
        <4>1. (CHOOSE n \in ActiveSteps(r) : TRUE) \in ActiveSteps(r)  BY <3>1
        <4> QED  BY <4>1, <3>1 DEF ActiveSteps, RunStatus
      <3> QED  BY <3>1 DEF RunStatus
    <2>2. settle(r) = [r EXCEPT !.status = st]
      BY <1>2 DEF settle, Closing
    <2> HIDE DEF st
    <2>3. /\ settle(r) \in Runs /\ settle(r).status = st
          /\ settle(r).steps = r.steps /\ settle(r).failed_step = r.failed_step
          /\ settle(r).paused = r.paused
      BY <2>1, <2>2 DEF Runs
    <2>4. ActiveSteps(settle(r)) = ActiveSteps(r)  BY <2>3 DEF ActiveSteps
    <2> QED  BY <1>2, <2>1, <2>3, <2>4 DEF Settled, st, SettledFrom
  <1> QED  BY <1>1, <1>2

\* One step is replaced.
LEMMA Put ==
    ASSUME NEW r \in Runs, NEW n \in Nodes, NEW x \in Steps
    PROVE  LET s == [r EXCEPT !.steps[n] = x]
           IN  /\ s \in Runs
               /\ s.status = r.status /\ s.paused = r.paused /\ s.failed_step = r.failed_step
               /\ s.steps[n] = x /\ \A m \in Nodes \ {n} : s.steps[m] = r.steps[m]
  BY DEF Runs

\* All steps are replaced.
LEMMA PutAll ==
    ASSUME NEW r \in Runs, NEW f \in [Nodes -> Steps]
    PROVE  LET s == [r EXCEPT !.steps = f]
           IN  /\ s \in Runs
               /\ s.status = r.status /\ s.paused = r.paused /\ s.failed_step = r.failed_step
               /\ s.steps = f
  BY DEF Runs

\* settle after one step was replaced.
LEMMA SettledPut ==
    ASSUME NEW r \in Runs, NEW n \in Nodes, NEW x \in Steps, SameWork(x, r.steps[n])
    PROVE  LET s == settle([r EXCEPT !.steps[n] = x])
           IN  /\ Marked(r, s, n, x.status, x.pending_permission, x.pending_input)
               /\ SettledFrom(r, s)
  <1> DEFINE t == [r EXCEPT !.steps[n] = x]
  <1>1. /\ t \in Runs
        /\ t.status = r.status /\ t.paused = r.paused /\ t.failed_step = r.failed_step
        /\ t.steps[n] = x /\ \A m \in Nodes \ {n} : t.steps[m] = r.steps[m]
    BY Put
  <1> HIDE DEF t
  <1>2. /\ settle(t) \in Runs /\ settle(t).steps = t.steps /\ settle(t).failed_step = t.failed_step
        /\ settle(t).paused = t.paused /\ SettledFrom(t, settle(t))
    BY <1>1, SettleFacts
  <1>3. Marked(r, settle(t), n, x.status, x.pending_permission, x.pending_input)
    BY <1>1, <1>2 DEF Marked, SameWork
  <1>4. SettledFrom(r, settle(t))
    BY <1>1, <1>2 DEF SettledFrom
  <1> QED  BY <1>3, <1>4 DEF t

\* A step becomes ready: the first one, the next one, one to be retried.
LEMMA ReadyFacts ==
    ASSUME NEW r \in Runs, NEW n \in Nodes
    PROVE  LET s == settle([r EXCEPT !.steps[n].status = "Ready"])
           IN  /\ Marked(r, s, n, "Ready", r.steps[n].pending_permission, r.steps[n].pending_input)
               /\ SettledFrom(r, s)
  <1> DEFINE x == [r.steps[n] EXCEPT !.status = "Ready"]
  <1>0. r.steps[n] \in Steps  BY DEF Runs
  <1>1. /\ x \in Steps /\ x.status = "Ready" /\ SameWork(x, r.steps[n])
        /\ x.pending_permission = r.steps[n].pending_permission
        /\ x.pending_input = r.steps[n].pending_input
    BY <1>0 DEF Steps, StepStatus, SameWork
  <1>2. [r EXCEPT !.steps[n].status = "Ready"] = [r EXCEPT !.steps[n] = x]
    BY DEF Runs, Steps
  <1> HIDE DEF x
  <1> QED  BY <1>1, <1>2, SettledPut

LEMMA RetryFacts ==
    ASSUME NEW r \in Runs, NEW n \in Nodes
    PROVE  /\ Marked(r, retry(r, n), n, "Ready", r.steps[n].pending_permission, r.steps[n].pending_input)
           /\ SettledFrom(r, retry(r, n))
           /\ Marked(r, activate(r, n), n, "Ready", r.steps[n].pending_permission, r.steps[n].pending_input)
           /\ SettledFrom(r, activate(r, n))
  BY ReadyFacts DEF retry, activate

LEMMA EntryNode == entry_node \in Nodes /\ kind[entry_node] = "Input"
  BY DefinitionAssumption DEF entry_node

LEMMA StartFacts ==
    ASSUME NEW r \in Runs
    PROVE  /\ Marked(r, start(r), entry_node, "Ready", r.steps[entry_node].pending_permission,
                     r.steps[entry_node].pending_input)
           /\ SettledFrom(r, start(r))
  BY ReadyFacts, EntryNode DEF start

LEMMA PermissionRequiredFacts ==
    ASSUME NEW r \in Runs, NEW n \in Nodes
    PROVE  LET s == permission_required(r, n)
           IN  /\ Marked(r, s, n, "WaitingForPermission", TRUE, r.steps[n].pending_input)
               /\ SettledFrom(r, s)
  <1> DEFINE x == [r.steps[n] EXCEPT !.status = "WaitingForPermission", !.pending_permission = TRUE]
  <1>0. r.steps[n] \in Steps  BY DEF Runs
  <1>1. /\ x \in Steps /\ x.status = "WaitingForPermission" /\ SameWork(x, r.steps[n])
        /\ x.pending_permission = TRUE /\ x.pending_input = r.steps[n].pending_input
    BY <1>0 DEF Steps, StepStatus, ActiveStatus, SameWork
  <1>2. [r EXCEPT !.steps[n].status = "WaitingForPermission", !.steps[n].pending_permission = TRUE]
        = [r EXCEPT !.steps[n] = x]
    BY DEF Runs, Steps
  <1> HIDE DEF x
  <1> QED  BY <1>1, <1>2, SettledPut, ZenonT(60) DEF permission_required

LEMMA PermissionResolvedFacts ==
    ASSUME NEW r \in Runs, NEW n \in Nodes
    PROVE  LET s == permission_resolved(r, n)
           IN  /\ Marked(r, s, n, "Running", FALSE, r.steps[n].pending_input)
               /\ SettledFrom(r, s)
  <1> DEFINE x == [r.steps[n] EXCEPT !.status = "Running", !.pending_permission = FALSE]
  <1>0. r.steps[n] \in Steps  BY DEF Runs
  <1>1. /\ x \in Steps /\ x.status = "Running" /\ SameWork(x, r.steps[n])
        /\ x.pending_permission = FALSE /\ x.pending_input = r.steps[n].pending_input
    BY <1>0 DEF Steps, StepStatus, ActiveStatus, SameWork
  <1>2. [r EXCEPT !.steps[n].status = "Running", !.steps[n].pending_permission = FALSE]
        = [r EXCEPT !.steps[n] = x]
    BY DEF Runs, Steps
  <1> HIDE DEF x
  <1> QED  BY <1>1, <1>2, SettledPut DEF permission_resolved

LEMMA InputRequiredFacts ==
    ASSUME NEW r \in Runs, NEW n \in Nodes
    PROVE  LET s == input_required(r, n)
           IN  /\ Marked(r, s, n, "WaitingForInput", r.steps[n].pending_permission, TRUE)
               /\ SettledFrom(r, s)
  <1> DEFINE x == [r.steps[n] EXCEPT !.status = "WaitingForInput", !.pending_input = TRUE]
  <1>0. r.steps[n] \in Steps  BY DEF Runs
  <1>1. /\ x \in Steps /\ x.status = "WaitingForInput" /\ SameWork(x, r.steps[n])
        /\ x.pending_input = TRUE /\ x.pending_permission = r.steps[n].pending_permission
    BY <1>0 DEF Steps, StepStatus, ActiveStatus, SameWork
  <1>2. [r EXCEPT !.steps[n].status = "WaitingForInput", !.steps[n].pending_input = TRUE]
        = [r EXCEPT !.steps[n] = x]
    BY DEF Runs, Steps
  <1> HIDE DEF x
  <1> QED  BY <1>1, <1>2, SettledPut, ZenonT(60) DEF input_required

\* An input is never asked for while a permission is.
LEMMA InputResolvedFacts ==
    ASSUME NEW r \in Runs, NEW n \in Nodes, ~r.steps[n].pending_permission
    PROVE  LET s == input_resolved(r, n)
           IN  /\ Marked(r, s, n, "Running", r.steps[n].pending_permission, FALSE)
               /\ SettledFrom(r, s)
  <1> DEFINE x == [r.steps[n] EXCEPT !.pending_input = FALSE, !.status = "Running"]
  <1>0. r.steps[n] \in Steps  BY DEF Runs
  <1>1. /\ x \in Steps /\ x.status = "Running" /\ SameWork(x, r.steps[n])
        /\ x.pending_input = FALSE /\ x.pending_permission = r.steps[n].pending_permission
    BY <1>0 DEF Steps, StepStatus, ActiveStatus, SameWork
  <1>2. [r EXCEPT !.steps[n].pending_input = FALSE, !.steps[n].status = "Running"]
        = [r EXCEPT !.steps[n] = x]
    BY DEF Runs, Steps
  <1>3. input_resolved(r, n)
        = settle([r EXCEPT !.steps[n].pending_input = FALSE, !.steps[n].status = "Running"])
    BY DEF input_resolved
  <1> HIDE DEF x
  <1>4. LET s == settle([r EXCEPT !.steps[n] = x])
        IN  /\ Marked(r, s, n, x.status, x.pending_permission, x.pending_input)
            /\ SettledFrom(r, s)
    BY <1>1, SettledPut
  <1>5. input_resolved(r, n) = settle([r EXCEPT !.steps[n] = x])
    BY <1>2, <1>3
  <1> QED  BY <1>1, <1>4, <1>5

LEMMA CheckpointFacts ==
    ASSUME NEW r \in Runs, NEW n \in Nodes
    PROVE  LET s == record_checkpoint(r, n)
           IN  /\ s \in Runs /\ s.status = r.status /\ s.failed_step = r.failed_step
               /\ s.paused = r.paused
               /\ \A m \in Nodes : /\ SameWork(s.steps[m], r.steps[m])
                                   /\ s.steps[m].status = r.steps[m].status
                                   /\ s.steps[m].pending_permission = r.steps[m].pending_permission
                                   /\ s.steps[m].pending_input = r.steps[m].pending_input
  <1> DEFINE x == [r.steps[n] EXCEPT !.checkpoint = TRUE]
  <1>0. r.steps[n] \in Steps  BY DEF Runs
  <1>1. /\ x \in Steps /\ x.status = r.steps[n].status /\ SameWork(x, r.steps[n])
        /\ x.pending_input = r.steps[n].pending_input
        /\ x.pending_permission = r.steps[n].pending_permission
    BY <1>0 DEF Steps, SameWork
  <1>2. record_checkpoint(r, n) = [r EXCEPT !.steps[n] = x]
    BY DEF Runs, Steps, record_checkpoint
  <1> HIDE DEF x
  <1>3. LET s == record_checkpoint(r, n)
        IN  /\ s \in Runs
            /\ s.status = r.status /\ s.paused = r.paused /\ s.failed_step = r.failed_step
            /\ s.steps[n] = x /\ \A m \in Nodes \ {n} : s.steps[m] = r.steps[m]
    BY <1>1, <1>2, Put
  <1> QED  BY <1>1, <1>3 DEF SameWork

LEMMA PauseFacts ==
    ASSUME NEW r \in Runs, NEW p \in BOOLEAN
    PROVE  LET s == settle([r EXCEPT !.paused = p])
           IN  /\ s \in Runs /\ s.steps = r.steps /\ s.failed_step = r.failed_step
               /\ s.paused = p /\ SettledFrom(r, s)
  <1> DEFINE t == [r EXCEPT !.paused = p]
  <1>1. /\ t \in Runs /\ t.steps = r.steps /\ t.failed_step = r.failed_step
        /\ t.status = r.status
    BY DEF Runs
  <1>2. t.paused = p
    BY DEF Runs
  <1> HIDE DEF t
  <1> QED  BY <1>1, <1>2, SettleFacts DEF SettledFrom, t

\* Nothing that has not begun will begin any more; the attempts in flight
\* are left alone.
Dropped(st) == CASE st = "Pending" -> "Skipped"
                  [] st \in {"Ready", "RetryScheduled"} -> "Cancelled"
                  [] OTHER -> st

LEMMA WithoutWaitingFacts ==
    ASSUME NEW r \in Runs
    PROVE  LET s == WithoutWaiting(r)
           IN  /\ s \in Runs /\ s.status = r.status /\ s.failed_step = r.failed_step
               /\ s.paused = r.paused
               /\ \A m \in Nodes : /\ SameWork(s.steps[m], r.steps[m])
                                   /\ s.steps[m].status = Dropped(r.steps[m].status)
                                   /\ s.steps[m].pending_permission = r.steps[m].pending_permission
                                   /\ s.steps[m].pending_input = r.steps[m].pending_input
  <1> DEFINE f == [n \in Nodes |-> [r.steps[n] EXCEPT !.status = Dropped(r.steps[n].status)]]
  <1>1. \A n \in Nodes : Dropped(r.steps[n].status) \in StepStatus
    BY DEF Runs, Steps, StepStatus, ActiveStatus, Dropped
  <1>2. WithoutWaiting(r) = [r EXCEPT !.steps = f]
    BY DEF WithoutWaiting, Dropped
  <1>3. \A n \in Nodes : r.steps[n] \in Steps  BY DEF Runs
  <1>4. \A n \in Nodes : /\ f[n] \in Steps /\ SameWork(f[n], r.steps[n])
                         /\ f[n].status = Dropped(r.steps[n].status)
                         /\ f[n].pending_permission = r.steps[n].pending_permission
                         /\ f[n].pending_input = r.steps[n].pending_input
    BY <1>1, <1>3 DEF Steps, SameWork
  <1>5. f \in [Nodes -> Steps]
    BY <1>4
  <1> HIDE DEF f
  <1>6. LET s == [r EXCEPT !.steps = f]
        IN  /\ s \in Runs
            /\ s.status = r.status /\ s.paused = r.paused /\ s.failed_step = r.failed_step
            /\ s.steps = f
    BY <1>5, PutAll
  <1> QED  BY <1>2, <1>4, <1>6

LEMMA StoppedFacts ==
    ASSUME NEW r \in Runs, NEW st \in StepStatus
    PROVE  LET s == Stopped(r, st)
           IN  /\ s \in Runs /\ s.status = r.status /\ s.failed_step = r.failed_step
               /\ s.paused = r.paused
               /\ \A m \in Nodes : SameWork(s.steps[m], r.steps[m])
               /\ \A m \in Nodes \ ActiveSteps(r) : s.steps[m] = r.steps[m]
               /\ \A m \in ActiveSteps(r) : /\ s.steps[m].status = st
                                            /\ ~s.steps[m].pending_permission
                                            /\ ~s.steps[m].pending_input
  <1> DEFINE x(n) == [r.steps[n] EXCEPT !.status = st, !.pending_permission = FALSE,
                                        !.pending_input = FALSE, !.last_error = "none"]
             f == [n \in Nodes |-> IF n \notin ActiveSteps(r) THEN r.steps[n] ELSE x(n)]
  <1>2. Stopped(r, st) = [r EXCEPT !.steps = f]
    BY DEF Stopped, Runs, Steps
  <1>3. \A n \in Nodes : r.steps[n] \in Steps  BY DEF Runs
  <1>4. \A n \in Nodes : /\ x(n) \in Steps /\ SameWork(x(n), r.steps[n])
                         /\ x(n).status = st /\ ~x(n).pending_permission /\ ~x(n).pending_input
    BY <1>3 DEF Steps, SameWork
  <1> HIDE DEF x
  <1>5. /\ f \in [Nodes -> Steps]
        /\ \A m \in Nodes : f[m] = IF m \notin ActiveSteps(r) THEN r.steps[m] ELSE x(m)
    BY <1>3, <1>4
  <1> HIDE DEF f
  <1>6. LET s == [r EXCEPT !.steps = f]
        IN  /\ s \in Runs
            /\ s.status = r.status /\ s.paused = r.paused /\ s.failed_step = r.failed_step
            /\ s.steps = f
    BY <1>5, PutAll
  <1>7. ActiveSteps(r) \subseteq Nodes  BY DEF ActiveSteps
  <1> QED  BY <1>2, <1>4, <1>5, <1>6, <1>7 DEF SameWork

\* The run gets another status.
LEMMA StatusFacts ==
    ASSUME NEW r \in Runs, NEW st \in RunStatus
    PROVE  LET s == [r EXCEPT !.status = st]
           IN  /\ s \in Runs /\ s.status = st /\ s.steps = r.steps
               /\ s.failed_step = r.failed_step /\ s.paused = r.paused
  BY DEF Runs

\* How a run that stops before its end looks.
Shut(r, s, status) ==
    /\ s \in Runs /\ s.status = status /\ s.failed_step = r.failed_step
    /\ \A m \in Nodes : /\ SameWork(s.steps[m], r.steps[m])
                        /\ s.steps[m].status = Dropped(r.steps[m].status)
                        /\ s.steps[m].pending_permission = r.steps[m].pending_permission
                        /\ s.steps[m].pending_input = r.steps[m].pending_input

LEMMA ShutFacts ==
    ASSUME NEW r \in Runs, NEW st \in RunStatus
    PROVE  Shut(r, [WithoutWaiting(r) EXCEPT !.status = st], st)
  <1> DEFINE t == WithoutWaiting(r)
             s == [t EXCEPT !.status = st]
  <1>1. /\ t \in Runs /\ t.status = r.status /\ t.failed_step = r.failed_step
        /\ t.paused = r.paused
        /\ \A m \in Nodes : /\ SameWork(t.steps[m], r.steps[m])
                            /\ t.steps[m].status = Dropped(r.steps[m].status)
                            /\ t.steps[m].pending_permission = r.steps[m].pending_permission
                            /\ t.steps[m].pending_input = r.steps[m].pending_input
    BY WithoutWaitingFacts
  <1> HIDE DEF t
  <1>2. /\ s \in Runs /\ s.status = st /\ s.steps = t.steps /\ s.failed_step = t.failed_step
    BY <1>1, StatusFacts
  <1> HIDE DEF s
  <1>3. Shut(r, s, st)
    BY <1>1, <1>2 DEF Shut
  <1> QED  BY <1>3 DEF s, t

LEMMA TerminateFacts ==
    ASSUME NEW r \in Runs
    PROVE  Shut(r, terminate_failed(r), "Failed")
  BY ShutFacts DEF terminate_failed, RunStatus, Terminal

\* settle after one step was replaced by any other.
LEMMA SettledAny ==
    ASSUME NEW r \in Runs, NEW n \in Nodes, NEW x \in Steps
    PROVE  LET s == settle([r EXCEPT !.steps[n] = x])
           IN  /\ s \in Runs /\ s.failed_step = r.failed_step /\ s.paused = r.paused
               /\ s.steps[n] = x /\ \A m \in Nodes \ {n} : s.steps[m] = r.steps[m]
               /\ SettledFrom(r, s)
  <1> DEFINE t == [r EXCEPT !.steps[n] = x]
  <1>1. /\ t \in Runs
        /\ t.status = r.status /\ t.paused = r.paused /\ t.failed_step = r.failed_step
        /\ t.steps[n] = x /\ \A m \in Nodes \ {n} : t.steps[m] = r.steps[m]
    BY Put
  <1> HIDE DEF t
  <1>2. /\ settle(t) \in Runs /\ settle(t).steps = t.steps /\ settle(t).failed_step = t.failed_step
        /\ settle(t).paused = t.paused /\ SettledFrom(t, settle(t))
    BY <1>1, SettleFacts
  <1> QED  BY <1>1, <1>2 DEF SettledFrom, t

\* s is r with a new attempt of step n, which is given what the others made.
Admitted(r, s, n) ==
    /\ s \in Runs /\ s.failed_step = r.failed_step /\ s.paused = r.paused
    /\ SettledFrom(r, s)
    /\ \A m \in Nodes \ {n} : s.steps[m] = r.steps[m]
    /\ s.steps[n].status = "Running" /\ s.steps[n].attempts = r.steps[n].attempts + 1
    /\ s.steps[n].output = r.steps[n].output
    /\ \A m \in Nodes : s.steps[n].read[m] = r.steps[m].output
    /\ s.steps[n].pending_permission = r.steps[n].pending_permission
    /\ s.steps[n].pending_input = r.steps[n].pending_input

LEMMA AdmitFacts ==
    ASSUME NEW r \in Runs, NEW n \in Nodes
    PROVE  \/ exhausted_budget(r) /\ Shut(r, admit(r, n), "Failed")
           \/ ~exhausted_budget(r) /\ Admitted(r, admit(r, n), n)
  <1>1. CASE exhausted_budget(r)
    BY <1>1, TerminateFacts DEF admit
  <1>2. CASE ~exhausted_budget(r)
    <2> DEFINE given == [m \in Nodes |-> r.steps[m].output]
               x == [r.steps[n] EXCEPT !.status = "Running", !.attempts = @ + 1, !.read = given]
               t == [r EXCEPT !.total_attempts = @ + 1]
    <2>0. r.steps[n] \in Steps /\ \A m \in Nodes : r.steps[m].output \in Nat  BY DEF Runs, Steps
    <2>1. given \in [Nodes -> Nat]  BY <2>0
    <2>2. \A m \in Nodes : given[m] = r.steps[m].output  OBVIOUS
    <2>3. t \in Runs /\ t.steps = r.steps /\ t.status = r.status /\ t.failed_step = r.failed_step
          /\ t.paused = r.paused
      BY DEF Runs
    <2>4. admit(r, n) = settle([r EXCEPT !.steps[n].status = "Running", !.steps[n].attempts = @ + 1,
                          !.steps[n].read = given, !.total_attempts = @ + 1])
      BY <1>2 DEF admit
    <2> HIDE DEF given
    <2>5. [r EXCEPT !.steps[n].status = "Running", !.steps[n].attempts = @ + 1,
                    !.steps[n].read = given, !.total_attempts = @ + 1] = [t EXCEPT !.steps[n] = x]
      BY DEF Runs, Steps
    <2>10. r.steps[n].attempts + 1 \in Nat  BY <2>0 DEF Steps
    <2>6. /\ x \in Steps /\ x.status = "Running" /\ x.attempts = r.steps[n].attempts + 1
          /\ x.output = r.steps[n].output /\ x.read = given
      <3> DEFINE a == r.steps[n].attempts + 1
      <3>1. a \in Nat  BY <2>10
      <3>2. x = [r.steps[n] EXCEPT !.status = "Running", !.attempts = a, !.read = given]
        OBVIOUS
      <3> HIDE DEF a, x
      <3> QED  BY <2>0, <2>1, <3>1, <3>2 DEF Steps, StepStatus, ActiveStatus, a
    <2>9. /\ x.pending_permission = r.steps[n].pending_permission
          /\ x.pending_input = r.steps[n].pending_input
      BY <2>0 DEF Steps
    <2> HIDE DEF x, t
    <2>7. LET s == settle([t EXCEPT !.steps[n] = x])
          IN  /\ s \in Runs /\ s.failed_step = t.failed_step /\ s.paused = t.paused
              /\ s.steps[n] = x /\ \A m \in Nodes \ {n} : s.steps[m] = t.steps[m]
              /\ SettledFrom(t, s)
      BY <2>3, <2>6, SettledAny
    <2>8. admit(r, n) = settle([t EXCEPT !.steps[n] = x])
      BY <2>4, <2>5
    <2> QED  BY <1>2, <2>2, <2>3, <2>6, <2>7, <2>8, <2>9 DEF Admitted, SettledFrom
  <1> QED  BY <1>1, <1>2

\* s is r after step n has succeeded, as far as n is concerned.
Done(r, s, n) ==
    /\ s \in Runs /\ s.failed_step = r.failed_step
    /\ s.steps[n].status = "Succeeded" /\ s.steps[n].attempts = r.steps[n].attempts
    /\ s.steps[n].output = r.steps[n].attempts /\ s.steps[n].read = r.steps[n].read
    /\ s.steps[n].pending_permission = r.steps[n].pending_permission
    /\ s.steps[n].pending_input = r.steps[n].pending_input

LEMMA SucceedFacts ==
    ASSUME NEW r \in Runs, NEW n \in Nodes, NEW used \in Nat,
           OnSuccess[n] # n
    PROVE  LET s == succeed(r, n, used)  k == OnSuccess[n]
           IN  /\ Done(r, s, n)
               /\ \A m \in Nodes \ {n, k} : s.steps[m] = r.steps[m]
               /\ kind[n] = "Output" => s.status = "Completed"
               /\ kind[n] # "Output" =>
                    /\ k \in Nodes /\ SettledFrom(r, s) /\ s.steps[k].status = "Ready"
                    /\ SameWork(s.steps[k], r.steps[k])
                    /\ s.steps[k].pending_permission = r.steps[k].pending_permission
                    /\ s.steps[k].pending_input = r.steps[k].pending_input
  <1> DEFINE k == OnSuccess[n]
             u == record_usage(r, used)
             x == [r.steps[n] EXCEPT !.status = "Succeeded", !.last_error = "none",
                                     !.output = r.steps[n].attempts]
             t == [u EXCEPT !.steps[n] = x]
  <1>0. r.steps[n] \in Steps  BY DEF Runs
  <1>1. u \in Runs /\ u.steps = r.steps /\ u.status = r.status /\ u.failed_step = r.failed_step
        /\ u.paused = r.paused
    BY DEF Runs, record_usage
  <1>2. /\ x \in Steps /\ x.status = "Succeeded" /\ x.attempts = r.steps[n].attempts
        /\ x.output = r.steps[n].attempts /\ x.read = r.steps[n].read
        /\ x.pending_permission = r.steps[n].pending_permission
        /\ x.pending_input = r.steps[n].pending_input
    BY <1>0 DEF Steps, StepStatus
  <1> HIDE DEF u
  <1>3. [u EXCEPT !.steps[n].status = "Succeeded", !.steps[n].last_error = "none",
                  !.steps[n].output = r.steps[n].attempts] = t
    BY <1>1 DEF Runs, Steps
  <1> HIDE DEF t
  <1>4. succeed(r, n, used) = IF kind[n] = "Output" THEN [t EXCEPT !.status = "Completed"]
                              ELSE activate(t, k)
    BY <1>3 DEF succeed, u
  <1> HIDE DEF x
  <1>5. /\ t \in Runs
        /\ t.status = u.status /\ t.paused = u.paused /\ t.failed_step = u.failed_step
        /\ t.steps[n] = x /\ \A m \in Nodes \ {n} : t.steps[m] = u.steps[m]
    BY <1>1, <1>2, Put DEF t
  <1>6. CASE kind[n] = "Output"
    <2> DEFINE s == [t EXCEPT !.status = "Completed"]
    <2>1. /\ s \in Runs /\ s.status = "Completed" /\ s.steps = t.steps
          /\ s.failed_step = t.failed_step /\ s.paused = t.paused
      BY <1>5, StatusFacts DEF RunStatus, Terminal
    <2>2. succeed(r, n, used) = s  BY <1>4, <1>6
    <2> HIDE DEF s
    <2> QED  BY <1>1, <1>2, <1>5, <1>6, <2>1, <2>2 DEF Done
  <1>7. CASE kind[n] # "Output"
    <2>1. k \in Nodes  BY <1>7, DefinitionAssumption
    <2> DEFINE s == activate(t, k)
    <2>2. /\ Marked(t, s, k, "Ready", t.steps[k].pending_permission, t.steps[k].pending_input)
          /\ SettledFrom(t, s)
      BY <1>5, <2>1, RetryFacts
    <2>3. succeed(r, n, used) = s  BY <1>4, <1>7
    <2> HIDE DEF s
    <2>4. s.steps[n] = t.steps[n]
      BY <2>2 DEF Marked
    <2>5. t.steps[k] = r.steps[k]  BY <1>1, <1>5, <2>1
    <2> QED  BY <1>1, <1>2, <1>5, <1>7, <2>1, <2>2, <2>3, <2>4, <2>5
             DEF Done, Marked, SettledFrom, SameWork
  <1> QED  BY <1>6, <1>7

\* The steps sent back by n start over, the target first.
SentBack(r, s, n) ==
    /\ s \in Runs /\ s.failed_step = r.failed_step /\ SettledFrom(r, s)
    /\ \A m \in Nodes \ retry_spans[n] : s.steps[m] = r.steps[m]
    /\ \A m \in retry_spans[n] :
        /\ s.steps[m].status = IF m = retry_target[n] THEN "RetryScheduled" ELSE "Pending"
        /\ s.steps[m].output = 0 /\ s.steps[m].read = r.steps[m].read
        /\ s.steps[m].attempts = r.steps[m].attempts
        /\ s.steps[m].pending_permission = r.steps[m].pending_permission
        /\ s.steps[m].pending_input = r.steps[m].pending_input

LEMMA SpanFacts ==
    ASSUME NEW n \in Nodes, retry_target[n] # None
    PROVE  /\ retry_target[n] \in Nodes /\ retry_target[n] \in ancestors[n]
           /\ retry_spans[n] \subseteq Nodes /\ n \in retry_spans[n]
           /\ retry_target[n] \in retry_spans[n] /\ retry_target[n] # n
           /\ \A m \in Nodes : m \in retry_spans[n] <=>
                m = n \/ m = retry_target[n]
                \/ (retry_target[n] \in ancestors[m] /\ m \in ancestors[n])
  <1>1. retry_target[n] \in Nodes /\ retry_target[n] \in ancestors[n] /\ n \notin ancestors[n]
    BY DefinitionAssumption
  <1>2. retry_spans[n] = {retry_target[n], n} \cup (descendants(retry_target[n]) \cap ancestors[n])
    BY DEF retry_spans
  <1>3. descendants(retry_target[n]) \subseteq Nodes /\ ancestors[n] \subseteq Nodes
    BY DEF descendants, ancestors
  <1>4. \A m \in Nodes : retry_target[n] \in ancestors[m] <=> m \in descendants(retry_target[n])
    BY <1>1 DEF ancestors
  <1> QED  BY <1>1, <1>2, <1>3, <1>4

LEMMA SendBackFacts ==
    ASSUME NEW r \in Runs, NEW n \in Nodes, retry_target[n] # None
    PROVE  SentBack(r, send_back(r, n), n)
  <1> DEFINE target == retry_target[n]
             span == retry_spans[n]
             x(m) == [r.steps[m] EXCEPT !.status = IF m = target THEN "RetryScheduled" ELSE "Pending",
                                        !.output = 0,
                                        !.checkpoint = m = target /\ r.steps[m].checkpoint]
             f == [m \in Nodes |-> IF m \notin span THEN r.steps[m] ELSE x(m)]
             t == [r EXCEPT !.steps = f]
  <1>1. send_back(r, n) = settle(t)
    BY DEF send_back
  <1>2. \A m \in Nodes : r.steps[m] \in Steps  BY DEF Runs
  <1>3. \A m \in Nodes : (m = target /\ r.steps[m].checkpoint) \in BOOLEAN
    OBVIOUS
  <1>4. \A m \in Nodes :
            /\ x(m) \in Steps
            /\ x(m).status = IF m = target THEN "RetryScheduled" ELSE "Pending"
            /\ x(m).output = 0 /\ x(m).read = r.steps[m].read
            /\ x(m).attempts = r.steps[m].attempts
    <2> TAKE m \in Nodes
    <2> DEFINE c == m = target /\ r.steps[m].checkpoint
               st == IF m = target THEN "RetryScheduled" ELSE "Pending"
    <2>1. x(m) = [r.steps[m] EXCEPT !.status = st, !.output = 0, !.checkpoint = c]  OBVIOUS
    <2>2. c \in BOOLEAN /\ st \in StepStatus  BY DEF StepStatus
    <2> HIDE DEF c
    <2> HIDE DEF x, st
    <2>3. x(m) \in Steps
      <3> DEFINE y == [r.steps[m] EXCEPT !.status = st, !.output = 0]
      <3>1. y \in Steps  BY <1>2, <2>2 DEF Steps
      <3>2. x(m) = [y EXCEPT !.checkpoint = c]  BY <2>1
      <3> HIDE DEF y
      <3> QED  BY <2>2, <3>1, <3>2 DEF Steps
    <2>4. /\ x(m).status = st /\ x(m).output = 0 /\ x(m).read = r.steps[m].read
          /\ x(m).attempts = r.steps[m].attempts
      BY <1>2, <2>1 DEF Steps
    <2> QED  BY <2>3, <2>4 DEF st
  <1>5. \A m \in Nodes : /\ x(m).pending_permission = r.steps[m].pending_permission
                         /\ x(m).pending_input = r.steps[m].pending_input
    BY <1>2 DEF Steps
  <1> HIDE DEF x
  <1>6. /\ f \in [Nodes -> Steps]
        /\ \A m \in Nodes : f[m] = IF m \notin span THEN r.steps[m] ELSE x(m)
    BY <1>2, <1>4
  <1> HIDE DEF f
  <1>7. t \in Runs /\ t.status = r.status /\ t.paused = r.paused /\ t.failed_step = r.failed_step
        /\ t.steps = f
    BY <1>6, PutAll
  <1> HIDE DEF t
  <1>8. /\ settle(t) \in Runs /\ settle(t).steps = t.steps /\ settle(t).failed_step = t.failed_step
        /\ SettledFrom(t, settle(t))
    BY <1>7, SettleFacts
  <1>9. span \subseteq Nodes  BY SpanFacts
  <1>10. SettledFrom(r, settle(t))  BY <1>7, <1>8 DEF SettledFrom
  <1> QED  BY <1>1, <1>4, <1>5, <1>6, <1>7, <1>8, <1>9, <1>10 DEF SentBack

Errors == [reason : Results, code : {"none", "other", "changes_approved"}]

\* s is r after the attempt of n has failed and before anything follows.
LEMMA MarkFailedFacts ==
    ASSUME NEW r \in Runs, NEW n \in Nodes, NEW used \in Nat,
           NEW error \in Errors
    PROVE  LET s == mark_attempt_failed(record_usage(r, used), n, error)
           IN  /\ Marked(r, s, n, "Failed", FALSE, FALSE) /\ s.status = r.status
  <1> DEFINE u == record_usage(r, used)
             c == error.code
             x == [r.steps[n] EXCEPT !.status = "Failed", !.pending_permission = FALSE,
                                     !.pending_input = FALSE, !.last_error = c]
  <1>0. r.steps[n] \in Steps  BY DEF Runs
  <1>1. u \in Runs /\ u.steps = r.steps /\ u.status = r.status /\ u.failed_step = r.failed_step
        /\ u.paused = r.paused
    BY DEF Runs, record_usage
  <1> HIDE DEF u
  <1>2. c \in {"none", "other", "changes_approved"}  BY DEF Errors
  <1>3. mark_attempt_failed(u, n, error)
        = [u EXCEPT !.steps[n].status = "Failed", !.steps[n].pending_permission = FALSE,
                    !.steps[n].pending_input = FALSE, !.steps[n].last_error = c]
    BY DEF mark_attempt_failed
  <1> HIDE DEF c
  <1>4. [u EXCEPT !.steps[n].status = "Failed", !.steps[n].pending_permission = FALSE,
                  !.steps[n].pending_input = FALSE, !.steps[n].last_error = c]
        = [u EXCEPT !.steps[n] = x]
    BY <1>1, ZenonT(60) DEF Runs, Steps
  <1>5. /\ x \in Steps /\ x.status = "Failed" /\ SameWork(x, r.steps[n])
        /\ x.pending_permission = FALSE /\ x.pending_input = FALSE
    BY <1>0, <1>2 DEF Steps, StepStatus, SameWork
  <1> HIDE DEF x
  <1>6. LET s == [u EXCEPT !.steps[n] = x]
        IN  /\ s \in Runs
            /\ s.status = u.status /\ s.paused = u.paused /\ s.failed_step = u.failed_step
            /\ s.steps[n] = x /\ \A m \in Nodes \ {n} : s.steps[m] = u.steps[m]
    BY <1>1, <1>5, Put
  <1> DEFINE s == mark_attempt_failed(u, n, error)
  <1>7. s = [u EXCEPT !.steps[n] = x]  BY <1>3, <1>4
  <1> HIDE DEF s
  <1>8. Marked(r, s, n, "Failed", FALSE, FALSE) /\ s.status = r.status
    BY <1>1, <1>5, <1>6, <1>7 DEF Marked, SameWork
  <1> QED  BY <1>8 DEF s, u

\* The four ways on from a failed attempt of n.
RetriesSame(r, s, n) ==
    Marked(r, s, n, "RetryScheduled", FALSE, FALSE) /\ SettledFrom(r, s)

\* As SentBack, and n itself waits for nothing.
GoesBack(r, s, n) ==
    /\ retry_target[n] # None
    /\ s \in Runs /\ s.failed_step = r.failed_step /\ SettledFrom(r, s)
    /\ \A m \in Nodes \ retry_spans[n] : s.steps[m] = r.steps[m]
    /\ \A m \in retry_spans[n] :
        /\ s.steps[m].status = IF m = retry_target[n] THEN "RetryScheduled" ELSE "Pending"
        /\ s.steps[m].output = 0 /\ s.steps[m].read = r.steps[m].read
        /\ s.steps[m].attempts = r.steps[m].attempts
    /\ ~s.steps[n].pending_permission /\ ~s.steps[n].pending_input
    /\ \A m \in retry_spans[n] \ {n} :
        /\ s.steps[m].pending_permission = r.steps[m].pending_permission
        /\ s.steps[m].pending_input = r.steps[m].pending_input

TakesFailureEdge(r, s, n) ==
    LET k == OnFailure[n] IN
    /\ k \in Nodes
    /\ s \in Runs /\ s.failed_step = r.failed_step /\ SettledFrom(r, s)
    /\ \A m \in Nodes \ {n, k} : s.steps[m] = r.steps[m]
    /\ s.steps[n].status = "Failed" /\ SameWork(s.steps[n], r.steps[n])
    /\ ~s.steps[n].pending_permission /\ ~s.steps[n].pending_input
    /\ s.steps[k].status = "Ready" /\ SameWork(s.steps[k], r.steps[k])
    /\ s.steps[k].pending_permission = r.steps[k].pending_permission
    /\ s.steps[k].pending_input = r.steps[k].pending_input

FailsAt(r, s, n) ==
    /\ s \in Runs /\ s.failed_step = n /\ s.status = "Failed"
    /\ \A m \in Nodes : SameWork(s.steps[m], r.steps[m])
    /\ s.steps[n].status = "Failed"
    /\ ~s.steps[n].pending_permission /\ ~s.steps[n].pending_input
    /\ \A m \in Nodes \ {n} :
        /\ s.steps[m].status = Dropped(r.steps[m].status)
        /\ s.steps[m].pending_permission = r.steps[m].pending_permission
        /\ s.steps[m].pending_input = r.steps[m].pending_input

\* A retry count that starts over changes nothing else.
LEMMA RetryBaseFacts ==
    ASSUME NEW r \in Runs, NEW k \in Nodes, NEW base \in Nat
    PROVE  LET s == [r EXCEPT !.steps[k].retry_base = base]
           IN  /\ s \in Runs /\ s.status = r.status /\ s.failed_step = r.failed_step
               /\ s.paused = r.paused
               /\ \A m \in Nodes \ {k} : s.steps[m] = r.steps[m]
               /\ SameWork(s.steps[k], r.steps[k]) /\ s.steps[k].status = r.steps[k].status
               /\ s.steps[k].pending_permission = r.steps[k].pending_permission
               /\ s.steps[k].pending_input = r.steps[k].pending_input
  <1> DEFINE x == [r.steps[k] EXCEPT !.retry_base = base]
  <1>0. r.steps[k] \in Steps  BY DEF Runs
  <1>1. /\ x \in Steps /\ x.status = r.steps[k].status /\ SameWork(x, r.steps[k])
        /\ x.pending_input = r.steps[k].pending_input
        /\ x.pending_permission = r.steps[k].pending_permission
    BY <1>0 DEF Steps, SameWork
  <1>2. [r EXCEPT !.steps[k].retry_base = base] = [r EXCEPT !.steps[k] = x]
    BY DEF Runs, Steps
  <1> HIDE DEF x
  <1>3. LET s == [r EXCEPT !.steps[k] = x]
        IN  /\ s \in Runs
            /\ s.status = r.status /\ s.paused = r.paused /\ s.failed_step = r.failed_step
            /\ s.steps[k] = x /\ \A m \in Nodes \ {k} : s.steps[m] = r.steps[m]
    BY <1>1, Put
  <1> QED  BY <1>1, <1>2, <1>3

LEMMA FailFacts ==
    ASSUME NEW r \in Runs, NEW n \in Nodes, NEW used \in Nat, OnFailure[n] # n,
           NEW error \in Errors
    PROVE  LET s == fail(r, n, error, used)
           IN  \/ RetriesSame(r, s, n)
               \/ GoesBack(r, s, n)
               \/ TakesFailureEdge(r, s, n)
               \/ FailsAt(r, s, n)
  <1> DEFINE t == mark_attempt_failed(record_usage(r, used), n, error)
             left == ~exhausted_budget(t)
             s == fail(r, n, error, used)
             target == retry_target[n]
  <1>1. Marked(r, t, n, "Failed", FALSE, FALSE) /\ t.status = r.status
    <2> HIDE DEF left, s, target
    <2> QED  BY MarkFailedFacts
  <1>2. \/ s = settle([t EXCEPT !.steps[n].status = "RetryScheduled"])
        \/ target # None /\ s = send_back(t, n)
        \/ target # None /\ s = send_back([t EXCEPT !.steps[target].retry_base =
                                                t.steps[target].attempts], n)
        \/ OnFailure[n] # None /\ s = activate(t, OnFailure[n])
        \/ s = terminate_failed([t EXCEPT !.failed_step = n, !.verification_failed =
                                    left /\ error.reason = "VerificationFailed"])
    BY Zenon DEF fail, send_back_to_retry_target, send_back_for_changes
  <1>3. t \in Runs /\ \A m \in Nodes : t.steps[m] \in Steps
    BY <1>1 DEF Marked, Runs
  <1> HIDE DEF t, left, s
  <1>4. CASE s = settle([t EXCEPT !.steps[n].status = "RetryScheduled"])
    <2> DEFINE x == [t.steps[n] EXCEPT !.status = "RetryScheduled"]
    <2>1. /\ x \in Steps /\ x.status = "RetryScheduled" /\ SameWork(x, t.steps[n])
          /\ x.pending_permission = t.steps[n].pending_permission
          /\ x.pending_input = t.steps[n].pending_input
      BY <1>3 DEF Steps, StepStatus, SameWork
    <2>2. [t EXCEPT !.steps[n].status = "RetryScheduled"] = [t EXCEPT !.steps[n] = x]
      BY <1>3 DEF Runs, Steps
    <2> HIDE DEF x
    <2>3. Marked(t, s, n, x.status, x.pending_permission, x.pending_input) /\ SettledFrom(t, s)
      BY <1>3, <1>4, <2>1, <2>2, SettledPut
    <2>4. RetriesSame(r, s, n)
      BY <1>1, <2>1, <2>3 DEF RetriesSame, Marked, SettledFrom
    <2> QED  BY <2>4 DEF s
  <1>5. CASE target # None /\ s = send_back(t, n)
    <2>1. SentBack(t, s, n)  BY <1>3, <1>5, SendBackFacts
    <2>2. retry_spans[n] \subseteq Nodes /\ n \in retry_spans[n]  BY <1>5, SpanFacts
    <2>3. GoesBack(r, s, n)
      BY <1>1, <1>5, <2>1, <2>2 DEF GoesBack, SentBack, Marked, SettledFrom
    <2> QED  BY <2>3 DEF s
  <1>6. CASE target # None /\ s = send_back([t EXCEPT !.steps[target].retry_base =
                                                t.steps[target].attempts], n)
    <2> DEFINE base == t.steps[target].attempts
               w == [t EXCEPT !.steps[target].retry_base = base]
    <2>1. /\ retry_spans[n] \subseteq Nodes /\ n \in retry_spans[n] /\ target \in Nodes
          /\ target # n /\ target \in retry_spans[n]
      BY <1>6, SpanFacts
    <2>2. base \in Nat  BY <1>3, <2>1 DEF Steps
    <2> HIDE DEF base
    <2>3. /\ w \in Runs /\ w.status = t.status /\ w.failed_step = t.failed_step
          /\ \A m \in Nodes \ {target} : w.steps[m] = t.steps[m]
          /\ SameWork(w.steps[target], t.steps[target])
          /\ w.steps[target].pending_permission = t.steps[target].pending_permission
          /\ w.steps[target].pending_input = t.steps[target].pending_input
      BY <1>3, <2>1, <2>2, RetryBaseFacts, SMTT(30)
    <2>4. s = send_back(w, n)  BY <1>6 DEF base
    <2> HIDE DEF w
    <2>5. SentBack(w, s, n)  BY <1>6, <2>3, <2>4, SendBackFacts
    <2>6. \A m \in Nodes : /\ w.steps[m].read = t.steps[m].read
                           /\ w.steps[m].attempts = t.steps[m].attempts
                           /\ w.steps[m].pending_permission = t.steps[m].pending_permission
                           /\ w.steps[m].pending_input = t.steps[m].pending_input
      BY <2>3 DEF SameWork
    <2>7. /\ \A m \in Nodes \ {n} : t.steps[m] = r.steps[m]
          /\ t.steps[n].read = r.steps[n].read /\ t.steps[n].attempts = r.steps[n].attempts
          /\ t.failed_step = r.failed_step /\ t.status = r.status
          /\ ~t.steps[n].pending_permission /\ ~t.steps[n].pending_input
      BY <1>1 DEF Marked
    <2>8. /\ s \in Runs /\ s.failed_step = w.failed_step /\ SettledFrom(w, s)
          /\ \A m \in Nodes \ retry_spans[n] : s.steps[m] = w.steps[m]
          /\ \A m \in retry_spans[n] :
                /\ s.steps[m].status = IF m = retry_target[n] THEN "RetryScheduled" ELSE "Pending"
                /\ s.steps[m].output = 0 /\ s.steps[m].read = w.steps[m].read
                /\ s.steps[m].attempts = w.steps[m].attempts
                /\ s.steps[m].pending_permission = w.steps[m].pending_permission
                /\ s.steps[m].pending_input = w.steps[m].pending_input
      BY <2>5 DEF SentBack
    <2>9. \A m \in Nodes \ retry_spans[n] : s.steps[m] = r.steps[m]
      BY <2>1, <2>3, <2>7, <2>8, ZenonT(60)
    <2>10. \A m \in retry_spans[n] :
            /\ s.steps[m].read = r.steps[m].read /\ s.steps[m].attempts = r.steps[m].attempts
      <3> TAKE m \in retry_spans[n]
      <3>1. /\ s.steps[m].read = t.steps[m].read /\ s.steps[m].attempts = t.steps[m].attempts
        BY <2>1, <2>6, <2>8
      <3>2. /\ t.steps[m].read = r.steps[m].read /\ t.steps[m].attempts = r.steps[m].attempts
        BY <2>1, <2>7
      <3> QED  BY <3>1, <3>2
    <2>11. /\ ~s.steps[n].pending_permission /\ ~s.steps[n].pending_input
           /\ \A m \in retry_spans[n] \ {n} :
                /\ s.steps[m].pending_permission = r.steps[m].pending_permission
                /\ s.steps[m].pending_input = r.steps[m].pending_input
      BY <2>1, <2>6, <2>7, <2>8
    <2>12. SettledFrom(r, s)  BY <2>3, <2>7, <2>8 DEF SettledFrom
    <2>13. GoesBack(r, s, n)
      BY <1>6, <2>3, <2>7, <2>8, <2>9, <2>10, <2>11, <2>12 DEF GoesBack
    <2> QED  BY <2>13 DEF s
  <1>7. CASE OnFailure[n] # None /\ s = activate(t, OnFailure[n])
    <2> DEFINE k == OnFailure[n]
    <2>1. k \in Nodes  BY <1>7, DefinitionAssumption
    <2>2. /\ Marked(t, s, k, "Ready", t.steps[k].pending_permission, t.steps[k].pending_input)
          /\ SettledFrom(t, s)
      BY <1>3, <1>7, <2>1, RetryFacts
    <2>3. t.steps[k] = r.steps[k] /\ s.steps[n] = t.steps[n]  BY <1>1, <2>1, <2>2 DEF Marked
    <2>4. TakesFailureEdge(r, s, n)
      BY <1>1, <2>1, <2>2, <2>3 DEF TakesFailureEdge, Marked, SettledFrom, SameWork
    <2> QED  BY <2>4 DEF s
  <1>8. CASE s = terminate_failed([t EXCEPT !.failed_step = n, !.verification_failed =
                                    left /\ error.reason = "VerificationFailed"])
    <2> DEFINE v == left /\ error.reason = "VerificationFailed"
               w == [t EXCEPT !.failed_step = n, !.verification_failed = v]
    <2>1. v \in BOOLEAN  OBVIOUS
    <2>2. s = terminate_failed(w)  BY <1>8
    <2> HIDE DEF v
    <2>3. w \in Runs /\ w.failed_step = n /\ w.steps = t.steps
      BY <1>3, <2>1 DEF Runs
    <2> HIDE DEF w
    <2>4. Shut(w, s, "Failed")  BY <2>2, <2>3, TerminateFacts
    <2>5. FailsAt(r, s, n)
      BY <1>1, <2>3, <2>4 DEF FailsAt, Shut, Marked, SameWork, Dropped
    <2> QED  BY <2>5 DEF s
  <1> QED  BY <1>2, <1>4, <1>5, <1>6, <1>7, <1>8

\* s is r after the run was stopped: nothing is in flight, nothing begins.
Halted(r, s, status) ==
    /\ s \in Runs /\ s.status = status /\ s.failed_step = r.failed_step
    /\ \A m \in Nodes : SameWork(s.steps[m], r.steps[m])
    /\ \A m \in ActiveSteps(r) : /\ s.steps[m].status \in {"Failed", "Cancelled"}
                                 /\ ~s.steps[m].pending_permission
                                 /\ ~s.steps[m].pending_input
    /\ \A m \in Nodes \ ActiveSteps(r) :
        /\ s.steps[m].status = Dropped(r.steps[m].status)
        /\ s.steps[m].pending_permission = r.steps[m].pending_permission
        /\ s.steps[m].pending_input = r.steps[m].pending_input

LEMMA HaltFacts ==
    ASSUME NEW r \in Runs, NEW st \in RunStatus
    PROVE  Halted(r, [WithoutWaiting(Stopped(r, "Cancelled")) EXCEPT !.status = st], st)
  <1> DEFINE t == Stopped(r, "Cancelled")
             s == [WithoutWaiting(t) EXCEPT !.status = st]
  <1>1. /\ t \in Runs /\ t.status = r.status /\ t.failed_step = r.failed_step
        /\ \A m \in Nodes : SameWork(t.steps[m], r.steps[m])
        /\ \A m \in Nodes \ ActiveSteps(r) : t.steps[m] = r.steps[m]
        /\ \A m \in ActiveSteps(r) : /\ t.steps[m].status = "Cancelled"
                                     /\ ~t.steps[m].pending_permission
                                     /\ ~t.steps[m].pending_input
    BY StoppedFacts DEF StepStatus
  <1> HIDE DEF t
  <1>2. Shut(t, s, st)  BY <1>1, ShutFacts
  <1> HIDE DEF s
  <1>3. ActiveSteps(r) \subseteq Nodes  BY DEF ActiveSteps
  <1>4. Dropped("Cancelled") = "Cancelled"  BY DEF Dropped
  <1>5. Halted(r, s, st)
    BY <1>1, <1>2, <1>3, <1>4 DEF Shut, Halted, SameWork
  <1> QED  BY <1>5 DEF s, t

LEMMA AbortFacts ==
    ASSUME NEW r \in Runs
    PROVE  Halted(r, abort(r), "Failed")
  BY HaltFacts DEF abort, terminate_failed, RunStatus, Terminal

LEMMA CancelFacts ==
    ASSUME NEW r \in Runs
    PROVE  Halted(r, cancel(r), IF ActiveSteps(r) = {} THEN "Cancelled" ELSE "Cancelling")
  <1> DEFINE st == IF ActiveSteps(r) = {} THEN "Cancelled" ELSE "Cancelling"
  <1>1. st \in RunStatus  BY DEF RunStatus, Terminal
  <1> HIDE DEF st
  <1>2. Halted(r, [WithoutWaiting(Stopped(r, "Cancelled")) EXCEPT !.status = st], st)
    BY <1>1, HaltFacts
  <1> QED  BY <1>2 DEF cancel, st

LEMMA CompletedFacts ==
    ASSUME NEW r \in Runs
    PROVE  LET s == cancellation_completed(r)
           IN  /\ s \in Runs /\ s.status = "Cancelled" /\ s.steps = r.steps
               /\ s.failed_step = r.failed_step
  BY StatusFacts DEF cancellation_completed, RunStatus, Terminal

\* The attempts of steps that may run again are ready to.
Resumed(r, s) ==
    /\ s \in Runs /\ s.failed_step = r.failed_step /\ SettledFrom(r, s)
    /\ \A m \in Nodes : SameWork(s.steps[m], r.steps[m])
    /\ \A m \in Nodes \ ActiveSteps(r) : s.steps[m] = r.steps[m]
    /\ \A m \in ActiveSteps(r) : /\ s.steps[m].status = "Ready"
                                 /\ ~s.steps[m].pending_permission
                                 /\ ~s.steps[m].pending_input

LEMMA RecoverFacts ==
    ASSUME NEW r \in Runs
    PROVE  LET s == recover(r)
           IN  \/ r.status = "Cancelling" /\ s = cancellation_completed(r)
               \/ r.status # "Cancelling" /\ Indeterminate(r) = {} /\ Resumed(r, s)
               \/ r.status # "Cancelling" /\ Indeterminate(r) # {} /\ Halted(r, s, "Failed")
  <1> DEFINE t == Stopped(r, "Ready")
             s == recover(r)
             x(n) == [t.steps[n] EXCEPT !.status = "Failed", !.last_error = "other"]
             f == [n \in Nodes |-> IF n \in Indeterminate(r) THEN x(n) ELSE t.steps[n]]
             w == [t EXCEPT !.steps = f]
  <1>1. /\ t \in Runs /\ t.status = r.status /\ t.failed_step = r.failed_step
        /\ \A m \in Nodes : SameWork(t.steps[m], r.steps[m])
        /\ \A m \in Nodes \ ActiveSteps(r) : t.steps[m] = r.steps[m]
        /\ \A m \in ActiveSteps(r) : /\ t.steps[m].status = "Ready"
                                     /\ ~t.steps[m].pending_permission
                                     /\ ~t.steps[m].pending_input
    BY StoppedFacts DEF StepStatus
  <1>2. s = IF r.status = "Cancelling" THEN cancellation_completed(r)
            ELSE IF Indeterminate(r) = {} THEN settle(t) ELSE terminate_failed(w)
    BY DEF recover
  <1> HIDE DEF t, s, w
  <1>3. ActiveSteps(r) \subseteq Nodes /\ Indeterminate(r) \subseteq ActiveSteps(r)
    BY DEF ActiveSteps, Indeterminate
  <1>4. CASE r.status # "Cancelling" /\ Indeterminate(r) = {}
    <2>1. /\ settle(t) \in Runs /\ settle(t).steps = t.steps
          /\ settle(t).failed_step = t.failed_step /\ SettledFrom(t, settle(t))
      BY <1>1, SettleFacts
    <2>2. Resumed(r, s)
      BY <1>1, <1>2, <1>4, <2>1 DEF Resumed, SettledFrom
    <2> QED  BY <1>4, <2>2 DEF s
  <1>5. CASE r.status # "Cancelling" /\ Indeterminate(r) # {}
    <2>1. \A n \in Nodes : t.steps[n] \in Steps  BY <1>1 DEF Runs
    <2>2. \A n \in Nodes : /\ x(n) \in Steps /\ SameWork(x(n), t.steps[n])
                           /\ x(n).status = "Failed"
                           /\ x(n).pending_permission = t.steps[n].pending_permission
                           /\ x(n).pending_input = t.steps[n].pending_input
      BY <2>1 DEF Steps, StepStatus, SameWork
    <2> HIDE DEF x
    <2>3. /\ f \in [Nodes -> Steps]
          /\ \A n \in Nodes : f[n] = IF n \in Indeterminate(r) THEN x(n) ELSE t.steps[n]
      BY <2>1, <2>2
    <2> HIDE DEF f
    <2>4. w \in Runs /\ w.failed_step = t.failed_step /\ w.steps = f
      BY <1>1, <2>3, PutAll DEF w
    <2>5. Shut(w, s, "Failed")  BY <1>2, <1>5, <2>4, TerminateFacts
    <2>6. Dropped("Ready") = "Cancelled" /\ Dropped("Failed") = "Failed"  BY DEF Dropped
    <2>7. \A m \in Nodes : SameWork(w.steps[m], t.steps[m])
      BY <2>2, <2>3, <2>4 DEF SameWork
    <2>8. \A m \in ActiveSteps(r) : /\ w.steps[m].status \in {"Failed", "Ready"}
                                    /\ ~w.steps[m].pending_permission
                                    /\ ~w.steps[m].pending_input
      BY <1>1, <1>3, <2>2, <2>3, <2>4, ZenonT(60)
    <2>9. \A m \in Nodes \ ActiveSteps(r) : w.steps[m] = r.steps[m]
      BY <1>1, <1>3, <2>3, <2>4
    <2>10. \A m \in ActiveSteps(r) : s.steps[m].status \in {"Failed", "Cancelled"}
      BY <1>3, <2>5, <2>6, <2>8 DEF Shut
    <2>11. Halted(r, s, "Failed")
      BY <1>1, <1>3, <2>4, <2>5, <2>7, <2>8, <2>9, <2>10 DEF Shut, Halted, SameWork
    <2> QED  BY <1>5, <2>11 DEF s
  <1> QED  BY <1>2, <1>4, <1>5 DEF s

\* s is the failed run r opened again at a step, with what that step sends
\* back (span) to be made again.
Reopens(r, s, again, span) ==
    /\ s \in Runs /\ s.status = "Ready" /\ ~s.paused /\ s.failed_step = None
    /\ again \in Nodes /\ span \subseteq Nodes
    /\ \A m \in Nodes : /\ s.steps[m].attempts = r.steps[m].attempts
                        /\ s.steps[m].read = r.steps[m].read
                        /\ s.steps[m].output = IF m \in span THEN 0 ELSE r.steps[m].output
                        /\ s.steps[m].pending_permission = r.steps[m].pending_permission
                        /\ s.steps[m].pending_input = r.steps[m].pending_input
                        /\ s.steps[m].status =
                             IF m = again THEN "Ready"
                             ELSE IF m \in span \/ r.steps[m].status = "Skipped" THEN "Pending"
                             ELSE r.steps[m].status

LEMMA ReopenedFacts ==
    ASSUME NEW r \in Runs, r.failed_step # None
    PROVE  LET n == r.failed_step
           IN  \/ Reopens(r, Reopened(r), n, {})
               \/ /\ retry_target[n] # None
                  /\ Reopens(r, Reopened(r), retry_target[n], retry_spans[n])
  <1> DEFINE n == r.failed_step
             target == repair_target(r, n)
             again == IF target = None THEN n ELSE target
             span == IF target = None THEN {} ELSE retry_spans[n]
             out(m) == IF m \in span THEN 0 ELSE r.steps[m].output
             x(m) == [r.steps[m] EXCEPT !.status = "Ready", !.retry_base = r.steps[m].attempts,
                                        !.output = out(m)]
             y(m) == [r.steps[m] EXCEPT !.status = "Pending", !.output = 0, !.checkpoint = FALSE]
             z(m) == [r.steps[m] EXCEPT !.status = "Pending"]
             f == [m \in Nodes |-> IF m = again THEN x(m) ELSE IF m \in span THEN y(m)
                                   ELSE IF r.steps[m].status = "Skipped" THEN z(m) ELSE r.steps[m]]
             s == Reopened(r)
  <1>1. s = [r EXCEPT !.status = "Ready", !.paused = FALSE, !.failed_step = None,
                      !.verification_failed = FALSE, !.steps = f]
    BY Zenon DEF Reopened
  <1>2. n \in Nodes  BY DEF Runs
  <1>3. \/ target = None
        \/ target = retry_target[n] /\ retry_target[n] # None
    BY DEF repair_target
  <1>4. \A m \in Nodes : r.steps[m] \in Steps  BY DEF Runs
  <1>5. \A m \in Nodes : out(m) \in Nat  BY <1>4 DEF Steps
  <1> HIDE DEF s, out, span, again
  <1>6. again \in Nodes /\ span \subseteq Nodes
    BY <1>2, <1>3, SpanFacts DEF again, span
  <1>7. \A m \in Nodes : /\ x(m) \in Steps /\ x(m).status = "Ready" /\ x(m).output = out(m)
                         /\ x(m).attempts = r.steps[m].attempts /\ x(m).read = r.steps[m].read
                         /\ x(m).pending_permission = r.steps[m].pending_permission
                         /\ x(m).pending_input = r.steps[m].pending_input
    BY <1>4, <1>5 DEF Steps, StepStatus
  <1>8. \A m \in Nodes : /\ y(m) \in Steps /\ y(m).status = "Pending" /\ y(m).output = 0
                         /\ y(m).attempts = r.steps[m].attempts /\ y(m).read = r.steps[m].read
                         /\ y(m).pending_permission = r.steps[m].pending_permission
                         /\ y(m).pending_input = r.steps[m].pending_input
    BY <1>4 DEF Steps, StepStatus
  <1>9. \A m \in Nodes : /\ z(m) \in Steps /\ z(m).status = "Pending"
                         /\ z(m).output = r.steps[m].output
                         /\ z(m).attempts = r.steps[m].attempts /\ z(m).read = r.steps[m].read
                         /\ z(m).pending_permission = r.steps[m].pending_permission
                         /\ z(m).pending_input = r.steps[m].pending_input
    BY <1>4 DEF Steps, StepStatus
  <1> HIDE DEF x, y, z
  <1>10. /\ f \in [Nodes -> Steps]
         /\ \A m \in Nodes : f[m] = IF m = again THEN x(m) ELSE IF m \in span THEN y(m)
                                    ELSE IF r.steps[m].status = "Skipped" THEN z(m) ELSE r.steps[m]
    BY <1>4, <1>7, <1>8, <1>9
  <1> HIDE DEF f
  <1>11. /\ s \in Runs /\ s.status = "Ready" /\ s.failed_step = None /\ s.steps = f
    BY <1>1, <1>10 DEF Runs, RunStatus
  <1>12. ~s.paused
    BY <1>1 DEF Runs
  <1>13. \A m \in Nodes : /\ s.steps[m].attempts = r.steps[m].attempts
                          /\ s.steps[m].read = r.steps[m].read
                          /\ s.steps[m].pending_permission = r.steps[m].pending_permission
                          /\ s.steps[m].pending_input = r.steps[m].pending_input
    <2> TAKE m \in Nodes
    <2>1. s.steps[m] \in {x(m), y(m), z(m), r.steps[m]}  BY <1>10, <1>11
    <2> QED  BY <1>7, <1>8, <1>9, <2>1
  <1>14. \A m \in Nodes : /\ s.steps[m].output = IF m \in span THEN 0 ELSE r.steps[m].output
                          /\ s.steps[m].status =
                               IF m = again THEN "Ready"
                               ELSE IF m \in span \/ r.steps[m].status = "Skipped" THEN "Pending"
                               ELSE r.steps[m].status
    <2> TAKE m \in Nodes
    <2>1. s.steps[m] = IF m = again THEN x(m) ELSE IF m \in span THEN y(m)
                       ELSE IF r.steps[m].status = "Skipped" THEN z(m) ELSE r.steps[m]
      BY <1>10, <1>11
    <2>2. CASE m = again  BY <1>7, <2>1, <2>2 DEF out
    <2>3. CASE m # again /\ m \in span  BY <1>8, <2>1, <2>3
    <2>4. CASE m # again /\ m \notin span /\ r.steps[m].status = "Skipped"  BY <1>9, <2>1, <2>4
    <2>5. CASE m # again /\ m \notin span /\ r.steps[m].status # "Skipped"  BY <2>1, <2>5
    <2> QED  BY <2>2, <2>3, <2>4, <2>5
  <1>15. Reopens(r, s, again, span)
    BY <1>6, <1>11, <1>12, <1>13, <1>14 DEF Reopens
  <1> QED  BY <1>3, <1>15 DEF again, span, s

-----------------------------------------------------------------------------
(* What the commands preserve *)

Sound(r) == r \in Runs /\ FrontInv(r) /\ FlagInv(r)
GoesOn(r) == r.status \notin Closing \cup {"Created"}
SameAttempts(r, s) == \A m \in Nodes : s.steps[m].attempts = r.steps[m].attempts

\* A run with one step to go on with.
LEMMA Forward ==
    ASSUME NEW s \in Runs, NEW n \in Nodes, s.failed_step = None, Settled(s),
           s.steps[n].status \in FrontStatus,
           \A m \in Nodes \ {n} : s.steps[m].status \notin FrontStatus
    PROVE  /\ FrontInv(s) /\ GoesOn(s) /\ Front(s) = {n}
           /\ ActiveSteps(s) = IF s.steps[n].status \in ActiveStatus THEN {n} ELSE {}
  <1>1. Front(s) = {n}  BY DEF Front
  <1>2. ActiveSteps(s) = IF s.steps[n].status \in ActiveStatus THEN {n} ELSE {}
    BY DEF ActiveSteps, FrontStatus
  <1>3. GoesOn(s)
    BY DEF Settled, GoesOn, Closing, Terminal, ActiveStatus
  <1> QED  BY <1>1, <1>2, <1>3 DEF FrontInv, GoesOn

LEMMA Shutdown ==
    ASSUME NEW s \in Runs, s.status \in Closing, s.failed_step = None,
           \A m \in Nodes : s.steps[m].status \notin ActiveStatus
    PROVE  FrontInv(s) /\ ActiveSteps(s) = {} /\ ~GoesOn(s)
  <1>1. ActiveSteps(s) = {}  BY DEF ActiveSteps
  <1> QED  BY <1>1 DEF FrontInv, GoesOn, Closing, Terminal

\* A run that goes on has not failed, and its active step is its only front.
LEMMA GoingOn ==
    ASSUME NEW r, Sound(r), GoesOn(r)
    PROVE  /\ r.failed_step = None /\ r.status \notin Closing /\ Settled(r)
           /\ \A n \in Nodes : r.steps[n] \in Steps
           /\ \A n \in Front(r) : n \in Nodes
           /\ \A n \in Front(r) : \A m \in Nodes \ {n} : r.steps[m].status \notin FrontStatus
           /\ ActiveSteps(r) \subseteq Front(r)
           /\ \A n \in ActiveSteps(r) : ActiveSteps(r) = {n}
           /\ Front(r) # {}
  <1>1. PICK f \in Nodes : Front(r) = {f}  BY DEF Sound, FrontInv, GoesOn
  <1>2. r.failed_step = None /\ r.status \notin Closing /\ Settled(r)
    BY DEF Sound, FrontInv, GoesOn, Closing, Terminal
  <1>3. ActiveSteps(r) \subseteq Front(r)  BY DEF ActiveSteps, Front, FrontStatus
  <1>4. \A n \in Front(r) : \A m \in Nodes \ {n} : r.steps[m].status \notin FrontStatus
    BY <1>1 DEF Front
  <1>5. \A n \in Nodes : r.steps[n] \in Steps  BY DEF Sound, Runs
  <1>6. \A n \in ActiveSteps(r) : ActiveSteps(r) = {n}
    BY <1>1, <1>3
  <1> QED  BY <1>1, <1>2, <1>3, <1>4, <1>5, <1>6

\* The step the run goes on with changes its status.
LEMMA MarkedSound ==
    ASSUME NEW r, NEW s, NEW n, NEW st \in FrontStatus, NEW p \in BOOLEAN, NEW i \in BOOLEAN,
           Sound(r), GoesOn(r), n \in Front(r), Marked(r, s, n, st, p, i), SettledFrom(r, s),
           p <=> st = "WaitingForPermission", i <=> st = "WaitingForInput"
    PROVE  /\ Sound(s) /\ GoesOn(s) /\ Front(s) = {n} /\ SameAttempts(r, s)
           /\ ActiveSteps(s) = IF st \in ActiveStatus THEN {n} ELSE {}
  <1>1. /\ n \in Nodes /\ r.failed_step = None /\ r.status \notin Closing
        /\ \A m \in Nodes \ {n} : r.steps[m].status \notin FrontStatus
    BY GoingOn
  <1>2. /\ s \in Runs /\ s.failed_step = None /\ Settled(s) /\ s.steps[n].status = st
        /\ \A m \in Nodes \ {n} : s.steps[m] = r.steps[m]
        /\ s.steps[n].attempts = r.steps[n].attempts
    BY <1>1 DEF Marked, SettledFrom
  <1>3. /\ FrontInv(s) /\ GoesOn(s) /\ Front(s) = {n}
        /\ ActiveSteps(s) = IF st \in ActiveStatus THEN {n} ELSE {}
    BY <1>1, <1>2, Forward
  <1>4. s.steps[n].pending_permission = p /\ s.steps[n].pending_input = i
    BY DEF Marked
  <1>5. FlagInv(s)
    BY <1>2, <1>4 DEF Sound, FlagInv
  <1>6. SameAttempts(r, s)  BY <1>2 DEF SameAttempts
  <1> QED  BY <1>2, <1>3, <1>5, <1>6 DEF Sound

LEMMA StartSound ==
    ASSUME NEW r, Sound(r), r.status = "Created"
    PROVE  LET s == start(r)
           IN  Sound(s) /\ GoesOn(s) /\ ActiveSteps(s) = {} /\ SameAttempts(r, s)
  <1> DEFINE s == start(r)
             n == entry_node
  <1>1. /\ Marked(r, s, n, "Ready", r.steps[n].pending_permission, r.steps[n].pending_input)
        /\ SettledFrom(r, s) /\ n \in Nodes
    BY StartFacts, EntryNode DEF Sound
  <1> HIDE DEF s, n
  <1>2. /\ r.failed_step = None /\ r.status \notin Closing
        /\ \A m \in Nodes : r.steps[m].status \notin FrontStatus
    BY DEF Sound, FrontInv, Front, Closing, Terminal
  <1>3. /\ s \in Runs /\ s.failed_step = None /\ Settled(s) /\ s.steps[n].status = "Ready"
        /\ \A m \in Nodes \ {n} : s.steps[m] = r.steps[m]
        /\ s.steps[n].attempts = r.steps[n].attempts
    BY <1>1, <1>2 DEF Marked, SettledFrom
  <1>4. /\ FrontInv(s) /\ GoesOn(s) /\ ActiveSteps(s) = {}
    BY <1>1, <1>2, <1>3, Forward DEF FrontStatus, ActiveStatus
  <1>5. ~r.steps[n].pending_permission /\ ~r.steps[n].pending_input
    BY <1>1, <1>2 DEF Sound, FlagInv, FrontStatus, ActiveStatus
  <1>6. ~s.steps[n].pending_permission /\ ~s.steps[n].pending_input
    BY <1>1, <1>5 DEF Marked
  <1>7. FlagInv(s)
    BY <1>3, <1>6 DEF Sound, FlagInv
  <1>8. SameAttempts(r, s)  BY <1>3 DEF SameAttempts
  <1> QED  BY <1>3, <1>4, <1>7, <1>8 DEF Sound, s

LEMMA RetrySound ==
    ASSUME NEW r, NEW n \in Nodes, Sound(r), GoesOn(r), r.steps[n].status = "RetryScheduled"
    PROVE  LET s == retry(r, n)
           IN  Sound(s) /\ GoesOn(s) /\ ActiveSteps(s) = {} /\ SameAttempts(r, s)
  <1> DEFINE s == retry(r, n)
  <1>1. /\ Marked(r, s, n, "Ready", r.steps[n].pending_permission, r.steps[n].pending_input)
        /\ SettledFrom(r, s)
    BY RetryFacts DEF Sound
  <1>2. r.steps[n].pending_permission = FALSE /\ r.steps[n].pending_input = FALSE
    <2>1. r.steps[n] \in Steps  BY DEF Sound, Runs
    <2> QED  BY <2>1 DEF Sound, FlagInv, Steps
  <1>3. n \in Front(r) /\ "Ready" \in FrontStatus /\ "Ready" \notin ActiveStatus
    BY DEF Front, FrontStatus, ActiveStatus
  <1>4. Marked(r, s, n, "Ready", FALSE, FALSE)  BY <1>1, <1>2
  <1> HIDE DEF s
  <1> QED  BY <1>1, <1>3, <1>4, MarkedSound DEF s

LEMMA AdmitSound ==
    ASSUME NEW r, NEW n \in Nodes, Sound(r), GoesOn(r), r.steps[n].status = "Ready"
    PROVE  LET s == admit(r, n)
           IN  /\ Sound(s) /\ s.failed_step = None
               /\ \A m \in Nodes \ {n} : s.steps[m].attempts = r.steps[m].attempts
               /\ \/ s.status = "Failed" /\ ActiveSteps(s) = {}
                     /\ s.steps[n].attempts = r.steps[n].attempts
                  \/ s.status # "Failed" /\ GoesOn(s) /\ ActiveSteps(s) = {n}
                     /\ s.steps[n].status = "Running"
                     /\ s.steps[n].attempts = r.steps[n].attempts + 1
  <1> DEFINE s == admit(r, n)
  <1>0. r \in Runs  BY DEF Sound
  <1>1. Shut(r, s, "Failed") \/ Admitted(r, s, n)
    BY <1>0, AdmitFacts
  <1> HIDE DEF s
  <1>2. n \in Front(r)  BY DEF Front, FrontStatus
  <1>3. /\ r.failed_step = None /\ r.status \notin Closing
        /\ \A m \in Nodes \ {n} : r.steps[m].status \notin FrontStatus
    BY <1>2, GoingOn
  <1>4. CASE Shut(r, s, "Failed")
    <2>1. /\ s \in Runs /\ s.status = "Failed" /\ s.failed_step = None
          /\ \A m \in Nodes : s.steps[m].attempts = r.steps[m].attempts
      BY <1>3, <1>4 DEF Shut, SameWork
    <2>2. \A m \in Nodes : s.steps[m].status = Dropped(r.steps[m].status)
      BY <1>4 DEF Shut
    <2>3. \A m \in Nodes : s.steps[m].status \notin ActiveStatus
      BY <1>3, <2>2 DEF Dropped, ActiveStatus, FrontStatus
    <2>4. FrontInv(s) /\ ActiveSteps(s) = {}
      BY <2>1, <2>3, Shutdown DEF Closing, Terminal
    <2>5. FlagInv(s)
      BY <1>3, <1>4, <2>3 DEF Shut, FlagInv, Sound, ActiveStatus, FrontStatus
    <2> QED  BY <2>1, <2>4, <2>5 DEF Sound, s
  <1>5. CASE Admitted(r, s, n)
    <2>1. /\ s \in Runs /\ s.failed_step = None /\ Settled(s) /\ s.steps[n].status = "Running"
          /\ \A m \in Nodes \ {n} : s.steps[m] = r.steps[m]
          /\ s.steps[n].attempts = r.steps[n].attempts + 1
      BY <1>3, <1>5 DEF Admitted, SettledFrom
    <2>2. /\ FrontInv(s) /\ GoesOn(s) /\ ActiveSteps(s) = {n}
      BY <1>3, <2>1, Forward DEF FrontStatus, ActiveStatus
    <2>3. FlagInv(s)
      BY <1>5, <2>1, ZenonT(60) DEF Admitted, Sound, FlagInv
    <2> QED  BY <2>1, <2>2, <2>3 DEF Sound, s, GoesOn, Closing, Terminal
  <1> QED  BY <1>1, <1>4, <1>5

LEMMA PermissionRequiredSound ==
    ASSUME NEW r, NEW n \in ActiveSteps(r), Sound(r), GoesOn(r), r.steps[n].status = "Running"
    PROVE  LET s == permission_required(r, n)
           IN  /\ Sound(s) /\ GoesOn(s) /\ ActiveSteps(s) = {n} /\ SameAttempts(r, s)
               /\ s.steps[n].status = "WaitingForPermission"
  <1> DEFINE s == permission_required(r, n)
  <1>1. n \in Nodes /\ n \in Front(r)  BY DEF ActiveSteps, Front, FrontStatus
  <1>2. Marked(r, s, n, "WaitingForPermission", TRUE, r.steps[n].pending_input) /\ SettledFrom(r, s)
    BY <1>1, PermissionRequiredFacts DEF Sound
  <1>3. r.steps[n].pending_input = FALSE
    <2>1. r.steps[n] \in Steps  BY <1>1 DEF Sound, Runs
    <2> QED  BY <1>1, <2>1 DEF Sound, FlagInv, Steps
  <1>4. Marked(r, s, n, "WaitingForPermission", TRUE, FALSE)  BY <1>2, <1>3
  <1> HIDE DEF s
  <1>5. s.steps[n].status = "WaitingForPermission"  BY <1>4 DEF Marked
  <1> QED  BY <1>1, <1>2, <1>4, <1>5, MarkedSound DEF s, FrontStatus, ActiveStatus

LEMMA PermissionResolvedSound ==
    ASSUME NEW r, NEW n \in ActiveSteps(r), Sound(r), GoesOn(r),
           r.steps[n].status = "WaitingForPermission"
    PROVE  LET s == permission_resolved(r, n)
           IN  /\ Sound(s) /\ GoesOn(s) /\ ActiveSteps(s) = {n} /\ SameAttempts(r, s)
               /\ s.steps[n].status = "Running"
  <1> DEFINE s == permission_resolved(r, n)
  <1>1. n \in Nodes /\ n \in Front(r)  BY DEF ActiveSteps, Front, FrontStatus
  <1>2. Marked(r, s, n, "Running", FALSE, r.steps[n].pending_input) /\ SettledFrom(r, s)
    BY <1>1, PermissionResolvedFacts DEF Sound
  <1>3. r.steps[n].pending_input = FALSE
    <2>1. r.steps[n] \in Steps  BY <1>1 DEF Sound, Runs
    <2> QED  BY <1>1, <2>1 DEF Sound, FlagInv, Steps
  <1>4. Marked(r, s, n, "Running", FALSE, FALSE)  BY <1>2, <1>3
  <1> HIDE DEF s
  <1>5. s.steps[n].status = "Running"  BY <1>4 DEF Marked
  <1> QED  BY <1>1, <1>2, <1>4, <1>5, MarkedSound DEF s, FrontStatus, ActiveStatus

LEMMA InputRequiredSound ==
    ASSUME NEW r, NEW n \in ActiveSteps(r), Sound(r), GoesOn(r), r.steps[n].status = "Running"
    PROVE  LET s == input_required(r, n)
           IN  /\ Sound(s) /\ GoesOn(s) /\ ActiveSteps(s) = {n} /\ SameAttempts(r, s)
               /\ s.steps[n].status = "WaitingForInput"
  <1> DEFINE s == input_required(r, n)
  <1>1. n \in Nodes /\ n \in Front(r)  BY DEF ActiveSteps, Front, FrontStatus
  <1>2. Marked(r, s, n, "WaitingForInput", r.steps[n].pending_permission, TRUE) /\ SettledFrom(r, s)
    BY <1>1, InputRequiredFacts DEF Sound
  <1>3. r.steps[n].pending_permission = FALSE
    <2>1. r.steps[n] \in Steps  BY <1>1 DEF Sound, Runs
    <2> QED  BY <1>1, <2>1 DEF Sound, FlagInv, Steps
  <1>4. Marked(r, s, n, "WaitingForInput", FALSE, TRUE)  BY <1>2, <1>3
  <1> HIDE DEF s
  <1>5. s.steps[n].status = "WaitingForInput"  BY <1>4 DEF Marked
  <1> QED  BY <1>1, <1>2, <1>4, <1>5, MarkedSound DEF s, FrontStatus, ActiveStatus

LEMMA InputResolvedSound ==
    ASSUME NEW r, NEW n \in ActiveSteps(r), Sound(r), GoesOn(r),
           r.steps[n].status = "WaitingForInput"
    PROVE  LET s == input_resolved(r, n)
           IN  /\ Sound(s) /\ GoesOn(s) /\ ActiveSteps(s) = {n} /\ SameAttempts(r, s)
               /\ s.steps[n].status = "Running"
  <1> DEFINE s == input_resolved(r, n)
  <1>1. n \in Nodes /\ n \in Front(r)  BY DEF ActiveSteps, Front, FrontStatus
  <1>3. r.steps[n].pending_permission = FALSE
    <2>1. r.steps[n] \in Steps  BY <1>1 DEF Sound, Runs
    <2> QED  BY <1>1, <2>1 DEF Sound, FlagInv, Steps
  <1>2. Marked(r, s, n, "Running", r.steps[n].pending_permission, FALSE) /\ SettledFrom(r, s)
    BY <1>1, <1>3, InputResolvedFacts DEF Sound
  <1>4. Marked(r, s, n, "Running", FALSE, FALSE)  BY <1>2, <1>3
  <1> HIDE DEF s
  <1>5. s.steps[n].status = "Running"  BY <1>4 DEF Marked
  <1> QED  BY <1>1, <1>2, <1>4, <1>5, MarkedSound DEF s, FrontStatus, ActiveStatus

\* A change that leaves every status alone.
LEMMA SameStatusSound ==
    ASSUME NEW r, NEW s \in Runs, Sound(r), s.failed_step = r.failed_step,
           \/ s.status = r.status /\ s.paused = r.paused
           \/ SettledFrom(r, s) /\ r.status # "Created",
           \A m \in Nodes : /\ s.steps[m].status = r.steps[m].status
                            /\ s.steps[m].pending_permission = r.steps[m].pending_permission
                            /\ s.steps[m].pending_input = r.steps[m].pending_input
    PROVE  /\ Sound(s) /\ ActiveSteps(s) = ActiveSteps(r) /\ (GoesOn(s) <=> GoesOn(r))
           /\ r.status \in Closing => s.status = r.status
  <1>1. ActiveSteps(s) = ActiveSteps(r) /\ Front(s) = Front(r)  BY DEF ActiveSteps, Front
  <1>2. FlagInv(s)  BY DEF Sound, FlagInv
  <1>3. CASE s.status = r.status /\ s.paused = r.paused
    <2>1. FrontInv(s)  BY <1>1, <1>3 DEF Sound, FrontInv, Settled
    <2> QED  BY <1>1, <1>2, <1>3, <2>1 DEF Sound, GoesOn
  <1>4. CASE SettledFrom(r, s) /\ r.status # "Created"
    <2>1. CASE r.status \in Closing
      <3>1. s.status = r.status  BY <1>4, <2>1 DEF SettledFrom
      <3>2. FrontInv(s)  BY <1>1, <2>1, <3>1 DEF Sound, FrontInv, Closing, Terminal
      <3> QED  BY <1>1, <1>2, <3>1, <3>2 DEF Sound, GoesOn
    <2>2. CASE r.status \notin Closing
      <3>1. Settled(s) /\ GoesOn(r)  BY <1>4, <2>2 DEF SettledFrom, GoesOn
      <3>2. GoesOn(s)  BY <3>1 DEF Settled, GoesOn, Closing, Terminal, ActiveStatus
      <3>3. FrontInv(s)
        BY <1>1, <3>1, <3>2, GoingOn DEF Sound, FrontInv, GoesOn
      <3> QED  BY <1>1, <1>2, <2>2, <3>1, <3>2, <3>3 DEF Sound
    <2> QED  BY <2>1, <2>2
  <1> QED  BY <1>3, <1>4

LEMMA CheckpointSound ==
    ASSUME NEW r, NEW n \in Nodes, Sound(r)
    PROVE  LET s == record_checkpoint(r, n)
           IN  /\ Sound(s) /\ ActiveSteps(s) = ActiveSteps(r) /\ s.status = r.status
               /\ SameAttempts(r, s) /\ \A m \in Nodes : s.steps[m].status = r.steps[m].status
  <1> DEFINE s == record_checkpoint(r, n)
  <1>1. /\ s \in Runs /\ s.status = r.status /\ s.failed_step = r.failed_step
        /\ s.paused = r.paused
        /\ \A m \in Nodes : /\ SameWork(s.steps[m], r.steps[m])
                            /\ s.steps[m].status = r.steps[m].status
                            /\ s.steps[m].pending_permission = r.steps[m].pending_permission
                            /\ s.steps[m].pending_input = r.steps[m].pending_input
    BY CheckpointFacts DEF Sound
  <1> HIDE DEF s
  <1>2. Sound(s) /\ ActiveSteps(s) = ActiveSteps(r)  BY <1>1, SameStatusSound
  <1>3. SameAttempts(r, s)  BY <1>1 DEF SameAttempts, SameWork
  <1> QED  BY <1>1, <1>2, <1>3 DEF s

LEMMA PauseSound ==
    ASSUME NEW r, NEW p \in BOOLEAN, Sound(r), r.status # "Created"
    PROVE  LET s == settle([r EXCEPT !.paused = p])
           IN  /\ Sound(s) /\ ActiveSteps(s) = ActiveSteps(r) /\ (GoesOn(s) <=> GoesOn(r))
               /\ r.status \in Closing => s.status = r.status
               /\ s.steps = r.steps /\ s.failed_step = r.failed_step
  <1> DEFINE s == settle([r EXCEPT !.paused = p])
  <1>1. /\ s \in Runs /\ s.steps = r.steps /\ s.failed_step = r.failed_step
        /\ SettledFrom(r, s)
    BY PauseFacts DEF Sound
  <1> HIDE DEF s
  <1>2. /\ Sound(s) /\ ActiveSteps(s) = ActiveSteps(r) /\ (GoesOn(s) <=> GoesOn(r))
        /\ r.status \in Closing => s.status = r.status
    BY <1>1, SameStatusSound
  <1> QED  BY <1>1, <1>2 DEF s

LEMMA HaltedSound ==
    ASSUME NEW r, NEW s, NEW st \in Closing, Sound(r), r.failed_step = None, Halted(r, s, st)
    PROVE  /\ Sound(s) /\ ActiveSteps(s) = {} /\ s.failed_step = None /\ s.status = st
           /\ ~GoesOn(s) /\ SameAttempts(r, s)
  <1>1. s \in Runs /\ s.failed_step = None /\ s.status = st /\ SameAttempts(r, s)
    BY DEF Halted, SameAttempts, SameWork
  <1>2. \A m \in Nodes : s.steps[m].status \notin ActiveStatus
    <2> TAKE m \in Nodes
    <2>1. CASE m \in ActiveSteps(r)  BY <2>1 DEF Halted, ActiveStatus
    <2>2. CASE m \notin ActiveSteps(r)
      <3>1. s.steps[m].status = Dropped(r.steps[m].status) /\ r.steps[m].status \notin ActiveStatus
        BY <2>2 DEF Halted, ActiveSteps
      <3> QED  BY <3>1 DEF Dropped, ActiveStatus
    <2> QED  BY <2>1, <2>2
  <1>3. FrontInv(s) /\ ActiveSteps(s) = {} /\ ~GoesOn(s)
    BY <1>1, <1>2, Shutdown
  <1>4. FlagInv(s)
    <2> SUFFICES ASSUME NEW m \in Nodes
                 PROVE  ~s.steps[m].pending_permission /\ ~s.steps[m].pending_input
      BY <1>2 DEF FlagInv, ActiveStatus
    <2>1. CASE m \in ActiveSteps(r)  BY <2>1 DEF Halted
    <2>2. CASE m \notin ActiveSteps(r)
      <3>1. ~r.steps[m].pending_permission /\ ~r.steps[m].pending_input
        BY <2>2 DEF ActiveSteps, ActiveStatus, Sound, FlagInv
      <3> QED  BY <2>2, <3>1 DEF Halted
    <2> QED  BY <2>1, <2>2
  <1> QED  BY <1>1, <1>3, <1>4 DEF Sound

LEMMA CompletedSound ==
    ASSUME NEW r, Sound(r), r.status = "Cancelling"
    PROVE  LET s == cancellation_completed(r)
           IN  /\ Sound(s) /\ ActiveSteps(s) = {} /\ s.failed_step = None
               /\ s.status = "Cancelled" /\ SameAttempts(r, s)
  <1> DEFINE s == cancellation_completed(r)
  <1>1. s \in Runs /\ s.status = "Cancelled" /\ s.steps = r.steps /\ s.failed_step = r.failed_step
    BY CompletedFacts DEF Sound
  <1> HIDE DEF s
  <1>2. r.failed_step = None /\ ActiveSteps(r) = {}
    BY DEF Sound, FrontInv, Closing, Terminal
  <1>3. FrontInv(s) /\ ActiveSteps(s) = {}
    BY <1>1, <1>2, Shutdown DEF ActiveSteps, Closing, Terminal
  <1>4. FlagInv(s)  BY <1>1 DEF Sound, FlagInv
  <1> QED  BY <1>1, <1>2, <1>3, <1>4 DEF Sound, SameAttempts, s

LEMMA SucceedSound ==
    ASSUME NEW r, NEW n \in ActiveSteps(r), NEW used \in Nat, Sound(r), GoesOn(r),
           r.steps[n].status = "Running",
           kind[n] = "Output" \/ CanActivate(r, OnSuccess[n])
    PROVE  LET s == succeed(r, n, used)
           IN  /\ Sound(s) /\ ActiveSteps(s) = {} /\ SameAttempts(r, s) /\ s.failed_step = None
               /\ GoesOn(s) \/ s.status = "Completed"
  <1> DEFINE s == succeed(r, n, used)
             k == OnSuccess[n]
  <1>1. /\ n \in Nodes /\ n \in Front(r) /\ r.failed_step = None /\ r.status \notin Closing
        /\ \A m \in Nodes \ {n} : r.steps[m].status \notin FrontStatus
    <2>1. n \in Nodes /\ n \in Front(r)  BY DEF ActiveSteps, Front, FrontStatus
    <2> QED  BY <2>1, GoingOn
  <1>2. k # n
    BY <1>1, DefinitionAssumption DEF CanActivate
  <1>3. /\ Done(r, s, n)
        /\ \A m \in Nodes \ {n, k} : s.steps[m] = r.steps[m]
        /\ kind[n] = "Output" => s.status = "Completed"
        /\ kind[n] # "Output" =>
             /\ k \in Nodes /\ SettledFrom(r, s) /\ s.steps[k].status = "Ready"
             /\ SameWork(s.steps[k], r.steps[k])
             /\ s.steps[k].pending_permission = r.steps[k].pending_permission
             /\ s.steps[k].pending_input = r.steps[k].pending_input
    BY <1>1, <1>2, SucceedFacts DEF Sound
  <1> HIDE DEF s
  <1>4. kind[n] = "Output" => k \notin Nodes  BY <1>1, DefinitionAssumption
  <1>5. s \in Runs /\ s.failed_step = None /\ s.steps[n].status = "Succeeded"
    BY <1>1, <1>3 DEF Done
  <1>6. SameAttempts(r, s)
    BY <1>3, <1>4 DEF SameAttempts, Done, SameWork
  <1>7. \A m \in Nodes : /\ s.steps[m].pending_permission = r.steps[m].pending_permission
                         /\ s.steps[m].pending_input = r.steps[m].pending_input
    BY <1>3, <1>4 DEF Done
  <1>8. ~r.steps[n].pending_permission /\ ~r.steps[n].pending_input
    BY <1>1 DEF Sound, FlagInv
  <1>9. CASE kind[n] = "Output"
    <2>1. \A m \in Nodes : s.steps[m].status \notin ActiveStatus
      BY <1>1, <1>3, <1>4, <1>5, <1>9 DEF FrontStatus, ActiveStatus
    <2>2. FrontInv(s) /\ ActiveSteps(s) = {}
      BY <1>3, <1>5, <1>9, <2>1, Shutdown DEF Closing, Terminal
    <2>3. \A m \in Nodes \ {n} : s.steps[m] = r.steps[m]  BY <1>3, <1>4, <1>9
    <2>4. FlagInv(s)
      BY <1>5, <1>7, <1>8, <2>3 DEF Sound, FlagInv
    <2> QED  BY <1>3, <1>5, <1>6, <1>9, <2>2, <2>4 DEF Sound, s
  <1>10. CASE kind[n] # "Output"
    <2>1. k \in Nodes /\ Settled(s) /\ s.steps[k].status = "Ready"
      BY <1>1, <1>3, <1>10 DEF SettledFrom
    <2>2. \A m \in Nodes \ {k} : s.steps[m].status \notin FrontStatus
      BY <1>1, <1>3, <1>5 DEF FrontStatus, ActiveStatus
    <2>3. FrontInv(s) /\ GoesOn(s) /\ ActiveSteps(s) = {}
      BY <1>5, <2>1, <2>2, Forward DEF FrontStatus, ActiveStatus
    <2>4. r.steps[k].status = "Pending"  BY <1>10 DEF CanActivate
    <2>5. FlagInv(s)
      BY <1>3, <1>5, <1>7, <1>8, <2>1, <2>4, ZenonT(60) DEF Sound, FlagInv
    <2> QED  BY <1>5, <1>6, <2>3, <2>5 DEF Sound, s
  <1> QED  BY <1>9, <1>10

LEMMA FailSound ==
    ASSUME NEW r, NEW n \in ActiveSteps(r), NEW used \in Nat, NEW error \in Errors,
           Sound(r), GoesOn(r), OnFailure[n] # None => CanActivate(r, OnFailure[n])
    PROVE  LET s == fail(r, n, error, used)
           IN  /\ Sound(s) /\ ActiveSteps(s) = {} /\ SameAttempts(r, s)
               /\ \/ GoesOn(s) /\ s.failed_step = None
                  \/ s.status = "Failed" /\ s.failed_step = n
  <1> DEFINE s == fail(r, n, error, used)
  <1>1. /\ n \in Nodes /\ n \in Front(r) /\ r.failed_step = None /\ r.status \notin Closing
        /\ \A m \in Nodes \ {n} : r.steps[m].status \notin FrontStatus
    <2>1. n \in Nodes /\ n \in Front(r)  BY DEF ActiveSteps, Front, FrontStatus
    <2> QED  BY <2>1, GoingOn
  <1>2. OnFailure[n] # n
    <2>1. CASE OnFailure[n] = None  BY <1>1, <2>1, DefinitionAssumption
    <2>2. CASE OnFailure[n] # None  BY <2>2 DEF CanActivate, ActiveSteps, ActiveStatus
    <2> QED  BY <2>1, <2>2
  <1>3. \/ RetriesSame(r, s, n)
        \/ GoesBack(r, s, n)
        \/ TakesFailureEdge(r, s, n)
        \/ FailsAt(r, s, n)
    BY <1>1, <1>2, FailFacts DEF Sound
  <1> HIDE DEF s
  <1>4. \A m \in Nodes \ {n} : ~r.steps[m].pending_permission /\ ~r.steps[m].pending_input
    BY <1>1 DEF Sound, FlagInv, FrontStatus, ActiveStatus
  <1>5. CASE RetriesSame(r, s, n)
    <2>1. /\ Sound(s) /\ GoesOn(s) /\ SameAttempts(r, s)
          /\ ActiveSteps(s) = {}
      <3>1. "RetryScheduled" \in FrontStatus /\ "RetryScheduled" \notin ActiveStatus
        BY DEF FrontStatus, ActiveStatus
      <3>2. Marked(r, s, n, "RetryScheduled", FALSE, FALSE) /\ SettledFrom(r, s)
        BY <1>5 DEF RetriesSame
      <3> QED  BY <1>1, <3>1, <3>2, MarkedSound
    <2>2. s.failed_step = None  BY <1>1, <1>5 DEF RetriesSame, Marked
    <2> QED  BY <2>1, <2>2 DEF s
  <1>6. CASE GoesBack(r, s, n)
    <2> DEFINE t == retry_target[n]
               span == retry_spans[n]
    <2>1. /\ t \in Nodes /\ t \in span /\ n \in span /\ span \subseteq Nodes /\ t # n
      BY <1>1, <1>6, SpanFacts DEF GoesBack
    <2>2. s \in Runs /\ s.failed_step = None /\ Settled(s) /\ s.steps[t].status = "RetryScheduled"
      BY <1>1, <1>6, <2>1 DEF GoesBack, SettledFrom
    <2>3. \A m \in Nodes \ {t} : s.steps[m].status \notin FrontStatus
      BY <1>1, <1>6, <2>1 DEF GoesBack, FrontStatus, ActiveStatus
    <2>4. FrontInv(s) /\ GoesOn(s) /\ ActiveSteps(s) = {}
      BY <2>1, <2>2, <2>3, Forward DEF FrontStatus, ActiveStatus
    <2>5. \A m \in Nodes : ~s.steps[m].pending_permission /\ ~s.steps[m].pending_input
      BY <1>4, <1>6, <2>1 DEF GoesBack
    <2>6. FlagInv(s)
      BY <2>2, <2>3, <2>5 DEF FlagInv, FrontStatus, ActiveStatus
    <2>7. SameAttempts(r, s)
      BY <1>6, <2>1 DEF SameAttempts, GoesBack
    <2> QED  BY <2>2, <2>4, <2>6, <2>7 DEF Sound, s
  <1>7. CASE TakesFailureEdge(r, s, n)
    <2> DEFINE k == OnFailure[n]
    <2>1. k \in Nodes /\ s \in Runs /\ s.failed_step = None /\ Settled(s) /\ s.steps[k].status = "Ready"
      BY <1>1, <1>7 DEF TakesFailureEdge, SettledFrom
    <2>2. \A m \in Nodes \ {k} : s.steps[m].status \notin FrontStatus
      BY <1>1, <1>7 DEF TakesFailureEdge, FrontStatus, ActiveStatus
    <2>3. FrontInv(s) /\ GoesOn(s) /\ ActiveSteps(s) = {}
      BY <2>1, <2>2, Forward DEF FrontStatus, ActiveStatus
    <2>4. \A m \in Nodes : ~s.steps[m].pending_permission /\ ~s.steps[m].pending_input
      BY <1>2, <1>4, <1>7 DEF TakesFailureEdge
    <2>5. FlagInv(s)
      BY <2>1, <2>2, <2>4 DEF FlagInv, FrontStatus, ActiveStatus
    <2>6. SameAttempts(r, s)
      BY <1>7 DEF SameAttempts, TakesFailureEdge, SameWork
    <2> QED  BY <2>1, <2>3, <2>5, <2>6 DEF Sound, s
  <1>8. CASE FailsAt(r, s, n)
    <2>1. s \in Runs /\ s.failed_step = n /\ s.status = "Failed" /\ s.steps[n].status = "Failed"
      BY <1>8 DEF FailsAt
    <2>2. \A m \in Nodes : s.steps[m].status \notin FrontStatus
      <3> TAKE m \in Nodes
      <3>1. CASE m = n  BY <2>1, <3>1 DEF FrontStatus, ActiveStatus
      <3>2. CASE m # n
        <4>1. s.steps[m].status = Dropped(r.steps[m].status)  BY <1>8, <3>2 DEF FailsAt
        <4> QED  BY <1>1, <3>2, <4>1 DEF Dropped, FrontStatus, ActiveStatus
      <3> QED  BY <3>1, <3>2
    <2>3. Front(s) = {} /\ ActiveSteps(s) = {}
      BY <2>2 DEF Front, ActiveSteps, FrontStatus
    <2>4. FrontInv(s)
      BY <2>1, <2>3 DEF FrontInv, Closing, Terminal
    <2>5. \A m \in Nodes : ~s.steps[m].pending_permission /\ ~s.steps[m].pending_input
      BY <1>4, <1>8 DEF FailsAt
    <2>6. FlagInv(s)
      BY <2>2, <2>5 DEF FlagInv, FrontStatus, ActiveStatus
    <2>7. SameAttempts(r, s)
      BY <1>8 DEF SameAttempts, FailsAt, SameWork
    <2> QED  BY <2>1, <2>3, <2>4, <2>6, <2>7 DEF Sound, s
  <1> QED  BY <1>3, <1>5, <1>6, <1>7, <1>8

LEMMA RecoverSound ==
    ASSUME NEW r, Sound(r), r.status \notin Terminal \cup {"Created"}
    PROVE  LET s == recover(r)
           IN  /\ Sound(s) /\ ActiveSteps(s) = {} /\ SameAttempts(r, s) /\ s.failed_step = None
               /\ \/ GoesOn(s) /\ GoesOn(r) /\ Indeterminate(r) = {}
                  \/ s.status \in Terminal
  <1> DEFINE s == recover(r)
  <1>1. \/ r.status = "Cancelling" /\ s = cancellation_completed(r)
        \/ r.status # "Cancelling" /\ Indeterminate(r) = {} /\ Resumed(r, s)
        \/ r.status # "Cancelling" /\ Indeterminate(r) # {} /\ Halted(r, s, "Failed")
    BY RecoverFacts DEF Sound
  <1> HIDE DEF s
  <1>2. CASE r.status = "Cancelling" /\ s = cancellation_completed(r)
    BY <1>2, CompletedSound DEF s, Terminal
  <1>3. CASE r.status # "Cancelling" /\ Indeterminate(r) = {} /\ Resumed(r, s)
    <2>1. GoesOn(r)  BY <1>3 DEF GoesOn, Closing
    <2>2. PICK f \in Nodes : Front(r) = {f}  BY <2>1 DEF Sound, FrontInv, GoesOn
    <2>3. /\ r.failed_step = None /\ r.status \notin Closing /\ ActiveSteps(r) \subseteq {f}
          /\ \A m \in Nodes \ {f} : r.steps[m].status \notin FrontStatus
          /\ r.steps[f].status \in FrontStatus
      BY <2>1, <2>2, GoingOn DEF Front
    <2>4. s \in Runs /\ s.failed_step = None /\ Settled(s)
      BY <1>3, <2>3 DEF Resumed, SettledFrom
    <2>5. s.steps[f].status \in {"Ready", "RetryScheduled"}
      <3>1. CASE f \in ActiveSteps(r)  BY <1>3, <3>1 DEF Resumed
      <3>2. CASE f \notin ActiveSteps(r)  BY <1>3, <2>3, <3>2 DEF Resumed, ActiveSteps, FrontStatus
      <3> QED  BY <3>1, <3>2
    <2>6. \A m \in Nodes \ {f} : s.steps[m] = r.steps[m]  BY <1>3, <2>3 DEF Resumed
    <2>7. FrontInv(s) /\ GoesOn(s) /\ ActiveSteps(s) = {}
      BY <2>2, <2>3, <2>4, <2>5, <2>6, Forward DEF FrontStatus, ActiveStatus
    <2>8. ~s.steps[f].pending_permission /\ ~s.steps[f].pending_input
      <3>1. CASE f \in ActiveSteps(r)  BY <1>3, <3>1 DEF Resumed
      <3>2. CASE f \notin ActiveSteps(r)
        <4>1. s.steps[f] = r.steps[f]  BY <1>3, <3>2 DEF Resumed
        <4> QED  BY <2>5, <4>1 DEF Sound, FlagInv
      <3> QED  BY <3>1, <3>2
    <2>9. FlagInv(s)
      BY <2>5, <2>6, <2>8 DEF Sound, FlagInv
    <2>10. SameAttempts(r, s)  BY <1>3 DEF Resumed, SameAttempts, SameWork
    <2> QED  BY <1>3, <2>1, <2>4, <2>7, <2>9, <2>10 DEF Sound, s
  <1>4. CASE r.status # "Cancelling" /\ Indeterminate(r) # {} /\ Halted(r, s, "Failed")
    <2>1. r.failed_step = None
      BY DEF Sound, FrontInv, Terminal
    <2> QED  BY <1>4, <2>1, HaltedSound DEF s, Closing, Terminal
  <1> QED  BY <1>1, <1>2, <1>3, <1>4

LEMMA ReopenedSound ==
    ASSUME NEW r, Sound(r), r.failed_step # None
    PROVE  LET s == Reopened(r)
           IN  Sound(s) /\ GoesOn(s) /\ ActiveSteps(s) = {} /\ SameAttempts(r, s)
  <1> DEFINE s == Reopened(r)
  <1>1. PICK again, span : Reopens(r, s, again, span)
    BY ReopenedFacts DEF Sound
  <1> HIDE DEF s
  <1>2. \A m \in Nodes : r.steps[m].status \notin FrontStatus
    BY DEF Sound, FrontInv, Front
  <1>3. again \in Nodes /\ s \in Runs /\ s.failed_step = None /\ s.status = "Ready" /\ ~s.paused
        /\ s.steps[again].status = "Ready"
    BY <1>1 DEF Reopens
  <1>4. \A m \in Nodes \ {again} : s.steps[m].status \notin FrontStatus
    BY <1>1, <1>2 DEF Reopens, FrontStatus, ActiveStatus
  <1>5. Settled(s)
    <2>1. ActiveSteps(s) = {}  BY <1>3, <1>4 DEF ActiveSteps, FrontStatus, ActiveStatus
    <2> QED  BY <1>3, <2>1 DEF Settled
  <1>6. FrontInv(s) /\ GoesOn(s) /\ ActiveSteps(s) = {}
    BY <1>3, <1>4, <1>5, Forward DEF FrontStatus, ActiveStatus
  <1>7. \A m \in Nodes : ~s.steps[m].pending_permission /\ ~s.steps[m].pending_input
    BY <1>1, <1>2 DEF Reopens, Sound, FlagInv, FrontStatus, ActiveStatus
  <1>8. FlagInv(s)
    BY <1>3, <1>4, <1>7 DEF FlagInv, FrontStatus, ActiveStatus
  <1>9. SameAttempts(r, s)  BY <1>1 DEF Reopens, SameAttempts
  <1> QED  BY <1>3, <1>6, <1>8, <1>9 DEF Sound, s

-----------------------------------------------------------------------------
(* Applying a command *)

Sigs == {"usage", "permission", "checkpoint", "input"}
Stores == [snapshot : Runs \cup {None}, ahead : BOOLEAN, cached : BOOLEAN]
DeadLoops == {"persistence", "down", "sequence_gap"}

LEMMA TokenFacts ==
    ASSUME NEW act \in Attempts \cup {None}
    PROVE  /\ TokenCancelled(act) \in Attempts \cup {None}
           /\ TokenCancelled(act) = None <=> act = None
           /\ act # None =>
                LET a == TokenCancelled(act)
                IN  /\ a.node = act.node /\ a.attempt = act.attempt /\ a.stalled = act.stalled
                    /\ a.task = act.task /\ a.result = act.result
  <1>1. CASE act = None  BY <1>1 DEF TokenCancelled
  <1>2. CASE act # None
    <2> DEFINE a == [act EXCEPT !.token = TRUE]
    <2>1. /\ a \in Attempts /\ a.node = act.node /\ a.attempt = act.attempt
          /\ a.task = act.task /\ a.result = act.result
      BY <1>2 DEF Attempts
    <2>2. a.stalled = act.stalled  BY <1>2 DEF Attempts
    <2>3. TokenCancelled(act) = a  BY <1>2 DEF TokenCancelled
    <2>4. a # None  BY <2>1, RunnerAssumption
    <2> HIDE DEF a
    <2> QED  BY <1>2, <2>1, <2>2, <2>3, <2>4
  <1> QED  BY <1>1, <1>2

\* A command that dispatches nothing is committed and acted on, or the loop
\* ends and the store keeps the snapshot it has.
Saved(r, act, rest) ==
    /\ store'.snapshot = r
    /\ loop' = IF r.status \in Terminal THEN "finished" ELSE "running"
    /\ signals' = IF r.status \in Terminal THEN <<>> ELSE rest
    /\ \/ active' = act
       \/ active' = TokenCancelled(act)

Unsaved ==
    /\ store'.snapshot = store.snapshot
    /\ loop' \in DeadLoops /\ signals' = <<>>
    /\ active' \in Attempts \cup {None}

LEMMA Outcome ==
    ASSUME TypeOK, NEW r \in Runs, NEW e \in BOOLEAN, NEW act \in Attempts \cup {None}, NEW rest,
           try_apply(Batch(r, e, None), act, rest)
    PROVE  /\ run' = r /\ started' = started /\ faults' \in 0..MaxFaults /\ store' \in Stores
           /\ Saved(r, act, rest) \/ Unsaved
  <1> DEFINE b == Batch(r, e, None)
  <1>0. b.run = r /\ b.emits = e /\ b.dispatched = None  BY DEF Batch
  <1>1. store \in Stores /\ faults \in 0..MaxFaults /\ MaxFaults \in Nat
    BY RunnerAssumption DEF TypeOK, Stores
  <1>2. TokenCancelled(act) \in Attempts \cup {None}  BY TokenFacts
  <1>3. TokenCancelled(None) = None  BY DEF TokenCancelled
  <1> HIDE DEF b
  <1>4. CASE Committed(b, act, rest)
    <2> DEFINE ahead == store.ahead /\ ~e
    <2>1. /\ run' = r /\ faults' = faults
          /\ store' = [snapshot |-> r, ahead |-> ahead, cached |-> TRUE]
          /\ loop' = IF r.status \in Terminal THEN "finished" ELSE "running"
      BY <1>0, <1>4 DEF Committed
    <2>2. ahead \in BOOLEAN  OBVIOUS
    <2> HIDE DEF ahead
    <2>3. store' \in Stores /\ store'.snapshot = r  BY <2>1, <2>2 DEF Stores
    <2>4. Effects(b, act, rest)  BY <1>4 DEF Committed
    <2>5. /\ started' = started
          /\ signals' = IF r.status \in Terminal THEN <<>> ELSE rest
          /\ \/ active' = act
             \/ active' = TokenCancelled(act)
      BY <1>0, <2>4 DEF Effects
    <2> QED  BY <1>1, <2>1, <2>3, <2>5 DEF Saved
  <1>5. CASE CommitFails(b, act)
    <2>1. PICK appended \in BOOLEAN :
            store' = [store EXCEPT !.ahead = store.ahead \/ (appended /\ b.emits)]
      BY <1>5 DEF CommitFails
    <2> DEFINE ahead == store.ahead \/ (appended /\ b.emits)
    <2>2. store' = [store EXCEPT !.ahead = ahead] /\ ahead \in BOOLEAN  BY <2>1
    <2> HIDE DEF ahead
    <2>3. store' \in Stores /\ store'.snapshot = store.snapshot  BY <1>1, <2>2 DEF Stores
    <2>4. /\ run' = r /\ faults' \in 0..MaxFaults /\ LoopDies("persistence", act)
      BY <1>0, <1>1, <1>5 DEF CommitFails
    <2> QED  BY <1>2, <2>3, <2>4 DEF Unsaved, LoopDies, DeadLoops
  <1>6. CASE CommitCrashes(b)
    <2>1. /\ run' = r /\ faults' \in 0..MaxFaults /\ LoopDies("down", None)
          /\ store' = [store EXCEPT !.ahead = TRUE, !.cached = FALSE]
      BY <1>0, <1>1, <1>6 DEF CommitCrashes
    <2>2. store' \in Stores /\ store'.snapshot = store.snapshot  BY <1>1, <2>1 DEF Stores
    <2> QED  BY <1>3, <2>1, <2>2 DEF Unsaved, LoopDies, DeadLoops
  <1>7. CASE SequenceGap(b, act)
    <2>1. /\ run' = r /\ LoopDies("sequence_gap", act) /\ store' = store /\ faults' = faults
      BY <1>0, <1>7 DEF SequenceGap
    <2> QED  BY <1>1, <1>2, <2>1 DEF Unsaved, LoopDies, DeadLoops
  <1> QED  BY <1>4, <1>5, <1>6, <1>7 DEF try_apply, b

\* The agent attempts whose end is still unknown after the step.
StillOpen == {n \in Nodes : kind[n] \in AgentKinds /\ started[n] # reported'[n]}

\* What the loop holds of the attempt agrees with the run r.
Agrees(a, r, s) ==
    /\ GoesOn(r) =>
        /\ ActiveSteps(r) = IF a = None THEN {} ELSE {a.node}
        /\ a # None => a.attempt = r.steps[a.node].attempts /\ Asked(a, r, s)
    /\ r.status \notin Terminal /\ a # None /\ kind[a.node] \in AgentKinds =>
        started[a.node] = reported'[a.node] + 1

LEMMA AskedToken ==
    ASSUME NEW act \in Attempts, NEW r, NEW s, Asked(act, r, s)
    PROVE  Asked(TokenCancelled(act), r, s)
  <1> DEFINE a == TokenCancelled(act)
  <1>1. act # None  BY RunnerAssumption
  <1>2. a.node = act.node /\ a.stalled = act.stalled /\ a.task = act.task /\ a.result = act.result
    BY <1>1, TokenFacts
  <1> HIDE DEF a
  <1>3. Asked(a, r, s)  BY <1>2 DEF Asked
  <1> QED  BY <1>3 DEF a

\* The loop's part of the invariant after a step that leaves it running.
LEMMA Follows ==
    ASSUME started' = started, run' \in Runs,
           loop' = "running" =>
               /\ run'.status \notin Terminal \cup {"Created"}
               /\ Agrees(active', run', signals'),
           loop' # "start", loop' # "recover"
    PROVE  LoopInv' /\ AskInv'
  <1>1. Live' => GoesOn(run') /\ loop' = "running"
    BY DEF Live, Running, GoesOn, Closing
  <1> QED  BY <1>1 DEF LoopInv, AskInv, Agrees, Live, Running

LEMMA Applied ==
    ASSUME WorkflowInv, NEW r, NEW e \in BOOLEAN, NEW act \in Attempts \cup {None},
           NEW rest \in Seq(Sigs), try_apply(Batch(r, e, None), act, rest),
           Sound(r), r.status # "Created", SameAttempts(run, r),
           StillOpen \subseteq Open, OpenInv(r, StillOpen), Agrees(act, r, rest),
           cancellation' \in BOOLEAN, cancel_applied' \in BOOLEAN, reported' \in [Nodes -> Nat],
           controls' \in 0..MaxControls
    PROVE  WorkflowInv'
  <1>0. TypeOK /\ r \in Runs  BY DEF WorkflowInv, Sound
  <1>1. /\ run' = r /\ started' = started /\ faults' \in 0..MaxFaults /\ store' \in Stores
        /\ Saved(r, act, rest) \/ Unsaved
    BY <1>0, Outcome
  <1>2. active' \in Attempts \cup {None} /\ signals' \in Seq(Sigs) /\ loop' \in LoopStates
    <2>1. CASE Saved(r, act, rest)
      BY <2>1, TokenFacts DEF Saved, LoopStates, Ended
    <2>2. CASE Unsaved
      BY <2>2 DEF Unsaved, DeadLoops, LoopStates, Ended
    <2> QED  BY <1>1, <2>1, <2>2
  <1>3. TypeOK'
    BY <1>0, <1>1, <1>2 DEF TypeOK, Sigs, Stores
  <1>4. Open' = StillOpen  BY <1>1 DEF Open, StillOpen
  <1>5. RunInv(run)'
    BY <1>1, <1>4 DEF RunInv, Sound
  <1>6. StoreInv'
    <2>1. CASE Saved(r, act, rest)
      BY <1>1, <1>4, <2>1 DEF Saved, StoreInv, RunInv, Sound
    <2>2. CASE Unsaved
      BY <1>4, <2>2 DEF Unsaved, WorkflowInv, StoreInv, RunInv, OpenInv
    <2> QED  BY <1>1, <2>1, <2>2
  <1>7. RecordInv'
    <2>1. \A n \in Nodes : started'[n] <= run'.steps[n].attempts
      BY <1>1 DEF WorkflowInv, RecordInv, SameAttempts
    <2>2. CASE Saved(r, act, rest)
      BY <1>1, <2>1, <2>2 DEF Saved, RecordInv, EveryAttemptIsOnRecord
    <2>3. CASE Unsaved
      BY <1>1, <2>1, <2>3 DEF Unsaved, RecordInv, EveryAttemptIsOnRecord, WorkflowInv
    <2> QED  BY <1>1, <2>2, <2>3
  <1>8. LoopInv' /\ AskInv'
    <2>1. CASE Saved(r, act, rest)
      <3>1. loop' = "running" => Agrees(active', run', signals')
        <4>1. CASE r.status \in Terminal  BY <2>1, <4>1 DEF Saved
        <4>2. CASE active' = act /\ r.status \notin Terminal
          BY <1>1, <2>1, <4>2 DEF Saved
        <4>3. CASE active' = TokenCancelled(act) /\ r.status \notin Terminal
          <5>1. CASE act = None
            BY <1>1, <2>1, <4>3, <5>1, TokenFacts DEF Saved
          <5>2. CASE act # None
            <6> DEFINE a == TokenCancelled(act)
            <6>1. act \in Attempts /\ a # None /\ a.node = act.node /\ a.attempt = act.attempt
              BY <5>2, TokenFacts
            <6>2. GoesOn(r) => Asked(a, r, rest)
              BY <5>2, <6>1, AskedToken DEF Agrees
            <6> HIDE DEF a
            <6>3. Agrees(a, r, rest)
              BY <5>2, <6>1, <6>2 DEF Agrees
            <6> QED  BY <1>1, <2>1, <4>3, <6>3 DEF Saved, a
          <5> QED  BY <5>1, <5>2
        <4> QED  BY <2>1, <4>1, <4>2, <4>3 DEF Saved
      <3> QED  BY <1>0, <1>1, <2>1, <3>1, Follows DEF Saved
    <2>2. CASE Unsaved
      BY <1>0, <1>1, <2>2, Follows DEF Unsaved, DeadLoops
    <2> QED  BY <1>1, <2>1, <2>2
  <1> QED  BY <1>3, <1>5, <1>6, <1>7, <1>8 DEF WorkflowInv

\* A step that leaves the run, the store and the history alone.
LEMMA Unchanged ==
    ASSUME WorkflowInv, UNCHANGED <<run, started>>,
           store' \in Stores, store'.snapshot = store.snapshot,
           loop' \in LoopStates, loop' = "running" => loop = "running",
           loop' \in {"start", "recover"} => loop' = loop,
           StillOpen \subseteq Open,
           active' \in Attempts \cup {None}, signals' \in Seq(Sigs),
           loop' = "running" => Agrees(active', run, signals'),
           faults' \in 0..MaxFaults, controls' \in 0..MaxControls,
           cancellation' \in BOOLEAN, cancel_applied' \in BOOLEAN, reported' \in [Nodes -> Nat]
    PROVE  WorkflowInv'
  <1>1. TypeOK'
    BY DEF WorkflowInv, TypeOK, Sigs, Stores
  <1>2. Open' = StillOpen  BY DEF Open, StillOpen
  <1>3. RunInv(run)'
    BY <1>2 DEF WorkflowInv, RunInv, OpenInv
  <1>4. StoreInv'
    BY <1>2 DEF WorkflowInv, StoreInv, RunInv, OpenInv
  <1>5. RecordInv'
    BY DEF WorkflowInv, RecordInv, EveryAttemptIsOnRecord
  <1>6. LoopInv' /\ AskInv'
    <2>1. run' \in Runs /\ run' = run  BY <1>1 DEF TypeOK
    <2>2. CASE loop' \in {"start", "recover"}
      BY <2>2 DEF WorkflowInv, LoopInv, AskInv, Live, Running
    <2>3. CASE loop' \notin {"start", "recover"}
      <3>1. loop' = "running" => run'.status \notin Terminal \cup {"Created"}
        BY DEF WorkflowInv, LoopInv
      <3> QED  BY <2>1, <2>3, <3>1, Follows
    <2> QED  BY <2>2, <2>3
  <1> QED  BY <1>1, <1>3, <1>4, <1>5, <1>6 DEF WorkflowInv

\* What the invariant says of a running loop.
LEMMA RunningFacts ==
    ASSUME WorkflowInv, Running
    PROVE  /\ Sound(run) /\ run.status \notin Terminal \cup {"Created"} /\ run.failed_step = None
           /\ GoesOn(run) <=> run.status # "Cancelling"
           /\ OpenInv(run, Open)
           /\ signals \in Seq(Sigs) /\ active \in Attempts \cup {None}
           /\ UNCHANGED reported => StillOpen = Open /\ Agrees(active, run, signals)
           /\ GoesOn(run) => /\ Open \subseteq ActiveSteps(run)
                             /\ ActiveSteps(run) = IF active = None THEN {} ELSE {active.node}
                             /\ active # None => /\ active.attempt = run.steps[active.node].attempts
                                                 /\ Asked(active, run, signals)
           /\ ~GoesOn(run) => ActiveSteps(run) = {}
           /\ active # None /\ kind[active.node] \in AgentKinds =>
                started[active.node] = reported[active.node] + 1
  <1>1. Sound(run) /\ OpenInv(run, Open)  BY DEF WorkflowInv, RunInv, TypeOK, Sound
  <1>2. run.status \notin Terminal \cup {"Created"}  BY DEF WorkflowInv, LoopInv, Running
  <1>3. GoesOn(run) <=> run.status # "Cancelling"  BY <1>2 DEF GoesOn, Closing
  <1>4. run.failed_step = None  BY <1>1, <1>2 DEF Sound, FrontInv, Terminal
  <1>5. GoesOn(run) => Live  BY <1>3 DEF Live
  <1>6. signals \in Seq(Sigs) /\ active \in Attempts \cup {None}  BY DEF WorkflowInv, TypeOK, Sigs
  <1>7. GoesOn(run) => /\ Open \subseteq ActiveSteps(run)
                       /\ ActiveSteps(run) = IF active = None THEN {} ELSE {active.node}
                       /\ active # None => /\ active.attempt = run.steps[active.node].attempts
                                           /\ Asked(active, run, signals)
    BY <1>1, <1>5 DEF OpenInv, GoesOn, WorkflowInv, LoopInv, AskInv
  <1>8. active # None /\ kind[active.node] \in AgentKinds =>
            started[active.node] = reported[active.node] + 1
    BY DEF WorkflowInv, LoopInv
  <1>9. UNCHANGED reported => StillOpen = Open /\ Agrees(active, run, signals)
    BY <1>7, <1>8 DEF StillOpen, Open, Agrees
  <1>10. ~GoesOn(run) => ActiveSteps(run) = {}
    BY <1>1, <1>2 DEF GoesOn, Sound, FrontInv
  <1> QED  BY <1>1, <1>2, <1>3, <1>4, <1>6, <1>7, <1>8, <1>9, <1>10

LEMMA Types ==
    ASSUME WorkflowInv
    PROVE  /\ run \in Runs /\ loop \in LoopStates /\ active \in Attempts \cup {None}
           /\ signals \in Seq(Sigs) /\ store \in Stores
           /\ cancellation \in BOOLEAN /\ cancel_applied \in BOOLEAN
           /\ started \in [Nodes -> Nat] /\ reported \in [Nodes -> Nat]
           /\ faults \in 0..MaxFaults /\ controls \in 0..MaxControls
           /\ MaxFaults \in Nat /\ MaxControls \in Nat
  BY RunnerAssumption DEF WorkflowInv, TypeOK, Sigs, Stores

-----------------------------------------------------------------------------
(* drive_inner *)

LEMMA OnFirstCommand ==
    ASSUME WorkflowInv, FirstCommand
    PROVE  WorkflowInv'
  <1> DEFINE r == IF loop = "start" THEN start(run) ELSE recover(run)
  <1>1. /\ loop \in {"start", "recover"} /\ try_apply(Batch(r, TRUE, None), None, <<>>)
        /\ UNCHANGED <<cancellation, cancel_applied, reported, controls>>
    BY DEF FirstCommand
  <1>2. Sound(run) /\ OpenInv(run, Open)  BY DEF WorkflowInv, RunInv, TypeOK, Sound
  <1>3. StillOpen = Open  BY <1>1 DEF StillOpen, Open
  <1>4. /\ Sound(r) /\ r.status # "Created" /\ SameAttempts(run, r) /\ ActiveSteps(r) = {}
        /\ OpenInv(r, Open)
    <2>1. CASE loop = "start"
      <3>1. run.status = "Created"  BY <2>1 DEF WorkflowInv, LoopInv
      <3>2. Sound(r) /\ GoesOn(r) /\ ActiveSteps(r) = {} /\ SameAttempts(run, r)
        BY <1>2, <2>1, <3>1, StartSound
      <3>3. Open = {}
        <4>1. ActiveSteps(run) = {}
          BY <1>2, <3>1 DEF Sound, FrontInv, Front, ActiveSteps, FrontStatus
        <4> QED  BY <1>2, <3>1, <4>1 DEF OpenInv, Closing, Terminal
      <3> QED  BY <3>2, <3>3 DEF OpenInv, GoesOn
    <2>2. CASE loop = "recover"
      <3>1. run.status \notin Terminal \cup {"Created"}  BY <2>2 DEF WorkflowInv, LoopInv
      <3>2. /\ Sound(r) /\ ActiveSteps(r) = {} /\ SameAttempts(run, r) /\ r.failed_step = None
            /\ \/ GoesOn(r) /\ GoesOn(run) /\ Indeterminate(run) = {}
               \/ r.status \in Terminal
        BY <1>2, <2>2, <3>1, RecoverSound
      <3>3. CASE GoesOn(r) /\ GoesOn(run) /\ Indeterminate(run) = {}
        <4>1. Open = {}
          BY <1>2, <3>3 DEF OpenInv, GoesOn, Indeterminate, Open, AgentKinds
        <4> QED  BY <3>2, <3>3, <4>1 DEF OpenInv, GoesOn
      <3>4. CASE r.status \in Terminal
        BY <3>2, <3>4 DEF OpenInv, Closing, Terminal
      <3> QED  BY <3>2, <3>3, <3>4
    <2> QED  BY <1>1, <2>1, <2>2
  <1> HIDE DEF r
  <1>5. Agrees(None, r, <<>>)  BY <1>4 DEF Agrees
  <1>6. <<>> \in Seq(Sigs)  OBVIOUS
  <1> QED  BY <1>1, <1>3, <1>4, <1>5, <1>6, Types, Applied

\* The ends of a run that leave nothing in flight.
LEMMA AppliedEnd ==
    ASSUME WorkflowInv, Running, NEW r, NEW e \in BOOLEAN, NEW act \in Attempts \cup {None},
           NEW rest \in Seq(Sigs), try_apply(Batch(r, e, None), act, rest),
           Sound(r), r.status \in Closing, r.failed_step = None, SameAttempts(run, r),
           act # None => active # None /\ act.node = active.node,
           reported' = reported,
           cancellation' \in BOOLEAN, cancel_applied' \in BOOLEAN, controls' \in 0..MaxControls
    PROVE  WorkflowInv'
  <1>1. r.status # "Created" /\ ~GoesOn(r)  BY DEF Closing, Terminal, GoesOn
  <1>2. StillOpen = Open  BY DEF StillOpen, Open
  <1>3. OpenInv(r, StillOpen)  BY DEF OpenInv
  <1>4. Agrees(act, r, rest)  BY <1>1, RunningFacts DEF Agrees
  <1>5. reported' \in [Nodes -> Nat]  BY Types
  <1> QED  BY <1>1, <1>2, <1>3, <1>4, <1>5, Applied

LEMMA OnCancel ==
    ASSUME WorkflowInv, Cancel
    PROVE  WorkflowInv'
  <1>0. /\ Running /\ cancel_applied' = TRUE
        /\ UNCHANGED <<cancellation, reported, controls>>
    BY DEF Cancel
  <1>1. CASE run.status = "Cancelling"
    <2>1. UNCHANGED <<run, loop, active, signals, store, started, faults>>  BY <1>1 DEF Cancel
    <2>2. StillOpen = Open /\ Agrees(active, run, signals)  BY <1>0, RunningFacts
    <2> QED  BY <1>0, <2>1, <2>2, Types, Unchanged DEF Running
  <1>2. CASE run.status # "Cancelling"
    <2> DEFINE r == cancel(run)
               e == ActiveSteps(run) = {}
    <2>1. try_apply(Batch(r, e, None), active, signals)
      BY <1>2 DEF Cancel
    <2>2. Sound(run) /\ run.failed_step = None  BY <1>0, RunningFacts
    <2>3. Halted(run, r, IF ActiveSteps(run) = {} THEN "Cancelled" ELSE "Cancelling")
      BY <2>2, CancelFacts DEF Sound
    <2>4. (IF ActiveSteps(run) = {} THEN "Cancelled" ELSE "Cancelling") \in Closing
      BY DEF Closing, Terminal
    <2>5. e \in BOOLEAN  OBVIOUS
    <2> HIDE DEF r, e
    <2>6. Sound(r) /\ r.failed_step = None /\ r.status \in Closing /\ SameAttempts(run, r)
      BY <2>2, <2>3, <2>4, HaltedSound
    <2> QED  BY <1>0, <2>1, <2>5, <2>6, Types, AppliedEnd
  <1> QED  BY <1>1, <1>2

LEMMA OnAbort ==
    ASSUME WorkflowInv, Running, NEW act \in Attempts \cup {None}, NEW rest \in Seq(Sigs),
           try_apply(Batch(abort(run), TRUE, None), act, rest),
           act # None => active # None /\ act.node = active.node,
           UNCHANGED <<cancellation, cancel_applied, reported, controls>>
    PROVE  WorkflowInv'
  <1> DEFINE r == abort(run)
  <1>1. Sound(run) /\ run.failed_step = None  BY RunningFacts
  <1>2. Halted(run, r, "Failed") /\ "Failed" \in Closing
    BY <1>1, AbortFacts DEF Sound, Closing, Terminal
  <1> HIDE DEF r
  <1>3. Sound(r) /\ r.failed_step = None /\ r.status \in Closing /\ SameAttempts(run, r)
    BY <1>1, <1>2, HaltedSound
  <1> QED  BY <1>3, Types, AppliedEnd DEF r

LEMMA OnElapsed ==
    ASSUME WorkflowInv, Elapsed
    PROVE  WorkflowInv'
  BY Types, OnAbort DEF Elapsed

LEMMA OnCancellationCompleted ==
    ASSUME WorkflowInv, CancellationCompleted
    PROVE  WorkflowInv'
  <1> DEFINE r == cancellation_completed(run)
  <1>1. /\ Running /\ run.status = "Cancelling"
        /\ try_apply(Batch(r, TRUE, None), active, signals)
        /\ UNCHANGED <<cancellation, cancel_applied, reported, controls>>
    BY DEF CancellationCompleted
  <1>2. Sound(r) /\ r.failed_step = None /\ r.status = "Cancelled" /\ SameAttempts(run, r)
    BY <1>1, RunningFacts, CompletedSound
  <1> HIDE DEF r
  <1> QED  BY <1>1, <1>2, Types, AppliedEnd DEF Closing, Terminal

LEMMA OnRetryStep ==
    ASSUME WorkflowInv, RetryStep
    PROVE  WorkflowInv'
  <1>1. PICK n \in Scheduled : try_apply(Batch(retry(run, n), TRUE, None), active, signals)
    BY DEF RetryStep
  <1>2. /\ Running /\ active = None /\ run.status # "Cancelling"
        /\ UNCHANGED <<cancellation, cancel_applied, reported, controls>>
    BY DEF RetryStep, MayAdmit
  <1> DEFINE r == retry(run, n)
  <1>3. n \in Nodes /\ run.steps[n].status = "RetryScheduled"  BY DEF Scheduled
  <1>4. Sound(run) /\ GoesOn(run) /\ Open = {} /\ StillOpen = Open  BY <1>2, RunningFacts
  <1>5. Sound(r) /\ GoesOn(r) /\ ActiveSteps(r) = {} /\ SameAttempts(run, r)
    BY <1>3, <1>4, RetrySound
  <1>6. try_apply(Batch(r, TRUE, None), None, signals)  BY <1>1, <1>2
  <1> HIDE DEF r
  <1>7. Agrees(None, r, signals) /\ OpenInv(r, StillOpen) /\ r.status # "Created"
    BY <1>4, <1>5 DEF Agrees, OpenInv, GoesOn
  <1> QED  BY <1>2, <1>4, <1>5, <1>6, <1>7, Types, Applied

\* An attempt of n is dispatched once the transition is in the store.
Dispatches(r, n) ==
    /\ store'.snapshot = r
    /\ loop' = IF r.status \in Terminal THEN "finished" ELSE "running"
    /\ active' = dispatch(n) /\ signals' = <<>>
    /\ started' = [started EXCEPT ![n] = @ + 1]

LEMMA DispatchOutcome ==
    ASSUME TypeOK, NEW r \in Runs, NEW n \in Nodes, NEW act \in Attempts \cup {None}, NEW rest,
           try_apply(Batch(r, TRUE, n), act, rest)
    PROVE  /\ run' = r /\ faults' \in 0..MaxFaults /\ store' \in Stores
           /\ Dispatches(r, n) \/ (Unsaved /\ started' = started)
  <1> DEFINE b == Batch(r, TRUE, n)
  <1>0. b.run = r /\ b.emits = TRUE /\ b.dispatched = n  BY DEF Batch
  <1>1. store \in Stores /\ faults \in 0..MaxFaults /\ MaxFaults \in Nat
    BY RunnerAssumption DEF TypeOK, Stores
  <1>2. TokenCancelled(act) \in Attempts \cup {None}  BY TokenFacts
  <1>3. TokenCancelled(None) = None  BY DEF TokenCancelled
  <1> HIDE DEF b
  <1>4. CASE Committed(b, act, rest)
    <2>1. /\ run' = r /\ faults' = faults
          /\ store' = [snapshot |-> r, ahead |-> store.ahead /\ ~b.emits, cached |-> TRUE]
          /\ loop' = IF r.status \in Terminal THEN "finished" ELSE "running"
      BY <1>0, <1>4 DEF Committed
    <2>2. store' = [snapshot |-> r, ahead |-> FALSE, cached |-> TRUE]
      BY <1>0, <2>1
    <2>3. store' \in Stores /\ store'.snapshot = r  BY <2>2 DEF Stores
    <2>4. Effects(b, act, rest)  BY <1>4 DEF Committed
    <2>5. b.dispatched # None  BY <1>0, DefinitionAssumption
    <2>6. /\ active' = dispatch(n) /\ signals' = <<>>
          /\ started' = [started EXCEPT ![n] = @ + 1]
      BY <1>0, <2>4, <2>5 DEF Effects
    <2> QED  BY <1>1, <2>1, <2>3, <2>6 DEF Dispatches
  <1>5. CASE CommitFails(b, act)
    <2>1. PICK appended \in BOOLEAN :
            store' = [store EXCEPT !.ahead = store.ahead \/ (appended /\ b.emits)]
      BY <1>5 DEF CommitFails
    <2> DEFINE ahead == store.ahead \/ (appended /\ b.emits)
    <2>2. store' = [store EXCEPT !.ahead = ahead] /\ ahead \in BOOLEAN  BY <2>1
    <2> HIDE DEF ahead
    <2>3. store' \in Stores /\ store'.snapshot = store.snapshot  BY <1>1, <2>2 DEF Stores
    <2>4. /\ run' = r /\ faults' \in 0..MaxFaults /\ LoopDies("persistence", act)
      BY <1>0, <1>1, <1>5 DEF CommitFails
    <2> QED  BY <1>2, <2>3, <2>4 DEF Unsaved, LoopDies, DeadLoops
  <1>6. CASE CommitCrashes(b)
    <2>1. /\ run' = r /\ faults' \in 0..MaxFaults /\ LoopDies("down", None)
          /\ store' = [store EXCEPT !.ahead = TRUE, !.cached = FALSE]
      BY <1>0, <1>1, <1>6 DEF CommitCrashes
    <2>2. store' \in Stores /\ store'.snapshot = store.snapshot  BY <1>1, <2>1 DEF Stores
    <2> QED  BY <1>3, <2>1, <2>2 DEF Unsaved, LoopDies, DeadLoops
  <1>7. CASE SequenceGap(b, act)
    <2>1. /\ run' = r /\ LoopDies("sequence_gap", act) /\ store' = store /\ faults' = faults
      BY <1>0, <1>7 DEF SequenceGap
    <2> QED  BY <1>1, <1>2, <2>1 DEF Unsaved, LoopDies, DeadLoops
  <1> QED  BY <1>4, <1>5, <1>6, <1>7 DEF try_apply, b

\* A step the loop may admit is admitted when the end of every agent attempt
\* is known.
LEMMA AdmitsWhenClosed ==
    ASSUME WorkflowInv, MayAdmit
    PROVE  Open = {} /\ Running /\ GoesOn(run) /\ ActiveSteps(run) = {} /\ active = None
  BY RunningFacts DEF MayAdmit

LEMMA OnDispatch ==
    ASSUME WorkflowInv, MayAdmit, NEW n \in Nodes, run.steps[n].status = "Ready",
           admit(run, n).status # "Failed",
           try_apply(Batch(admit(run, n), TRUE, n), active, signals),
           UNCHANGED <<cancellation, cancel_applied, reported, controls>>
    PROVE  WorkflowInv'
  <1> DEFINE r == admit(run, n)
  <1>1. Open = {} /\ Running /\ GoesOn(run) /\ Sound(run)  BY AdmitsWhenClosed, RunningFacts
  <1>2. /\ Sound(r) /\ r.failed_step = None
        /\ \A m \in Nodes \ {n} : r.steps[m].attempts = run.steps[m].attempts
        /\ GoesOn(r) /\ ActiveSteps(r) = {n} /\ r.steps[n].status = "Running"
        /\ r.steps[n].attempts = run.steps[n].attempts + 1
    BY <1>1, AdmitSound
  <1>3. try_apply(Batch(r, TRUE, n), active, signals)  OBVIOUS
  <1> HIDE DEF r
  <1>4. TypeOK /\ r \in Runs /\ active \in Attempts \cup {None}  BY <1>2, Types DEF Sound, WorkflowInv
  <1>5. /\ run' = r /\ faults' \in 0..MaxFaults /\ store' \in Stores
        /\ Dispatches(r, n) \/ (Unsaved /\ started' = started)
    BY <1>3, <1>4, DispatchOutcome
  <1>6. r.steps[n].attempts \in Nat /\ run.steps[n].attempts \in Nat
    BY <1>4 DEF Runs, Steps, TypeOK
  <1>7. dispatch(n) \in Attempts /\ dispatch(n) # None
    <2> DEFINE a == r.steps[n].attempts
    <2>1. dispatch(n) = [node |-> n, attempt |-> a, token |-> cancellation, stalled |-> FALSE,
                         usage |-> 0, task |-> "work", result |-> "ok", sent |-> {}]
      BY <1>5 DEF dispatch
    <2>2. a \in Nat  BY <1>6
    <2> HIDE DEF a
    <2>3. dispatch(n) \in Attempts
      BY <2>1, <2>2, Types DEF Attempts, TaskStates, Results
    <2> QED  BY <2>3, RunnerAssumption
  <1>8. /\ dispatch(n).node = n /\ dispatch(n).attempt = r.steps[n].attempts
        /\ dispatch(n).task = "work"
    BY <1>5 DEF dispatch
  <1>9. \A m \in Nodes : started'[m] = started[m] \/ (m = n /\ started'[m] = started[m] + 1)
    BY <1>5, Types DEF Dispatches
  <1>10. Open' \subseteq {n} /\ started' \in [Nodes -> Nat]
    <2>1. Open' \subseteq {n}
      BY <1>1, <1>9 DEF Open
    <2>2. started' \in [Nodes -> Nat]  BY <1>5, Types, SMTT(30) DEF Dispatches
    <2> QED  BY <2>1, <2>2
  <1>11. OpenInv(r, Open')  BY <1>2, <1>10 DEF OpenInv
  <1>12. CASE Dispatches(r, n)
    <2>1. loop' = "running" /\ signals' \in Seq(Sigs) /\ active' \in Attempts
      BY <1>2, <1>7, <1>12 DEF Dispatches, GoesOn, Closing
    <2>2. TypeOK'
      BY <1>4, <1>5, <1>10, <2>1, Types DEF TypeOK, Sigs, Stores, LoopStates
    <2>3. RunInv(run)' /\ StoreInv'
      BY <1>2, <1>5, <1>11, <1>12 DEF Dispatches, RunInv, StoreInv, Sound, GoesOn
    <2>4. \A m \in Nodes : started'[m] <= r.steps[m].attempts
      <3> SUFFICES ASSUME NEW m \in Nodes PROVE started'[m] <= r.steps[m].attempts  OBVIOUS
      <3>1. started[m] <= run.steps[m].attempts  BY DEF WorkflowInv, RecordInv
      <3>2. started[m] \in Nat /\ run.steps[m].attempts \in Nat  BY Types DEF Runs, Steps
      <3>3. CASE m = n  BY <1>2, <1>9, <3>1, <3>2, <3>3
      <3>4. CASE m # n  BY <1>2, <1>9, <3>1, <3>2, <3>4
      <3> QED  BY <3>3, <3>4
    <2>5. RecordInv'  BY <1>5, <1>12, <2>4 DEF Dispatches, RecordInv, EveryAttemptIsOnRecord
    <2>6. LoopInv'
      <3>1. active' = dispatch(n)  BY <1>12 DEF Dispatches
      <3>2. kind[n] \in AgentKinds => started'[n] = reported'[n] + 1
        <4>1. kind[n] \in AgentKinds => started[n] = reported[n]  BY <1>1 DEF Open
        <4> QED  BY <1>12, <4>1, Types DEF Dispatches
      <3>3. active'.node = n /\ active'.attempt = run'.steps[n].attempts /\ active' # None
        BY <1>5, <1>7, <1>8, <3>1
      <3>4. run'.status \notin Terminal \cup {"Created"}  BY <1>2, <1>5 DEF GoesOn, Closing
      <3>5. ActiveSteps(run)' = {n}  BY <1>2, <1>5
      <3> QED  BY <2>1, <3>2, <3>3, <3>4, <3>5 DEF LoopInv
    <2>7. AskInv'
      <3>1. Asked(dispatch(n), r, <<>>)
        BY <1>2, <1>8 DEF Asked, Quiet
      <3> QED  BY <1>5, <1>12, <3>1 DEF Dispatches, AskInv
    <2> QED  BY <2>2, <2>3, <2>5, <2>6, <2>7 DEF WorkflowInv
  <1>13. CASE Unsaved /\ started' = started
    <2>1. active' \in Attempts \cup {None} /\ signals' \in Seq(Sigs) /\ loop' \in LoopStates
      BY <1>13 DEF Unsaved, DeadLoops, LoopStates, Ended
    <2>2. TypeOK'
      BY <1>4, <1>5, <1>10, <2>1, Types DEF TypeOK, Sigs, Stores
    <2>3. RunInv(run)'
      BY <1>2, <1>5, <1>11 DEF RunInv, Sound
    <2>4. Open' = Open  BY <1>13 DEF Open
    <2>5. StoreInv'
      BY <1>13, <2>4 DEF Unsaved, WorkflowInv, StoreInv, RunInv
    <2>6. \A m \in Nodes : started'[m] <= r.steps[m].attempts
      <3> SUFFICES ASSUME NEW m \in Nodes PROVE started'[m] <= r.steps[m].attempts  OBVIOUS
      <3>1. started[m] <= run.steps[m].attempts  BY DEF WorkflowInv, RecordInv
      <3>2. started[m] \in Nat /\ run.steps[m].attempts \in Nat  BY Types DEF Runs, Steps
      <3> QED  BY <1>2, <1>13, <3>1, <3>2
    <2>7. RecordInv'
      BY <1>5, <1>13, <2>6 DEF Unsaved, RecordInv, EveryAttemptIsOnRecord, WorkflowInv
    <2>8. LoopInv' /\ AskInv'
      BY <1>4, <1>5, <1>13, Follows DEF Unsaved, DeadLoops
    <2> QED  BY <2>2, <2>3, <2>5, <2>7, <2>8 DEF WorkflowInv
  <1> QED  BY <1>5, <1>12, <1>13

LEMMA OnStepAdmitted ==
    ASSUME WorkflowInv, StepAdmitted
    PROVE  WorkflowInv'
  <1>1. /\ MayAdmit /\ Running /\ active = None
        /\ UNCHANGED <<cancellation, cancel_applied, reported, controls>>
    BY DEF StepAdmitted, MayAdmit
  <1>2. Open = {} /\ StillOpen = Open /\ GoesOn(run) /\ Sound(run)
    BY <1>1, AdmitsWhenClosed, RunningFacts
  <1>3. CASE ready_steps(run) = {}
    <2>1. LoopDies("stalled", None) /\ UNCHANGED <<run, store, faults>>
      BY <1>3 DEF StepAdmitted
    <2>2. /\ loop' = "stalled" /\ active' = None /\ signals' = <<>> /\ started' = started
      BY <2>1 DEF LoopDies, TokenCancelled
    <2> QED  BY <1>1, <1>2, <2>1, <2>2, Types, Unchanged DEF LoopStates, Ended
  <1>4. CASE ready_steps(run) # {}
    <2>1. PICK n \in ready_steps(run) :
            try_apply(Batch(admit(run, n), TRUE, IF admit(run, n).status = "Failed" THEN None ELSE n),
                      active, signals)
      BY <1>4 DEF StepAdmitted
    <2>2. n \in Nodes /\ run.steps[n].status = "Ready"
      BY DEF ready_steps
    <2>3. CASE admit(run, n).status = "Failed"
      <3> DEFINE r == admit(run, n)
      <3>1. try_apply(Batch(r, TRUE, None), active, signals)  BY <2>1, <2>3
      <3>2. /\ Sound(r) /\ r.failed_step = None /\ r.status = "Failed" /\ SameAttempts(run, r)
        BY <1>2, <2>2, <2>3, AdmitSound DEF SameAttempts
      <3> HIDE DEF r
      <3> QED  BY <1>1, <3>1, <3>2, Types, AppliedEnd DEF Closing, Terminal
    <2>4. CASE admit(run, n).status # "Failed"
      <3>1. try_apply(Batch(admit(run, n), TRUE, n), active, signals)  BY <2>1, <2>4
      <3> QED  BY <1>1, <2>2, <2>4, <3>1, OnDispatch
    <2> QED  BY <2>3, <2>4
  <1> QED  BY <1>3, <1>4

-----------------------------------------------------------------------------
(* wait and on_wake *)

Questions == {"permission", "input", "checkpoint"}

\* How the signals not yet received look once the first of them is received.
LEMMA NextSignal ==
    ASSUME NEW s \in Seq(Sigs), s # <<>>
    PROVE  /\ Head(s) \in Sigs /\ Tail(s) \in Seq(Sigs)
           /\ Quiet(s) => Quiet(Tail(s)) /\ Head(s) = "usage"
           /\ \A x \in Questions : Pends(s, x) =>
                IF Head(s) = "usage" THEN Pends(Tail(s), x) ELSE Head(s) = x /\ Tail(s) = <<>>
  <1>1. Len(s) \in Nat /\ Len(s) > 0 /\ DOMAIN s = 1..Len(s) /\ Head(s) = s[1] /\ s[1] \in Sigs
    OBVIOUS
  <1>2. /\ Tail(s) \in Seq(Sigs) /\ Len(Tail(s)) = Len(s) - 1
        /\ \A i \in 1..(Len(s) - 1) : Tail(s)[i] = s[i + 1]
    OBVIOUS
  <1>3. Quiet(s) => Quiet(Tail(s)) /\ Head(s) = "usage"
    <2>1. DOMAIN Tail(s) = 1..(Len(s) - 1)  BY <1>2
    <2> QED  BY <1>1, <1>2, <2>1 DEF Quiet
  <1>4. ASSUME NEW x \in Questions, Pends(s, x)
        PROVE  IF Head(s) = "usage" THEN Pends(Tail(s), x) ELSE Head(s) = x /\ Tail(s) = <<>>
    <2>1. s[Len(s)] = x /\ \A i \in 1..(Len(s) - 1) : s[i] = "usage"  BY <1>4 DEF Pends
    <2>2. x # "usage"  BY DEF Questions
    <2>3. CASE Len(s) = 1
      <3>1. Len(Tail(s)) = 0  BY <1>2, <2>3
      <3> DEFINE t == Tail(s)
      <3>2. t \in Seq(Sigs) /\ Len(t) = 0  BY <1>2, <3>1
      <3> HIDE DEF t
      <3>3. t = <<>>  BY <3>2
      <3>4. Tail(s) = <<>>  BY <3>3 DEF t
      <3> QED  BY <1>1, <2>1, <2>2, <2>3, <3>4
    <2>4. CASE Len(s) # 1
      <3>1. Head(s) = "usage"  BY <1>1, <2>1, <2>4
      <3>2. Tail(s)[Len(Tail(s))] = x
        BY <1>1, <1>2, <2>1, <2>4
      <3>3. \A i \in 1..(Len(Tail(s)) - 1) : Tail(s)[i] = "usage"
        BY <1>1, <1>2, <2>1
      <3>4. Tail(s) # <<>>  BY <1>1, <1>2, <2>4
      <3> QED  BY <3>1, <3>2, <3>3, <3>4 DEF Pends
    <2> QED  BY <2>3, <2>4
  <1> QED  BY <1>1, <1>2, <1>3, <1>4

LEMMA NothingPends ==
    ASSUME NEW s \in Seq(Sigs), Quiet(s), NEW x \in Questions
    PROVE  ~Pends(s, x)
  <1>1. s # <<>> => Len(s) \in DOMAIN s  OBVIOUS
  <1> QED  BY <1>1 DEF Quiet, Pends, Questions

\* A run that keeps its attempts in flight keeps the open ones.
LEMMA KeepsOpen ==
    ASSUME WorkflowInv, Running, NEW r, ActiveSteps(run) \subseteq ActiveSteps(r),
           ~GoesOn(run) => r.status \in Closing, r.failed_step = None
    PROVE  OpenInv(r, Open)
  BY RunningFacts DEF OpenInv

LEMMA OnPaused ==
    ASSUME WorkflowInv, Running, NEW p \in BOOLEAN,
           try_apply(Batch(settle([run EXCEPT !.paused = p]), TRUE, None), active, signals),
           controls' \in 0..MaxControls, UNCHANGED <<cancellation, cancel_applied, reported>>
    PROVE  WorkflowInv'
  <1> DEFINE r == settle([run EXCEPT !.paused = p])
  <1>1. /\ Sound(run) /\ run.status \notin Terminal \cup {"Created"} /\ run.failed_step = None
        /\ StillOpen = Open
    BY RunningFacts
  <1>2. /\ Sound(r) /\ ActiveSteps(r) = ActiveSteps(run) /\ (GoesOn(r) <=> GoesOn(run))
        /\ run.status \in Closing => r.status = run.status
        /\ r.steps = run.steps /\ r.failed_step = run.failed_step
    BY <1>1, PauseSound
  <1>3. try_apply(Batch(r, TRUE, None), active, signals)  OBVIOUS
  <1> HIDE DEF r
  <1>4. ~GoesOn(run) => r.status \in Closing  BY <1>1, <1>2 DEF GoesOn
  <1>5. OpenInv(r, StillOpen)  BY <1>1, <1>2, <1>4, KeepsOpen
  <1>6. r.status # "Created"  BY <1>1, <1>2, <1>4 DEF GoesOn, Closing, Terminal
  <1>7. Agrees(active, run, signals)  BY RunningFacts
  <1>8. r.status \notin Terminal  BY <1>1, <1>2 DEF GoesOn, Closing
  <1>9. Agrees(active, r, signals)
    BY <1>1, <1>2, <1>7 DEF Agrees, Asked
  <1>10. SameAttempts(run, r)  BY <1>2 DEF SameAttempts
  <1> QED  BY <1>1, <1>2, <1>3, <1>5, <1>6, <1>9, <1>10, Types, Applied

LEMMA OnPause ==
    ASSUME WorkflowInv, Pause
    PROVE  WorkflowInv'
  <1>1. controls' \in 0..MaxControls  BY Types DEF Pause
  <1> QED  BY <1>1, OnPaused DEF Pause, Waiting, pause

LEMMA OnResume ==
    ASSUME WorkflowInv, Resume
    PROVE  WorkflowInv'
  BY Types, OnPaused DEF Resume, Waiting, resume

\* The attempt is the one in flight of a run that goes on.
LEMMA InFlightFacts ==
    ASSUME WorkflowInv, Running, active # None, run.steps[active.node].status \in ActiveStatus
    PROVE  /\ active \in Attempts /\ active.node \in ActiveSteps(run) /\ active.node \in Nodes
           /\ GoesOn(run) /\ Sound(run) /\ FlagInv(run) /\ run.failed_step = None
           /\ ActiveSteps(run) = {active.node} /\ Open \subseteq {active.node}
           /\ active.attempt = run.steps[active.node].attempts
           /\ Asked(active, run, signals)
  <1>1. active \in Attempts  BY Types
  <1>2. active.node \in Nodes  BY <1>1 DEF Attempts
  <1>3. active.node \in ActiveSteps(run)  BY <1>2 DEF ActiveSteps
  <1>4. GoesOn(run)  BY <1>3, RunningFacts
  <1>5. Sound(run) /\ FlagInv(run)  BY RunningFacts DEF Sound
  <1> QED  BY <1>1, <1>2, <1>3, <1>4, <1>5, RunningFacts

\* A command about the step in flight that leaves it in flight.
LEMMA AppliedInFlight ==
    ASSUME WorkflowInv, Running, active # None, run.steps[active.node].status \in ActiveStatus,
           NEW r, NEW act \in Attempts, NEW rest \in Seq(Sigs),
           try_apply(Batch(r, TRUE, None), act, rest),
           Sound(r), GoesOn(r), ActiveSteps(r) = {active.node}, SameAttempts(run, r),
           act.node = active.node, act.attempt = active.attempt, Asked(act, r, rest),
           UNCHANGED <<cancellation, cancel_applied, reported, controls>>
    PROVE  WorkflowInv'
  <1>1. /\ Open \subseteq {active.node} /\ active.node \in Nodes
        /\ active.attempt = run.steps[active.node].attempts
    BY InFlightFacts
  <1>2. StillOpen = Open  BY RunningFacts
  <1>3. OpenInv(r, StillOpen)  BY <1>1, <1>2 DEF OpenInv
  <1>4. act # None  BY RunnerAssumption
  <1>5. kind[active.node] \in AgentKinds => started[active.node] = reported[active.node] + 1
    BY RunningFacts
  <1>6. Agrees(act, r, rest)
    BY <1>1, <1>4, <1>5 DEF Agrees, SameAttempts
  <1>7. r.status # "Created"  BY DEF GoesOn
  <1> QED  BY <1>2, <1>3, <1>6, <1>7, Types, Applied

LEMMA OnResolvePermission ==
    ASSUME WorkflowInv, resolve_permission
    PROVE  WorkflowInv'
  <1> DEFINE n == active.node
             r == permission_resolved(run, n)
             act == [active EXCEPT !.task = "work"]
  <1>1. /\ Running /\ active # None /\ run.steps[n].pending_permission
        /\ try_apply(Batch(r, TRUE, None), act, signals)
        /\ UNCHANGED <<cancellation, cancel_applied, reported, controls>>
    BY DEF resolve_permission, Waiting, Step
  <1>2. active \in Attempts  BY <1>1, Types
  <1>3. n \in Nodes  BY <1>2 DEF Attempts
  <1>4. run.steps[n].status = "WaitingForPermission"
    BY <1>1, <1>3, RunningFacts DEF Sound, FlagInv
  <1>5. /\ GoesOn(run) /\ Sound(run) /\ n \in ActiveSteps(run) /\ Asked(active, run, signals)
    BY <1>1, <1>4, InFlightFacts DEF ActiveStatus
  <1>6. /\ Sound(r) /\ GoesOn(r) /\ ActiveSteps(r) = {n} /\ SameAttempts(run, r)
        /\ r.steps[n].status = "Running"
    BY <1>4, <1>5, PermissionResolvedSound
  <1>7. /\ act \in Attempts /\ act.node = n /\ act.attempt = active.attempt /\ act.task = "work"
    BY <1>2 DEF Attempts, TaskStates
  <1>8. Quiet(signals)  BY <1>4, <1>5 DEF Asked
  <1> HIDE DEF r, act
  <1>9. Asked(act, r, signals)  BY <1>6, <1>7, <1>8 DEF Asked
  <1> HIDE DEF n
  <1> QED  BY <1>1, <1>4, <1>6, <1>7, <1>9, Types, AppliedInFlight DEF n, ActiveStatus

LEMMA OnResolveInput ==
    ASSUME WorkflowInv, resolve_input
    PROVE  WorkflowInv'
  <1>0. PICK decision \in approval_decisions(active.node, active.attempt) :
            try_apply(Batch(input_resolved(run, active.node), TRUE, None),
                      IF active.task # "asking" THEN active
                      ELSE [active EXCEPT !.task = "over", !.result = decision], signals)
    BY DEF resolve_input
  <1> DEFINE n == active.node
             r == input_resolved(run, n)
             act == IF active.task # "asking" THEN active
                    ELSE [active EXCEPT !.task = "over", !.result = decision]
  <1>1. /\ Running /\ active # None /\ run.steps[n].pending_input
        /\ try_apply(Batch(r, TRUE, None), act, signals)
        /\ UNCHANGED <<cancellation, cancel_applied, reported, controls>>
    BY <1>0 DEF resolve_input, Waiting, Step
  <1>2. active \in Attempts  BY <1>1, Types
  <1>3. n \in Nodes  BY <1>2 DEF Attempts
  <1>4. run.steps[n].status = "WaitingForInput"
    BY <1>1, <1>3, RunningFacts DEF Sound, FlagInv
  <1>5. /\ GoesOn(run) /\ Sound(run) /\ n \in ActiveSteps(run) /\ Asked(active, run, signals)
    BY <1>1, <1>4, InFlightFacts DEF ActiveStatus
  <1>6. /\ Sound(r) /\ GoesOn(r) /\ ActiveSteps(r) = {n} /\ SameAttempts(run, r)
        /\ r.steps[n].status = "Running"
    BY <1>4, <1>5, InputResolvedSound
  <1>7. decision \in Results  BY DEF approval_decisions, Results, Reasons
  <1>8. Quiet(signals)  BY <1>4, <1>5 DEF Asked
  <1>9. \A x \in Questions : ~Pends(signals, x)  BY <1>8, Types, NothingPends
  <1>10. active.task \in {"work", "over", "asking"}
    BY <1>2, <1>4, <1>5, <1>9 DEF Asked, Questions, Attempts, TaskStates
  <1>11. /\ act \in Attempts /\ act.node = n /\ act.attempt = active.attempt
         /\ act.task \in {"work", "over"}
    <2>1. CASE active.task # "asking"  BY <1>2, <1>10, <2>1
    <2>2. CASE active.task = "asking"
      BY <1>2, <1>7, <2>2 DEF Attempts, TaskStates
    <2> QED  BY <2>1, <2>2
  <1> HIDE DEF r, act
  <1>12. Asked(act, r, signals)  BY <1>6, <1>8, <1>11 DEF Asked
  <1> HIDE DEF n
  <1> QED  BY <1>1, <1>4, <1>6, <1>11, <1>12, Types, AppliedInFlight DEF n, ActiveStatus

\* A signal that changes neither the run nor the attempt in flight.
LEMMA OnIgnored ==
    ASSUME WorkflowInv, Running, active # None, NEW act \in Attempts, NEW rest \in Seq(Sigs),
           act.node = active.node, act.attempt = active.attempt,
           GoesOn(run) => Asked(act, run, rest),
           active' = act, signals' = rest,
           UNCHANGED <<run, loop, store, started, faults>>,
           UNCHANGED <<cancellation, cancel_applied, reported, controls>>
    PROVE  WorkflowInv'
  <1>1. act # None  BY RunnerAssumption
  <1>2. StillOpen = Open /\ Agrees(active, run, signals)  BY RunningFacts
  <1>3. Agrees(act, run, rest)
    BY <1>1, <1>2 DEF Agrees
  <1> QED  BY <1>2, <1>3, Types, Unchanged DEF Running

LEMMA OnUsage ==
    ASSUME WorkflowInv, on_signal, Head(signals) = "usage"
    PROVE  WorkflowInv'
  <1> DEFINE act == [active EXCEPT !.usage = 1]
             rest == Tail(signals)
  <1>1. /\ Running /\ active # None /\ signals # <<>>
        /\ UNCHANGED <<cancellation, cancel_applied, reported, controls>>
    BY DEF on_signal, Waiting
  <1>2. IF OverBudget THEN try_apply(Batch(abort(run), TRUE, None), act, rest)
        ELSE /\ active' = act /\ signals' = rest
             /\ UNCHANGED <<run, loop, store, started, faults>>
    BY DEF on_signal
  <1>3. active \in Attempts /\ signals \in Seq(Sigs)  BY <1>1, Types
  <1>4. /\ act \in Attempts /\ act.node = active.node /\ act.attempt = active.attempt
        /\ act.task = active.task /\ act.result = active.result
    BY <1>3 DEF Attempts
  <1>5. act.stalled = active.stalled  BY <1>3 DEF Attempts
  <1>6. /\ rest \in Seq(Sigs)
        /\ Quiet(signals) => Quiet(rest)
        /\ \A x \in Questions : Pends(signals, x) => Pends(rest, x)
    BY <1>1, <1>3, NextSignal
  <1>7. GoesOn(run) => Asked(active, run, signals)  BY <1>1, RunningFacts
  <1> HIDE DEF act, rest
  <1>8. GoesOn(run) => Asked(act, run, rest)
    BY <1>4, <1>5, <1>6, <1>7 DEF Asked, Questions
  <1>9. CASE OverBudget
    BY <1>1, <1>2, <1>4, <1>6, <1>9, OnAbort
  <1>10. CASE ~OverBudget
    BY <1>1, <1>2, <1>4, <1>6, <1>8, <1>10, OnIgnored
  <1> QED  BY <1>9, <1>10

\* A question reaches the loop only while its step runs, and as the last
\* signal.
LEMMA OnQuestion ==
    ASSUME WorkflowInv, Running, active # None, signals # <<>>, Head(signals) \in Questions
    PROVE  /\ active \in Attempts /\ Tail(signals) \in Seq(Sigs)
           /\ ~InFlight => ~GoesOn(run)
           /\ InFlight =>
                /\ active.node \in ActiveSteps(run) /\ GoesOn(run) /\ Sound(run)
                /\ run.steps[active.node].status = "Running"
                /\ Tail(signals) = <<>>
                /\ \A x \in Questions : Pends(signals, x) => x = Head(signals)
                /\ ~Quiet(signals)
                /\ Asked(active, run, signals)
  <1> DEFINE n == active.node
  <1>1. active \in Attempts /\ signals \in Seq(Sigs)  BY Types
  <1>2. n \in Nodes  BY <1>1 DEF Attempts
  <1>3. GoesOn(run) => InFlight
    BY <1>2, RunningFacts DEF InFlight, active_attempt, ActiveSteps
  <1>4. InFlight => run.steps[n].status \in ActiveStatus
    BY DEF InFlight, active_attempt
  <1>5. InFlight => /\ n \in ActiveSteps(run) /\ GoesOn(run) /\ Sound(run)
                    /\ Asked(active, run, signals)
    BY <1>4, InFlightFacts
  <1>6. Head(signals) # "usage"  BY DEF Questions
  <1>7. ~Quiet(signals) /\ Tail(signals) \in Seq(Sigs)  BY <1>1, <1>6, NextSignal
  <1>8. \A x \in Questions : Pends(signals, x) => Head(signals) = x /\ Tail(signals) = <<>>
    BY <1>1, <1>6, NextSignal
  <1>9. InFlight => /\ run.steps[n].status = "Running"
                    /\ \E x \in Questions : Pends(signals, x)
    BY <1>5, <1>7 DEF Asked, Questions
  <1> QED  BY <1>1, <1>3, <1>5, <1>7, <1>8, <1>9

LEMMA OnPermissionSignal ==
    ASSUME WorkflowInv, on_signal, Head(signals) = "permission"
    PROVE  WorkflowInv'
  <1> DEFINE n == active.node
             r == permission_required(run, n)
             rest == Tail(signals)
  <1>1. /\ Running /\ active # None /\ signals # <<>> /\ Head(signals) \in Questions
        /\ UNCHANGED <<cancellation, cancel_applied, reported, controls>>
    BY DEF on_signal, Waiting, Questions
  <1>2. IF InFlight THEN try_apply(Batch(r, TRUE, None), active, rest)
        ELSE /\ active' = active /\ signals' = rest
             /\ UNCHANGED <<run, loop, store, started, faults>>
    BY DEF on_signal
  <1>3. active \in Attempts /\ rest \in Seq(Sigs)  BY <1>1, OnQuestion
  <1>4. CASE InFlight
    <2>1. /\ n \in ActiveSteps(run) /\ GoesOn(run) /\ Sound(run)
          /\ run.steps[n].status = "Running" /\ rest = <<>>
          /\ \A x \in Questions : Pends(signals, x) => x = "permission"
          /\ ~Quiet(signals) /\ Asked(active, run, signals)
      BY <1>1, <1>4, OnQuestion
    <2>2. /\ Sound(r) /\ GoesOn(r) /\ ActiveSteps(r) = {n} /\ SameAttempts(run, r)
          /\ r.steps[n].status = "WaitingForPermission"
      BY <2>1, PermissionRequiredSound
    <2>3. active.task \in {"over", "permission"} /\ ~(active.task = "over" /\ active.result = "ok" /\ ~active.stalled)
      BY <1>3, <2>1 DEF Asked, Questions, Attempts, TaskStates
    <2> HIDE DEF r
    <2>4. Quiet(rest)  BY <2>1 DEF Quiet
    <2>5. Asked(active, r, rest)  BY <2>2, <2>3, <2>4 DEF Asked
    <2>6. run.steps[active.node].status \in ActiveStatus  BY <2>1 DEF ActiveStatus
    <2>7. try_apply(Batch(r, TRUE, None), active, rest)  BY <1>2, <1>4
    <2> HIDE DEF n, rest
    <2> QED  BY <1>1, <1>3, <2>2, <2>5, <2>6, <2>7, AppliedInFlight DEF n
  <1>5. CASE ~InFlight
    <2>1. ~GoesOn(run)  BY <1>1, <1>5, OnQuestion
    <2> QED  BY <1>1, <1>2, <1>3, <1>5, <2>1, OnIgnored
  <1> QED  BY <1>4, <1>5

LEMMA OnInputSignal ==
    ASSUME WorkflowInv, on_signal, Head(signals) = "input"
    PROVE  WorkflowInv'
  <1> DEFINE n == active.node
             r == input_required(run, n)
             rest == Tail(signals)
  <1>1. /\ Running /\ active # None /\ signals # <<>> /\ Head(signals) \in Questions
        /\ UNCHANGED <<cancellation, cancel_applied, reported, controls>>
    BY DEF on_signal, Waiting, Questions
  <1>2. IF InFlight THEN try_apply(Batch(r, TRUE, None), active, rest)
        ELSE /\ active' = active /\ signals' = rest
             /\ UNCHANGED <<run, loop, store, started, faults>>
    BY DEF on_signal
  <1>3. active \in Attempts /\ rest \in Seq(Sigs)  BY <1>1, OnQuestion
  <1>4. CASE InFlight
    <2>1. /\ n \in ActiveSteps(run) /\ GoesOn(run) /\ Sound(run)
          /\ run.steps[n].status = "Running" /\ rest = <<>>
          /\ \A x \in Questions : Pends(signals, x) => x = "input"
          /\ ~Quiet(signals) /\ Asked(active, run, signals)
      BY <1>1, <1>4, OnQuestion
    <2>2. /\ Sound(r) /\ GoesOn(r) /\ ActiveSteps(r) = {n} /\ SameAttempts(run, r)
          /\ r.steps[n].status = "WaitingForInput"
      BY <2>1, InputRequiredSound
    <2>3. active.task \in {"over", "asking"} /\ ~(active.task = "over" /\ active.result = "ok" /\ ~active.stalled)
      BY <1>3, <2>1 DEF Asked, Questions, Attempts, TaskStates
    <2> HIDE DEF r
    <2>4. Quiet(rest)  BY <2>1 DEF Quiet
    <2>5. Asked(active, r, rest)  BY <2>2, <2>3, <2>4 DEF Asked
    <2>6. run.steps[active.node].status \in ActiveStatus  BY <2>1 DEF ActiveStatus
    <2>7. try_apply(Batch(r, TRUE, None), active, rest)  BY <1>2, <1>4
    <2> HIDE DEF n, rest
    <2> QED  BY <1>1, <1>3, <2>2, <2>5, <2>6, <2>7, AppliedInFlight DEF n
  <1>5. CASE ~InFlight
    <2>1. ~GoesOn(run)  BY <1>1, <1>5, OnQuestion
    <2> QED  BY <1>1, <1>2, <1>3, <1>5, <2>1, OnIgnored
  <1> QED  BY <1>4, <1>5

\* The loop ends on a refused command; the run and the store stay.
LEMMA OnRefused ==
    ASSUME WorkflowInv, Running, NEW act \in Attempts \cup {None}, Refused(act),
           StillOpen \subseteq Open, reported' \in [Nodes -> Nat],
           UNCHANGED <<cancellation, cancel_applied, controls>>
    PROVE  WorkflowInv'
  <1>1. /\ loop' = "rejected" /\ active' = TokenCancelled(act) /\ signals' = <<>>
        /\ UNCHANGED <<run, store, faults, started>>
    BY DEF Refused, LoopDies
  <1>2. active' \in Attempts \cup {None}  BY <1>1, TokenFacts
  <1> QED  BY <1>1, <1>2, Types, Unchanged DEF LoopStates, Ended

LEMMA OnCheckpointSignal ==
    ASSUME WorkflowInv, on_signal, Head(signals) = "checkpoint"
    PROVE  WorkflowInv'
  <1> DEFINE n == active.node
             r == record_checkpoint(run, n)
             rest == Tail(signals)
             act == IF active.task = "checkpoint" THEN [active EXCEPT !.task = "work"] ELSE active
  <1>1. /\ Running /\ active # None /\ signals # <<>> /\ Head(signals) \in Questions
        /\ UNCHANGED <<cancellation, cancel_applied, reported, controls>>
    BY DEF on_signal, Waiting, Questions
  <1>2. IF InFlight THEN try_apply(Batch(r, TRUE, None), act, rest)
        ELSE Refused(active)
    BY DEF on_signal
  <1>3. active \in Attempts /\ rest \in Seq(Sigs)  BY <1>1, OnQuestion
  <1>4. CASE InFlight
    <2>1. /\ n \in ActiveSteps(run) /\ GoesOn(run) /\ Sound(run)
          /\ run.steps[n].status = "Running" /\ rest = <<>>
          /\ \A x \in Questions : Pends(signals, x) => x = "checkpoint"
          /\ ~Quiet(signals) /\ Asked(active, run, signals)
      BY <1>1, <1>4, OnQuestion
    <2>2. n \in Nodes  BY <2>1 DEF ActiveSteps
    <2>3. /\ Sound(r) /\ ActiveSteps(r) = ActiveSteps(run) /\ r.status = run.status
          /\ SameAttempts(run, r) /\ r.steps[n].status = "Running"
      BY <2>1, <2>2, CheckpointSound
    <2>4. ActiveSteps(run) = {n}  BY <2>1, GoingOn
    <2>5. active.task \in {"over", "checkpoint"}
      BY <1>3, <2>1 DEF Asked, Questions, Attempts, TaskStates
    <2>6. /\ act \in Attempts /\ act.node = n /\ act.attempt = active.attempt
          /\ act.task \in {"work", "over"}
      <3>1. CASE active.task = "checkpoint"
        BY <1>3, <3>1 DEF Attempts, TaskStates
      <3>2. CASE active.task # "checkpoint"
        BY <1>3, <2>5, <3>2
      <3> QED  BY <3>1, <3>2
    <2> HIDE DEF r, act
    <2>7. Quiet(rest)  BY <2>1 DEF Quiet
    <2>8. Asked(act, r, rest)  BY <2>3, <2>6, <2>7 DEF Asked
    <2>9. run.steps[active.node].status \in ActiveStatus  BY <2>1 DEF ActiveStatus
    <2>10. GoesOn(r)  BY <2>1, <2>3 DEF GoesOn
    <2>11. try_apply(Batch(r, TRUE, None), act, rest)  BY <1>2, <1>4
    <2> HIDE DEF n, rest
    <2> QED  BY <1>1, <1>3, <2>3, <2>4, <2>6, <2>8, <2>9, <2>10, <2>11, AppliedInFlight DEF n
  <1>5. CASE ~InFlight
    <2>1. StillOpen \subseteq Open /\ reported' \in [Nodes -> Nat]  BY <1>1, Types, RunningFacts
    <2> QED  BY <1>1, <1>2, <1>3, <1>5, <2>1, OnRefused
  <1> QED  BY <1>4, <1>5

LEMMA OnSignal ==
    ASSUME WorkflowInv, on_signal
    PROVE  WorkflowInv'
  <1>1. signals \in Seq(Sigs) /\ signals # <<>>  BY Types DEF on_signal
  <1>2. Head(signals) \in Sigs  BY <1>1, NextSignal
  <1> QED  BY <1>2, OnUsage, OnPermissionSignal, OnInputSignal, OnCheckpointSignal DEF Sigs

LEMMA OnStalled ==
    ASSUME WorkflowInv, on_stalled
    PROVE  WorkflowInv'
  <1> DEFINE act == [active EXCEPT !.stalled = TRUE, !.token = TRUE]
  <1>1. /\ Running /\ active # None /\ active' = act /\ signals' = signals
        /\ UNCHANGED <<run, loop, store, started, faults>>
        /\ UNCHANGED <<cancellation, cancel_applied, reported, controls>>
    BY DEF on_stalled, Waiting
  <1>2. active \in Attempts /\ signals \in Seq(Sigs)  BY <1>1, Types
  <1>3. /\ act \in Attempts /\ act.node = active.node /\ act.attempt = active.attempt
        /\ act.task = active.task /\ act.result = active.result
    BY <1>2 DEF Attempts
  <1>4. act.stalled = TRUE  BY <1>2 DEF Attempts
  <1>5. GoesOn(run) => Asked(active, run, signals)  BY <1>1, RunningFacts
  <1> HIDE DEF act
  <1>6. GoesOn(run) => Asked(act, run, signals)
    BY <1>3, <1>4, <1>5 DEF Asked
  <1> QED  BY <1>1, <1>2, <1>3, <1>6, OnIgnored

LEMMA ErrorFacts ==
    ASSUME active \in Attempts
    PROVE  attempt_error \in Errors
  <1> DEFINE reason == IF active.stalled THEN "BackendTimeout"
                       ELSE IF active.result = "changes_approved" THEN "ChangesRequested"
                       ELSE active.result
             code == IF active.result = "changes_approved" /\ ~active.stalled
                     THEN "changes_approved" ELSE "other"
  <1>1. active.result \in Results  BY DEF Attempts
  <1>2. reason \in Results  BY <1>1 DEF Results, Reasons
  <1>3. code \in {"none", "other", "changes_approved"}  OBVIOUS
  <1>4. attempt_error = [reason |-> reason, code |-> code]  BY DEF attempt_error
  <1> HIDE DEF reason, code
  <1> QED  BY <1>2, <1>3, <1>4 DEF Errors

\* The end of the attempt in flight closes it.
LEMMA Closes ==
    ASSUME WorkflowInv, Running, GoesOn(run), active # None,
           reported' = [reported EXCEPT ![active.node] = @ + 1]
    PROVE  StillOpen = {} /\ reported' \in [Nodes -> Nat]
  <1> DEFINE n == active.node
  <1>1. active \in Attempts  BY Types
  <1>2. n \in Nodes  BY <1>1 DEF Attempts
  <1>3. Open \subseteq {n}  BY RunningFacts
  <1>4. kind[n] \in AgentKinds => started[n] = reported[n] + 1  BY RunningFacts
  <1>5. reported' \in [Nodes -> Nat]  BY <1>2, Types
  <1>6. reported'[n] = reported[n] + 1 /\ \A m \in Nodes \ {n} : reported'[m] = reported[m]
    BY <1>2, Types
  <1>7. StillOpen = {}
    BY <1>3, <1>4, <1>6 DEF StillOpen, Open
  <1> QED  BY <1>5, <1>7

LEMMA OnStepDone ==
    ASSUME WorkflowInv, on_step_done
    PROVE  WorkflowInv'
  <1> DEFINE n == active.node
             drained == "usage" \in {signals[i] : i \in DOMAIN signals}
             used == IF drained THEN 1 ELSE active.usage
  <1>1. /\ Running /\ active # None /\ active.task = "over"
        /\ UNCHANGED <<cancellation, cancel_applied, controls>>
    BY DEF on_step_done, Waiting
  <1>2. active \in Attempts /\ <<>> \in Seq(Sigs)  BY <1>1, Types
  <1>3. n \in Nodes /\ used \in Nat  BY <1>2 DEF Attempts
  <1>4. \/ /\ try_apply(Batch(abort(run), TRUE, None), None, <<>>)
           /\ UNCHANGED reported
        \/ /\ run.status = "Cancelling" /\ active' = None /\ signals' = <<>>
           /\ UNCHANGED <<run, loop, store, started, reported, faults>>
        \/ /\ run.status # "Cancelling" /\ reported' = [reported EXCEPT ![n] = @ + 1]
           /\ \/ /\ CanSucceed(run, n, active.attempt)
                 /\ try_apply(Batch(succeed(run, n, used), TRUE, None), None, <<>>)
              \/ /\ CanFail(run, n, active.attempt)
                 /\ try_apply(Batch(fail(run, n, attempt_error, used), TRUE, None), None, <<>>)
              \/ Refused(None)
    BY DEF on_step_done
  <1> HIDE DEF used, drained
  <1>5. CASE /\ try_apply(Batch(abort(run), TRUE, None), None, <<>>)
             /\ UNCHANGED reported
    BY <1>1, <1>2, <1>5, OnAbort
  <1>6. CASE /\ run.status = "Cancelling" /\ active' = None /\ signals' = <<>>
             /\ UNCHANGED <<run, loop, store, started, reported, faults>>
    <2>1. ~GoesOn(run) /\ StillOpen = Open  BY <1>1, <1>6, RunningFacts
    <2>2. Agrees(active', run, signals')  BY <1>6, <2>1 DEF Agrees
    <2> QED  BY <1>1, <1>2, <1>6, <2>1, <2>2, Types, Unchanged DEF Running
  <1>7. ASSUME run.status # "Cancelling", reported' = [reported EXCEPT ![n] = @ + 1],
               CanSucceed(run, n, active.attempt),
               try_apply(Batch(succeed(run, n, used), TRUE, None), None, <<>>)
        PROVE  WorkflowInv'
    <2> DEFINE r == succeed(run, n, used)
    <2>1. GoesOn(run) /\ Sound(run)  BY <1>1, <1>7, RunningFacts
    <2>2. StillOpen = {} /\ reported' \in [Nodes -> Nat]  BY <1>1, <1>7, <2>1, Closes
    <2>3. /\ n \in ActiveSteps(run) /\ run.steps[n].status = "Running"
          /\ kind[n] = "Output" \/ CanActivate(run, OnSuccess[n])
      BY <1>3, <1>7 DEF CanSucceed, active_attempt, ActiveSteps
    <2>4. /\ Sound(r) /\ ActiveSteps(r) = {} /\ SameAttempts(run, r)
          /\ GoesOn(r) \/ r.status = "Completed"
      BY <1>3, <2>1, <2>3, SucceedSound
    <2>5. try_apply(Batch(r, TRUE, None), None, <<>>)  BY <1>7
    <2> HIDE DEF r
    <2>6. /\ Agrees(None, r, <<>>) /\ OpenInv(r, StillOpen) /\ r.status # "Created"
          /\ StillOpen \subseteq Open
      BY <2>2, <2>4 DEF Agrees, OpenInv, GoesOn
    <2> QED  BY <1>1, <1>2, <2>2, <2>4, <2>5, <2>6, Types, Applied
  <1>8. ASSUME run.status # "Cancelling", reported' = [reported EXCEPT ![n] = @ + 1],
               CanFail(run, n, active.attempt),
               try_apply(Batch(fail(run, n, attempt_error, used), TRUE, None), None, <<>>)
        PROVE  WorkflowInv'
    <2> DEFINE r == fail(run, n, attempt_error, used)
    <2>1. GoesOn(run) /\ Sound(run)  BY <1>1, <1>8, RunningFacts
    <2>2. StillOpen = {} /\ reported' \in [Nodes -> Nat]  BY <1>1, <1>8, <2>1, Closes
    <2>3. /\ n \in ActiveSteps(run)
          /\ OnFailure[n] # None => CanActivate(run, OnFailure[n])
      BY <1>3, <1>8 DEF CanFail, active_attempt, ActiveSteps
    <2>4. attempt_error \in Errors  BY <1>2, ErrorFacts
    <2>5. /\ Sound(r) /\ ActiveSteps(r) = {} /\ SameAttempts(run, r)
          /\ GoesOn(r) \/ r.status = "Failed"
      BY <1>3, <2>1, <2>3, <2>4, FailSound
    <2>6. try_apply(Batch(r, TRUE, None), None, <<>>)  BY <1>8
    <2> HIDE DEF r
    <2>7. /\ Agrees(None, r, <<>>) /\ OpenInv(r, StillOpen) /\ r.status # "Created"
          /\ StillOpen \subseteq Open
      BY <2>2, <2>5 DEF Agrees, OpenInv, GoesOn
    <2> QED  BY <1>1, <1>2, <2>2, <2>5, <2>6, <2>7, Types, Applied
  <1>9. ASSUME run.status # "Cancelling", reported' = [reported EXCEPT ![n] = @ + 1], Refused(None)
        PROVE  WorkflowInv'
    <2>1. GoesOn(run)  BY <1>1, <1>9, RunningFacts
    <2>2. StillOpen = {} /\ reported' \in [Nodes -> Nat]  BY <1>1, <1>9, <2>1, Closes
    <2> QED  BY <1>1, <1>9, <2>2, OnRefused
  <1> QED  BY <1>4, <1>5, <1>6, <1>7, <1>8, <1>9

-----------------------------------------------------------------------------
(* The attempt's task *)

LEMMA SendsSignal ==
    ASSUME NEW s \in Seq(Sigs), Quiet(s), NEW x \in Sigs
    PROVE  /\ Append(s, x) \in Seq(Sigs)
           /\ x = "usage" => Quiet(Append(s, x))
           /\ Pends(Append(s, x), x)
  <1> DEFINE t == Append(s, x)
  <1>1. /\ t \in Seq(Sigs) /\ Len(t) = Len(s) + 1 /\ t[Len(s) + 1] = x
        /\ \A i \in 1..Len(s) : t[i] = s[i]
    OBVIOUS
  <1>2. DOMAIN s = 1..Len(s) /\ Len(s) \in Nat /\ DOMAIN t = 1..(Len(s) + 1)
    BY <1>1
  <1>3. \A i \in 1..Len(s) : t[i] = "usage"  BY <1>1, <1>2 DEF Quiet
  <1>4. t # <<>>  BY <1>1, <1>2
  <1> HIDE DEF t
  <1>5. x = "usage" => Quiet(t)
    BY <1>1, <1>2, <1>3 DEF Quiet
  <1>6. Pends(t, x)  BY <1>1, <1>2, <1>3, <1>4 DEF Pends
  <1> QED  BY <1>1, <1>5, <1>6 DEF t

LEMMA OnReportSignal ==
    ASSUME WorkflowInv, ReportSignal
    PROVE  WorkflowInv'
  <1>1. PICK s \in Signals[active.node] \ active.sent :
            /\ signals' = Append(signals, s)
            /\ active' = [active EXCEPT !.sent = active.sent \cup {s},
                                        !.task = IF s = "usage" THEN "work" ELSE s]
    BY DEF ReportSignal
  <1>2. /\ Running /\ active # None /\ active.task = "work"
        /\ UNCHANGED <<run, loop, store, started, faults>>
        /\ UNCHANGED <<cancellation, cancel_applied, reported, controls>>
    BY DEF ReportSignal, TaskWorks, TaskRuns, TaskOnly
  <1>3. active \in Attempts /\ signals \in Seq(Sigs)  BY <1>2, Types
  <1>4. active.node \in Nodes  BY <1>3 DEF Attempts
  <1>5. s \in {"usage", "permission", "checkpoint"}  BY <1>4, RunnerAssumption
  <1> DEFINE task == IF s = "usage" THEN "work" ELSE s
             sent == active.sent \cup {s}
             act == [active EXCEPT !.sent = sent, !.task = task]
             rest == Append(signals, s)
  <1>6. task \in TaskStates  BY <1>5 DEF TaskStates
  <1>7. sent \in SUBSET {"usage", "permission", "checkpoint"}  BY <1>3, <1>5 DEF Attempts
  <1>8. active' = act /\ signals' = rest  BY <1>1
  <1> HIDE DEF sent
  <1>9. /\ act \in Attempts /\ act.node = active.node /\ act.attempt = active.attempt
        /\ act.task = task
    BY <1>3, <1>6, <1>7 DEF Attempts
  <1>10. GoesOn(run) => Quiet(signals) /\ run.steps[active.node].status = "Running"
    BY <1>2, RunningFacts DEF Asked
  <1>11. s \in Sigs  BY <1>5 DEF Sigs
  <1>12. rest \in Seq(Sigs)  BY <1>3, <1>11
  <1>13. GoesOn(run) => Pends(rest, s) /\ (s = "usage" => Quiet(rest))
    BY <1>3, <1>10, <1>11, SendsSignal
  <1> HIDE DEF act, rest
  <1>14. GoesOn(run) => Asked(act, run, rest)
    BY <1>5, <1>9, <1>10, <1>13 DEF Asked
  <1> QED  BY <1>2, <1>8, <1>9, <1>12, <1>14, OnIgnored

LEMMA OnAsk ==
    ASSUME WorkflowInv, Ask
    PROVE  WorkflowInv'
  <1> DEFINE act == [active EXCEPT !.task = "asking"]
             rest == Append(signals, "input")
  <1>1. /\ Running /\ active # None /\ active.task = "work"
        /\ UNCHANGED <<run, loop, store, started, faults>>
        /\ UNCHANGED <<cancellation, cancel_applied, reported, controls>>
        /\ active' = act /\ signals' = rest
    BY DEF Ask, TaskWorks, TaskRuns, TaskOnly
  <1>2. active \in Attempts /\ signals \in Seq(Sigs) /\ "input" \in Sigs  BY <1>1, Types DEF Sigs
  <1>3. /\ act \in Attempts /\ act.node = active.node /\ act.attempt = active.attempt
        /\ act.task = "asking"
    BY <1>2 DEF Attempts, TaskStates
  <1>4. GoesOn(run) => Quiet(signals) /\ run.steps[active.node].status = "Running"
    BY <1>1, RunningFacts DEF Asked
  <1>5. rest \in Seq(Sigs)  BY <1>2
  <1>6. GoesOn(run) => Pends(rest, "input")
    BY <1>2, <1>4, SendsSignal
  <1> HIDE DEF act, rest
  <1>7. GoesOn(run) => Asked(act, run, rest)
    BY <1>3, <1>4, <1>6 DEF Asked
  <1> QED  BY <1>1, <1>3, <1>5, <1>7, OnIgnored

\* The task is over; it ends well only if it was working.
LEMMA OnTaskOver ==
    ASSUME WorkflowInv, active # None, NEW result \in Results,
           result = "ok" => active.task = "work",
           active' = [active EXCEPT !.task = "over", !.result = result],
           UNCHANGED signals, TaskOnly
    PROVE  WorkflowInv'
  <1> DEFINE act == [active EXCEPT !.task = "over", !.result = result]
  <1>1. /\ UNCHANGED <<run, loop, store, started, faults>>
        /\ UNCHANGED <<cancellation, cancel_applied, reported, controls>>
        /\ active' = act /\ signals' = signals
    BY DEF TaskOnly
  <1>2. active \in Attempts /\ signals \in Seq(Sigs)  BY Types
  <1>3. /\ act \in Attempts /\ act.node = active.node /\ act.attempt = active.attempt
        /\ act.task = "over" /\ act.result = result
    BY <1>2 DEF Attempts, TaskStates
  <1> HIDE DEF act
  <1>4. CASE Running
    <2>1. GoesOn(run) => Asked(active, run, signals)  BY <1>4, RunningFacts
    <2>2. GoesOn(run) => Asked(act, run, signals)
      BY <1>3, <2>1 DEF Asked
    <2> QED  BY <1>1, <1>2, <1>3, <1>4, <2>2, OnIgnored
  <1>5. CASE ~Running
    <2>1. StillOpen = Open  BY <1>1 DEF StillOpen, Open
    <2> QED  BY <1>1, <1>2, <1>3, <1>5, <2>1, Types, Unchanged DEF Running
  <1> QED  BY <1>4, <1>5

LEMMA OnTaskEnds ==
    ASSUME WorkflowInv, TaskEnds \/ TaskTimesOut \/ TaskCancelled
    PROVE  WorkflowInv'
  <1>1. CASE TaskEnds
    <2>1. /\ active # None /\ active.task = "work" /\ UNCHANGED signals /\ TaskOnly
      BY <1>1 DEF TaskEnds, TaskWorks, TaskRuns
    <2>2. PICK result \in execute(active.node) :
            active' = [active EXCEPT !.task = "over", !.result = result]
      BY <1>1 DEF TaskEnds
    <2>3. active \in Attempts  BY <2>1, Types
    <2>4. kind[active.node] \in Kinds  BY <2>3, DefinitionAssumption DEF Attempts
    <2>5. result \in Results  BY <2>4 DEF execute, Results, Reasons, Kinds
    <2> QED  BY <2>1, <2>2, <2>5, OnTaskOver
  <1>2. CASE TaskTimesOut
    <2>1. "BackendTimeout" \in Results  BY DEF Results, Reasons
    <2> QED  BY <1>2, <2>1, OnTaskOver DEF TaskTimesOut, TaskRuns
  <1>3. CASE TaskCancelled
    <2>1. "cancelled" \in Results  BY DEF Results
    <2> QED  BY <1>3, <2>1, OnTaskOver DEF TaskCancelled, TaskRuns
  <1> QED  BY <1>1, <1>2, <1>3

-----------------------------------------------------------------------------
(* The handle, the process and the host *)

LEMMA OnCancelRequested ==
    ASSUME WorkflowInv, CancelRequested
    PROVE  WorkflowInv'
  <1>1. /\ cancellation' = TRUE /\ active' = TokenCancelled(active)
        /\ UNCHANGED <<run, loop, signals, cancel_applied, store, started, reported, faults, controls>>
    BY DEF CancelRequested
  <1>2. active \in Attempts \cup {None}  BY Types
  <1>3. StillOpen = Open  BY <1>1 DEF StillOpen, Open
  <1>4. loop = "running" => Agrees(active', run, signals)
    <2> SUFFICES ASSUME Running PROVE Agrees(active', run, signals)  BY DEF Running
    <2>1. Agrees(active, run, signals)  BY <1>1, RunningFacts
    <2>2. CASE active = None  BY <1>1, <1>2, <2>1, <2>2, TokenFacts
    <2>3. CASE active # None
      <3> DEFINE a == TokenCancelled(active)
      <3>1. active \in Attempts /\ a # None /\ a.node = active.node /\ a.attempt = active.attempt
        BY <1>2, <2>3, TokenFacts
      <3>2. GoesOn(run) => Asked(a, run, signals)
        BY <2>1, <2>3, <3>1, AskedToken DEF Agrees
      <3> HIDE DEF a
      <3>3. Agrees(a, run, signals)  BY <2>1, <2>3, <3>1, <3>2 DEF Agrees
      <3> QED  BY <1>1, <3>3 DEF a
    <2> QED  BY <2>2, <2>3
  <1>5. active' \in Attempts \cup {None}  BY <1>1, <1>2, TokenFacts
  <1> QED  BY <1>1, <1>3, <1>4, <1>5, Types, Unchanged

LEMMA OnCrash ==
    ASSUME WorkflowInv, Crash
    PROVE  WorkflowInv'
  <1>1. /\ faults < MaxFaults /\ faults' = faults + 1
        /\ loop' = "down" /\ active' = None /\ signals' = <<>>
        /\ store' = [store EXCEPT !.cached = FALSE]
        /\ UNCHANGED <<run, cancellation, cancel_applied, started, reported, controls>>
    BY DEF Crash
  <1>2. StillOpen = Open  BY <1>1 DEF StillOpen, Open
  <1>3. store' \in Stores /\ store'.snapshot = store.snapshot  BY <1>1, Types DEF Stores
  <1>4. faults' \in 0..MaxFaults  BY <1>1, Types
  <1> QED  BY <1>1, <1>2, <1>3, <1>4, Types, Unchanged DEF LoopStates, Ended

LEMMA OnResumeRun ==
    ASSUME WorkflowInv, ResumeRun
    PROVE  WorkflowInv'
  <1>1. /\ store.snapshot # None /\ store.snapshot.status \notin Terminal
        /\ run' = store.snapshot /\ loop' = "recover"
        /\ active' = None /\ signals' = <<>>
        /\ cancellation' = FALSE /\ cancel_applied' = FALSE
        /\ UNCHANGED <<store, started, reported, faults, controls>>
    BY DEF ResumeRun
  <1>2. store.snapshot \in Runs  BY <1>1, Types DEF Stores
  <1>3. TypeOK'
    <2>1. /\ run' \in Runs /\ loop' \in LoopStates /\ active' \in Attempts \cup {None}
          /\ signals' \in Seq(Sigs) /\ store' \in Stores
      BY <1>1, <1>2, Types DEF LoopStates
    <2>2. cancellation' \in BOOLEAN /\ cancel_applied' \in BOOLEAN  BY <1>1
    <2> QED  BY <1>1, <2>1, <2>2, Types DEF TypeOK, Stores, Sigs
  <1>4. Open' = Open  BY <1>1 DEF Open
  <1>5. RunInv(run)' /\ StoreInv' /\ store.snapshot.status # "Created"
    BY <1>1, <1>4 DEF WorkflowInv, StoreInv, RunInv
  <1>6. RecordInv'
    BY <1>1 DEF WorkflowInv, RecordInv, EveryAttemptIsOnRecord
  <1>7. LoopInv' /\ AskInv'
    BY <1>1, <1>5 DEF LoopInv, AskInv, Live, Running
  <1> QED  BY <1>3, <1>5, <1>6, <1>7 DEF WorkflowInv

LEMMA OnRetryFailed ==
    ASSUME WorkflowInv, retry_failed
    PROVE  WorkflowInv'
  <1> DEFINE r == Reopened(run)
  <1>1. /\ run.failed_step # None /\ controls < MaxControls /\ controls' = controls + 1
        /\ run' = r /\ loop' = "recover"
        /\ active' = None /\ signals' = <<>>
        /\ cancellation' = FALSE /\ cancel_applied' = FALSE
        /\ store' = [snapshot |-> None, ahead |-> FALSE, cached |-> FALSE]
        /\ UNCHANGED <<started, reported, faults>>
    BY DEF retry_failed
  <1>2. Sound(run) /\ OpenInv(run, Open)  BY DEF WorkflowInv, RunInv, TypeOK, Sound
  <1>3. Open = {}
    <2>1. ActiveSteps(run) = {}
      BY <1>1, <1>2 DEF Sound, FrontInv, Front, ActiveSteps, FrontStatus
    <2> QED  BY <1>1, <1>2, <2>1 DEF OpenInv
  <1>4. Sound(r) /\ GoesOn(r) /\ SameAttempts(run, r)
    BY <1>1, <1>2, ReopenedSound
  <1> HIDE DEF r
  <1>5. store' \in Stores /\ store'.snapshot = None  BY <1>1 DEF Stores
  <1>6. controls' \in 0..MaxControls  BY <1>1, Types
  <1>7. TypeOK'
    <2>1. /\ run' \in Runs /\ loop' \in LoopStates /\ active' \in Attempts \cup {None}
          /\ signals' \in Seq(Sigs)
      BY <1>1, <1>4, Types DEF LoopStates, Sound
    <2>2. cancellation' \in BOOLEAN /\ cancel_applied' \in BOOLEAN  BY <1>1
    <2> QED  BY <1>1, <1>5, <1>6, <2>1, <2>2, Types DEF TypeOK, Stores, Sigs
  <1>8. Open' = Open  BY <1>1 DEF Open
  <1>9. RunInv(run)'
    BY <1>1, <1>3, <1>4, <1>8 DEF RunInv, Sound, OpenInv
  <1>10. StoreInv'  BY <1>5 DEF StoreInv
  <1>11. RecordInv'
    BY <1>1, <1>4, <1>5 DEF WorkflowInv, RecordInv, EveryAttemptIsOnRecord, SameAttempts
  <1>12. LoopInv' /\ AskInv'
    BY <1>1, <1>4 DEF LoopInv, AskInv, Live, Running, GoesOn, Closing
  <1> QED  BY <1>7, <1>9, <1>10, <1>11, <1>12 DEF WorkflowInv

LEMMA NewRunFacts ==
    /\ NewRun \in Runs /\ Sound(NewRun) /\ NewRun.status = "Created" /\ NewRun.failed_step = None
    /\ \A n \in Nodes : NewRun.steps[n].attempts = 0 /\ NewRun.steps[n].status = "Pending"
  <1>1. NewStep \in Steps  BY DEF NewStep, Steps, StepStatus
  <1>2. NewRun \in Runs  BY <1>1 DEF NewRun, Runs, RunStatus
  <1>3. /\ NewRun.status = "Created" /\ NewRun.failed_step = None
        /\ \A n \in Nodes : NewRun.steps[n] = NewStep
    BY DEF NewRun
  <1>4. /\ NewStep.attempts = 0 /\ NewStep.status = "Pending"
        /\ NewStep.pending_permission = FALSE /\ NewStep.pending_input = FALSE
    BY DEF NewStep
  <1>5. Front(NewRun) = {}
    BY <1>3, <1>4 DEF Front, FrontStatus, ActiveStatus
  <1>6. FrontInv(NewRun)
    BY <1>3, <1>5 DEF FrontInv, Closing, Terminal
  <1>7. FlagInv(NewRun)  BY <1>3, <1>4 DEF FlagInv
  <1> QED  BY <1>2, <1>3, <1>4, <1>6, <1>7 DEF Sound

LEMMA WorkflowInit ==
    ASSUME Init
    PROVE  WorkflowInv
  <1>1. /\ run = NewRun /\ loop = "start" /\ active = None /\ signals = <<>>
        /\ cancellation = FALSE /\ cancel_applied = FALSE
        /\ store = [snapshot |-> None, ahead |-> FALSE, cached |-> FALSE]
        /\ started = [n \in Nodes |-> 0] /\ reported = [n \in Nodes |-> 0]
        /\ faults = 0 /\ controls = 0
    BY DEF Init
  <1>2. TypeOK
    <2>1. /\ run \in Runs /\ loop \in LoopStates /\ active \in Attempts \cup {None}
          /\ signals \in Seq({"usage", "permission", "checkpoint", "input"})
      BY <1>1, NewRunFacts DEF LoopStates
    <2>2. cancellation \in BOOLEAN /\ cancel_applied \in BOOLEAN  BY <1>1
    <2>3. store \in Stores  BY <1>1 DEF Stores
    <2>4. /\ started \in [Nodes -> Nat] /\ reported \in [Nodes -> Nat]
          /\ faults \in 0..MaxFaults /\ controls \in 0..MaxControls
      BY <1>1, RunnerAssumption
    <2> QED  BY <2>1, <2>2, <2>3, <2>4 DEF TypeOK, Stores
  <1>3. Open = {}  BY <1>1 DEF Open
  <1>4. RunInv(run) /\ StoreInv
    BY <1>1, <1>3, NewRunFacts DEF RunInv, StoreInv, OpenInv, Sound
  <1>5. RecordInv  BY <1>1, NewRunFacts DEF RecordInv, EveryAttemptIsOnRecord
  <1>6. LoopInv /\ AskInv  BY <1>1, NewRunFacts DEF LoopInv, AskInv, Live, Running
  <1> QED  BY <1>2, <1>4, <1>5, <1>6 DEF WorkflowInv

LEMMA WorkflowStutters ==
    ASSUME WorkflowInv, UNCHANGED vars
    PROVE  WorkflowInv'
  <1>1. /\ UNCHANGED <<run, loop, active, signals, store, started, faults>>
        /\ UNCHANGED <<cancellation, cancel_applied, reported, controls>>
    BY DEF vars
  <1>2. StillOpen = Open  BY <1>1 DEF StillOpen, Open
  <1>3. loop' = "running" => Agrees(active', run, signals')
    BY <1>1, RunningFacts DEF Running
  <1> QED  BY <1>1, <1>2, <1>3, Types, Unchanged

LEMMA WorkflowStep ==
    ASSUME WorkflowInv, [Next]_vars
    PROVE  WorkflowInv'
  <1>1. CASE Drives
    BY <1>1, OnFirstCommand, OnCancel, OnCancellationCompleted, OnRetryStep, OnStepAdmitted
    DEF Drives
  <1>2. CASE Answers
    BY <1>2, OnResume, OnResolvePermission, OnResolveInput DEF Answers
  <1>3. CASE TaskGoesOn
    BY <1>3, OnReportSignal, OnAsk, OnTaskEnds DEF TaskGoesOn
  <1>4. CASE Elapsed \/ Pause \/ on_signal \/ on_stalled \/ on_step_done \/ TaskTimesOut
    BY <1>4, OnElapsed, OnPause, OnSignal, OnStalled, OnStepDone, OnTaskEnds
  <1>5. CASE CancelRequested \/ Crash \/ ResumeRun \/ retry_failed
    BY <1>5, OnCancelRequested, OnCrash, OnResumeRun, OnRetryFailed
  <1>6. CASE UNCHANGED vars
    BY <1>6, WorkflowStutters
  <1> QED  BY <1>1, <1>2, <1>3, <1>4, <1>5, <1>6 DEF Next

\* The inductive invariant of the workflow loop and its reducer.
THEOREM WorkflowInvariant == Spec => []WorkflowInv
  <1>1. Init => WorkflowInv  BY WorkflowInit
  <1>2. WorkflowInv /\ [Next]_vars => WorkflowInv'  BY WorkflowStep
  <1> QED  BY <1>1, <1>2, PTL DEF Spec

\* What the loop holds of a run and of its attempt, and what the store has
\* on disk, are well-formed whatever the order of commands, signals,
\* failures and restarts.
THEOREM WorkflowTypeCorrect == Spec => []TypeOK
  <1>1. WorkflowInv => TypeOK  BY DEF WorkflowInv
  <1> QED  BY <1>1, WorkflowInvariant, PTL

\* store.rs: a transition is committed before it is acted on, so no attempt
\* was ever started that the snapshot on disk does not count, whichever
\* write of a commit fails and wherever the process dies.
THEOREM AttemptsAreOnRecord == Spec => []EveryAttemptIsOnRecord
  <1>1. WorkflowInv => EveryAttemptIsOnRecord  BY DEF WorkflowInv, RecordInv
  <1> QED  BY <1>1, WorkflowInvariant, PTL

\* A run that goes on has exactly one step to go on with, and the attempt the
\* loop follows is the one the reducer has in flight: through send-backs,
\* failure routes, pauses, user retries and restarts.
THEOREM OneStepOnly == Spec => []OneStepAtATime
  <1>1. ASSUME WorkflowInv PROVE OneStepAtATime
    <2> SUFFICES ASSUME Live PROVE OneStepAtATime  BY DEF OneStepAtATime
    <2>1. Running /\ run.status # "Cancelling"  BY DEF Live
    <2>2. GoesOn(run) /\ Sound(run)  BY <1>1, <2>1, RunningFacts
    <2>3. PICK f \in Nodes : Front(run) = {f}
      BY <2>2 DEF Sound, FrontInv, GoesOn
    <2>4. {n \in Nodes : run.steps[n].status \in ActiveStatus \cup {"Ready", "RetryScheduled"}} = {f}
      BY <2>3 DEF Front, FrontStatus
    <2>5. Cardinality({f}) = 1  BY FS_Singleton
    <2>6. Cardinality({n \in Nodes : run.steps[n].status
                         \in ActiveStatus \cup {"Ready", "RetryScheduled"}}) = 1
      BY <2>4, <2>5
    <2>7. /\ ActiveSteps(run) = IF active = None THEN {} ELSE {active.node}
          /\ active # None => active.attempt = run.steps[active.node].attempts
      BY <1>1, <2>1, <2>2, RunningFacts
    <2> QED  BY <2>6, <2>7 DEF OneStepAtATime
  <1>2. WorkflowInv => OneStepAtATime  BY <1>1
  <1> QED  BY <1>2, WorkflowInvariant, PTL

\* Only the admission of a step starts an attempt.
LEMMA OnlyAdmissionStarts ==
    ASSUME WorkflowInv, [Next]_vars, ~StepAdmitted
    PROVE  started' = started
  <1>1. \A r, e, act, rest : try_apply(Batch(r, e, None), act, rest) => started' = started
    BY DEF try_apply, Batch, Committed, Effects, CommitFails, CommitCrashes, SequenceGap, LoopDies
  <1>2. \A act : Refused(act) => started' = started  BY DEF Refused, LoopDies
  <1>3. CASE Drives
    BY <1>1, <1>3 DEF Drives, FirstCommand, Cancel, CancellationCompleted, RetryStep
  <1>4. CASE Answers
    BY <1>1, <1>4 DEF Answers, Resume, resolve_permission, resolve_input
  <1>5. CASE TaskGoesOn
    BY <1>5 DEF TaskGoesOn, ReportSignal, Ask, TaskEnds, TaskCancelled, TaskOnly
  <1>6. CASE Elapsed \/ Pause
    BY <1>1, <1>6 DEF Elapsed, Pause
  <1>7. CASE on_signal
    <2>1. signals \in Seq(Sigs) /\ signals # <<>>  BY <1>7, Types DEF on_signal
    <2>2. Head(signals) \in Sigs  BY <2>1, NextSignal
    <2> QED  BY <1>1, <1>2, <1>7, <2>2 DEF on_signal, Sigs
  <1>8. CASE on_step_done
    BY <1>1, <1>2, <1>8 DEF on_step_done
  <1>9. CASE on_stalled \/ TaskTimesOut \/ CancelRequested \/ Crash \/ ResumeRun \/ retry_failed
    BY <1>9 DEF on_stalled, TaskTimesOut, TaskOnly, CancelRequested, Crash, ResumeRun, retry_failed
  <1>10. CASE UNCHANGED vars  BY <1>10 DEF vars
  <1> QED  BY <1>3, <1>4, <1>5, <1>6, <1>7, <1>8, <1>9, <1>10 DEF Next

\* launch.rs: an agent step is started again only when the end of its last
\* attempt is known, whatever was lost in a crash in between.
THEOREM AgentsAreNotRerunBlindly == Spec => NoBlindRerun
  <1>1. ASSUME WorkflowInv, [Next]_vars
        PROVE  [\A n \in Nodes : kind[n] \in {"Agent", "Subflow"} /\ started'[n] > started[n]
                                    => started[n] = reported[n]]_vars
    <2>1. CASE StepAdmitted
      <3>1. Open = {}  BY <1>1, <2>1, AdmitsWhenClosed DEF StepAdmitted
      <3> QED  BY <3>1 DEF Open, AgentKinds
    <2>2. CASE ~StepAdmitted
      <3>1. started' = started  BY <1>1, <2>2, OnlyAdmissionStarts
      <3>2. \A n \in Nodes : started[n] \in Nat  BY <1>1, Types
      <3>3. \A n \in Nodes : ~(started'[n] > started[n])  BY <3>1, <3>2
      <3> QED  BY <3>3
    <2> QED  BY <2>1, <2>2
  <1>2. WorkflowInv /\ [Next]_vars
            => [\A n \in Nodes : kind[n] \in {"Agent", "Subflow"} /\ started'[n] > started[n]
                                    => started[n] = reported[n]]_vars
    BY <1>1
  <1> QED  BY <1>2, WorkflowInvariant, PTL DEF Spec, NoBlindRerun

-----------------------------------------------------------------------------
(* The order of the steps *)

LEMMA AncestorFacts ==
    /\ \A m, n \in Nodes : m \in ancestors[n] <=> n \in descendants(m)
    /\ \A n \in Nodes : ancestors[n] \subseteq Nodes /\ n \notin ancestors[n]
  BY DefinitionAssumption DEF ancestors

LEMMA EdgeFacts ==
    ASSUME NEW n \in Nodes, NEW k \in Nodes, k = OnSuccess[n] \/ k = OnFailure[n]
    PROVE  n \in ancestors[k]
  <1>1. k \in Successors(n)  BY DefinitionAssumption DEF Successors
  <1>2. k \in descendants(n)  BY <1>1 DEF descendants
  <1> QED  BY <1>2, AncestorFacts

LEMMA AncestorsTransitive ==
    ASSUME NEW a \in Nodes, NEW b \in Nodes, NEW c \in Nodes,
           a \in ancestors[b], b \in ancestors[c]
    PROVE  a \in ancestors[c]
  <1>1. b \in descendants(a) /\ c \in descendants(b)  BY AncestorFacts
  <1>2. ASSUME NEW S \in SUBSET Nodes, Successors(a) \subseteq S,
               \A s \in S : Successors(s) \subseteq S
        PROVE  c \in S
    <2>1. b \in S  BY <1>1, <1>2 DEF descendants
    <2>2. Successors(b) \subseteq S  BY <1>2, <2>1
    <2> QED  BY <1>1, <1>2, <2>2 DEF descendants
  <1>3. c \in descendants(a)  BY <1>2 DEF descendants
  <1> QED  BY <1>3, AncestorFacts

\* Nothing comes both before and after a step.
LEMMA NotBothWays ==
    ASSUME NEW a \in Nodes, NEW b \in Nodes, a = b \/ a \in ancestors[b]
    PROVE  b \notin ancestors[a]
  BY AncestorFacts, AncestorsTransitive

\* The run is over: only what has succeeded counts.
LEMMA OrderClosed ==
    ASSUME NEW r, NEW s, FreshInv(r), s.status \in Closing, s.failed_step = None,
           \A m \in Nodes : SameWork(s.steps[m], r.steps[m]),
           \A m \in Nodes : s.steps[m].status = "Succeeded" => r.steps[m].status = "Succeeded"
    PROVE  WellOrdered(s)
  <1>1. PathInv(s)  BY DEF PathInv, Closing, Terminal
  <1>2. FreshInv(s)
    <2> SUFFICES ASSUME NEW n \in Nodes, s.steps[n].status = "Succeeded", NEW m \in ancestors[n]
                 PROVE  s.steps[n].read[m] = s.steps[m].output
      BY DEF FreshInv
    <2>1. m \in Nodes  BY AncestorFacts
    <2> QED  BY <2>1 DEF FreshInv, SameWork
  <1> QED  BY <1>1, <1>2 DEF WellOrdered

\* The run goes on at f: what has begun comes before f, and what has
\* succeeded, or is in flight, was given what r has.
LEMMA OrderForward ==
    ASSUME NEW s, NEW f \in Nodes, GoesOn(s), s.failed_step = None, Front(s) = {f},
           \A m \in Nodes : s.steps[m].status # "Pending" => m = f \/ m \in ancestors[f],
           \A n \in Nodes : s.steps[n].status = "Succeeded" \/ n \in ActiveSteps(s) =>
               \A m \in ancestors[n] : s.steps[n].read[m] = s.steps[m].output
    PROVE  WellOrdered(s)
  <1>1. PathInv(s)  BY DEF PathInv, GoesOn
  <1>2. FreshInv(s)  BY DEF FreshInv
  <1> QED  BY <1>1, <1>2 DEF WellOrdered

\* The step the run goes on with, or its attempt, changes its status.
LEMMA OrderMarked ==
    ASSUME NEW r, NEW s, NEW n \in Front(r), NEW st \in FrontStatus, NEW p, NEW i,
           Sound(r), GoesOn(r), WellOrdered(r), Marked(r, s, n, st, p, i),
           Sound(s), GoesOn(s), Front(s) = {n},
           st \in ActiveStatus => r.steps[n].status \in ActiveStatus
    PROVE  WellOrdered(s)
  <1>1. n \in Nodes /\ r.status \notin Closing /\ r.failed_step = None
    BY GoingOn
  <1>2. /\ \A m \in Nodes \ {n} : s.steps[m] = r.steps[m]
        /\ s.steps[n].status = st /\ s.failed_step = None
        /\ s.steps[n].output = r.steps[n].output /\ s.steps[n].read = r.steps[n].read
    BY <1>1 DEF Marked
  <1>3. \A m \in Nodes : s.steps[m].status # "Pending" => m = n \/ m \in ancestors[n]
    BY <1>1, <1>2 DEF WellOrdered, PathInv
  <1>4. ASSUME NEW k \in Nodes, s.steps[k].status = "Succeeded" \/ k \in ActiveSteps(s),
               NEW m \in ancestors[k]
        PROVE  s.steps[k].read[m] = s.steps[m].output
    <2>1. m \in Nodes  BY AncestorFacts
    <2>2. s.steps[m].output = r.steps[m].output /\ s.steps[k].read = r.steps[k].read
      BY <1>2, <2>1
    <2>3. st # "Succeeded"  BY DEF FrontStatus, ActiveStatus
    <2>4. r.steps[k].status = "Succeeded" \/ k \in ActiveSteps(r)
      BY <1>1, <1>2, <1>4, <2>3 DEF ActiveSteps
    <2>5. r.steps[k].read[m] = r.steps[m].output
      BY <1>1, <2>4 DEF WellOrdered, FreshInv
    <2> QED  BY <2>2, <2>5
  <1> QED  BY <1>1, <1>2, <1>3, <1>4, OrderForward

\* No step changes its status or its work.
LEMMA OrderSame ==
    ASSUME NEW r, NEW s, WellOrdered(r), s.failed_step = r.failed_step,
           s.status = "Created" => r.status = "Created",
           s.status \in Closing <=> r.status \in Closing,
           \A m \in Nodes : /\ s.steps[m].status = r.steps[m].status
                            /\ s.steps[m].read = r.steps[m].read
                            /\ s.steps[m].output = r.steps[m].output
    PROVE  WellOrdered(s)
  <1>1. Front(s) = Front(r) /\ ActiveSteps(s) = ActiveSteps(r)
    BY DEF Front, ActiveSteps
  <1>2. PathInv(s)
    BY <1>1 DEF WellOrdered, PathInv
  <1>3. FreshInv(s)
    <2> SUFFICES ASSUME NEW n \in Nodes,
                        s.steps[n].status = "Succeeded" \/ (s.status \notin Closing /\ n \in ActiveSteps(s)),
                        NEW m \in ancestors[n]
                 PROVE  s.steps[n].read[m] = s.steps[m].output
      BY DEF FreshInv
    <2>1. m \in Nodes  BY AncestorFacts
    <2> QED  BY <1>1, <2>1 DEF WellOrdered, FreshInv
  <1> QED  BY <1>2, <1>3 DEF WellOrdered

LEMMA FrontIs ==
    ASSUME NEW s, NEW f \in Nodes, Sound(s), GoesOn(s), s.steps[f].status \in FrontStatus
    PROVE  Front(s) = {f} /\ s.failed_step = None
  BY DEF Sound, FrontInv, GoesOn, Front, Terminal, Closing

\* Before and after a step that goes on, where the run goes on.
LEMMA PathOf ==
    ASSUME NEW r, NEW f \in Nodes, Sound(r), GoesOn(r), r.steps[f].status \in FrontStatus,
           WellOrdered(r)
    PROVE  \A m \in Nodes : r.steps[m].status # "Pending" => m = f \/ m \in ancestors[f]
  BY FrontIs DEF WellOrdered, PathInv, GoesOn

LEMMA StartOrdered ==
    ASSUME NEW r, Sound(r), WellOrdered(r), r.status = "Created"
    PROVE  WellOrdered(start(r))
  <1> DEFINE s == start(r)
             f == entry_node
  <1>1. Sound(s) /\ GoesOn(s) /\ ActiveSteps(s) = {}  BY StartSound
  <1>2. /\ f \in Nodes /\ s.steps[f].status = "Ready"
        /\ \A m \in Nodes \ {f} : s.steps[m] = r.steps[m]
    BY EntryNode, StartFacts DEF Sound, Marked
  <1>3. \A m \in Nodes : r.steps[m].status = "Pending"  BY DEF WellOrdered, PathInv
  <1> HIDE DEF s, f
  <1>4. Front(s) = {f} /\ s.failed_step = None  BY <1>1, <1>2, FrontIs DEF FrontStatus
  <1>5. \A m \in Nodes : s.steps[m].status # "Succeeded"  BY <1>2, <1>3
  <1>6. \A m \in Nodes : s.steps[m].status # "Pending" => m = f \/ m \in ancestors[f]
    BY <1>2, <1>3
  <1>7. WellOrdered(s)  BY <1>1, <1>2, <1>4, <1>5, <1>6, OrderForward
  <1> QED  BY <1>7 DEF s

LEMMA AdmitOrdered ==
    ASSUME NEW r, NEW n \in Nodes, Sound(r), GoesOn(r), WellOrdered(r), r.steps[n].status = "Ready"
    PROVE  WellOrdered(admit(r, n))
  <1> DEFINE s == admit(r, n)
  <1>0. r \in Runs /\ r.failed_step = None  BY GoingOn DEF Sound
  <1>1. CASE Shut(r, s, "Failed")
    <2>1. \A m \in Nodes : SameWork(s.steps[m], r.steps[m])  BY <1>1 DEF Shut
    <2>2. \A m \in Nodes : s.steps[m].status = "Succeeded" => r.steps[m].status = "Succeeded"
      BY <1>1 DEF Shut, Dropped
    <2>3. s.status \in Closing /\ s.failed_step = None  BY <1>0, <1>1 DEF Shut, Closing, Terminal
    <2> HIDE DEF s
    <2>4. WellOrdered(s)  BY <2>1, <2>2, <2>3, OrderClosed DEF WellOrdered
    <2> QED  BY <2>4 DEF s
  <1>2. CASE Admitted(r, s, n)
    <2>1. /\ \A m \in Nodes \ {n} : s.steps[m] = r.steps[m]
          /\ s.steps[n].status = "Running" /\ s.steps[n].output = r.steps[n].output
          /\ \A m \in Nodes : s.steps[n].read[m] = r.steps[m].output
          /\ SettledFrom(r, s)
      BY <1>2 DEF Admitted
    <2>2. Sound(s) /\ (s.status = "Failed" \/ (GoesOn(s) /\ ActiveSteps(s) = {n}))
      BY AdmitSound
    <2> HIDE DEF s
    <2>3. n \in ActiveSteps(s)  BY <2>1 DEF ActiveSteps, ActiveStatus
    <2>4. GoesOn(s) /\ ActiveSteps(s) = {n}
      BY <2>2, <2>3 DEF Sound, FrontInv, Closing, Terminal
    <2>5. Front(s) = {n} /\ s.failed_step = None
      BY <2>1, <2>2, <2>4, FrontIs DEF FrontStatus, ActiveStatus
    <2>6. \A m \in Nodes : s.steps[m].status # "Pending" => m = n \/ m \in ancestors[n]
      BY <2>1, PathOf DEF FrontStatus
    <2>7. ASSUME NEW k \in Nodes, s.steps[k].status = "Succeeded" \/ k \in ActiveSteps(s),
                 NEW m \in ancestors[k]
          PROVE  s.steps[k].read[m] = s.steps[m].output
      <3>1. m \in Nodes /\ s.steps[m].output = r.steps[m].output  BY <2>1, AncestorFacts
      <3>2. CASE k = n  BY <2>1, <3>1, <3>2
      <3>3. CASE k # n
        <4>1. s.steps[k] = r.steps[k] /\ r.steps[k].status = "Succeeded"
          BY <2>1, <2>4, <2>7, <3>3
        <4> QED  BY <3>1, <4>1 DEF WellOrdered, FreshInv
      <3> QED  BY <3>2, <3>3
    <2>8. WellOrdered(s)  BY <2>4, <2>5, <2>6, <2>7, OrderForward
    <2> QED  BY <2>8 DEF s
  <1> QED  BY <1>0, <1>1, <1>2, AdmitFacts

\* Every command about the step in flight that leaves it in flight.
LEMMA InFlightOrdered ==
    ASSUME NEW r, NEW n \in ActiveSteps(r), Sound(r), GoesOn(r), WellOrdered(r)
    PROVE  /\ r.steps[n].status = "Running" => /\ WellOrdered(permission_required(r, n))
                                               /\ WellOrdered(input_required(r, n))
           /\ r.steps[n].status = "WaitingForPermission" => WellOrdered(permission_resolved(r, n))
           /\ r.steps[n].status = "WaitingForInput" => WellOrdered(input_resolved(r, n))
           /\ WellOrdered(record_checkpoint(r, n))
  <1>0. n \in Nodes /\ r \in Runs /\ n \in Front(r) /\ r.steps[n].status \in ActiveStatus
    BY GoingOn DEF Sound, ActiveSteps
  <1>1. ASSUME r.steps[n].status = "Running"
        PROVE  WellOrdered(permission_required(r, n))
    <2> DEFINE s == permission_required(r, n)
    <2>1. Sound(s) /\ GoesOn(s) /\ s.steps[n].status = "WaitingForPermission"
      BY <1>1, PermissionRequiredSound
    <2> DEFINE p == TRUE
    <2>2. Marked(r, s, n, "WaitingForPermission", p, r.steps[n].pending_input)
      BY <1>0, PermissionRequiredFacts
    <2> HIDE DEF s, p
    <2>3. "WaitingForPermission" \in FrontStatus  BY DEF FrontStatus, ActiveStatus
    <2>4. Front(s) = {n}  BY <1>0, <2>1, <2>3, FrontIs
    <2>5. WellOrdered(s)  BY <1>0, <2>1, <2>2, <2>3, <2>4, OrderMarked
    <2> QED  BY <2>5 DEF s
  <1>2. ASSUME r.steps[n].status = "Running"
        PROVE  WellOrdered(input_required(r, n))
    <2> DEFINE s == input_required(r, n)
    <2>1. Sound(s) /\ GoesOn(s) /\ s.steps[n].status = "WaitingForInput"
      BY <1>2, InputRequiredSound
    <2>2. Marked(r, s, n, "WaitingForInput", r.steps[n].pending_permission, TRUE)
      BY <1>0, InputRequiredFacts
    <2> HIDE DEF s
    <2>3. "WaitingForInput" \in FrontStatus  BY DEF FrontStatus, ActiveStatus
    <2>4. Front(s) = {n}  BY <1>0, <2>1, <2>3, FrontIs
    <2>5. WellOrdered(s)  BY <1>0, <2>1, <2>2, <2>3, <2>4, OrderMarked
    <2> QED  BY <2>5 DEF s
  <1>3. ASSUME r.steps[n].status = "WaitingForPermission"
        PROVE  WellOrdered(permission_resolved(r, n))
    <2> DEFINE s == permission_resolved(r, n)
    <2>1. Sound(s) /\ GoesOn(s) /\ s.steps[n].status = "Running"
      BY <1>3, PermissionResolvedSound
    <2> DEFINE p == FALSE
    <2>2. Marked(r, s, n, "Running", p, r.steps[n].pending_input)
      BY <1>0, PermissionResolvedFacts
    <2> HIDE DEF s, p
    <2>3. "Running" \in FrontStatus  BY DEF FrontStatus, ActiveStatus
    <2>4. Front(s) = {n}  BY <1>0, <2>1, <2>3, FrontIs
    <2>5. WellOrdered(s)  BY <1>0, <2>1, <2>2, <2>3, <2>4, OrderMarked
    <2> QED  BY <2>5 DEF s
  <1>4. ASSUME r.steps[n].status = "WaitingForInput"
        PROVE  WellOrdered(input_resolved(r, n))
    <2> DEFINE s == input_resolved(r, n)
    <2>1. Sound(s) /\ GoesOn(s) /\ s.steps[n].status = "Running"
      BY <1>4, InputResolvedSound
    <2>2. ~r.steps[n].pending_permission
      BY <1>0, <1>4 DEF Sound, FlagInv
    <2>3. Marked(r, s, n, "Running", r.steps[n].pending_permission, FALSE)
      BY <1>0, <2>2, InputResolvedFacts
    <2> HIDE DEF s
    <2>4. "Running" \in FrontStatus  BY DEF FrontStatus, ActiveStatus
    <2>5. Front(s) = {n}  BY <1>0, <2>1, <2>4, FrontIs
    <2>6. WellOrdered(s)  BY <1>0, <2>1, <2>3, <2>4, <2>5, OrderMarked
    <2> QED  BY <2>6 DEF s
  <1>5. WellOrdered(record_checkpoint(r, n))
    <2> DEFINE s == record_checkpoint(r, n)
    <2>1. /\ s.status = r.status /\ s.failed_step = r.failed_step
          /\ \A m \in Nodes : /\ s.steps[m].status = r.steps[m].status
                              /\ s.steps[m].read = r.steps[m].read
                              /\ s.steps[m].output = r.steps[m].output
      BY <1>0, CheckpointFacts DEF SameWork
    <2> HIDE DEF s
    <2>2. WellOrdered(s)  BY <2>1, OrderSame
    <2> QED  BY <2>2 DEF s
  <1> QED  BY <1>1, <1>2, <1>3, <1>4, <1>5

LEMMA RetryOrdered ==
    ASSUME NEW r, NEW n \in Nodes, Sound(r), GoesOn(r), WellOrdered(r),
           r.steps[n].status = "RetryScheduled"
    PROVE  WellOrdered(retry(r, n))
  <1> DEFINE s == retry(r, n)
  <1>1. Sound(s) /\ GoesOn(s)  BY RetrySound
  <1>2. Marked(r, s, n, "Ready", r.steps[n].pending_permission, r.steps[n].pending_input)
    BY RetryFacts DEF Sound
  <1>3. s.steps[n].status = "Ready"  BY <1>2 DEF Marked
  <1> HIDE DEF s
  <1>4. n \in Front(r) /\ "Ready" \in FrontStatus /\ "Ready" \notin ActiveStatus
    BY DEF Front, FrontStatus, ActiveStatus
  <1>5. Front(s) = {n}  BY <1>1, <1>3, <1>4, FrontIs
  <1>6. WellOrdered(s)  BY <1>1, <1>2, <1>4, <1>5, OrderMarked
  <1> QED  BY <1>6 DEF s

LEMMA PauseOrdered ==
    ASSUME NEW r, NEW p \in BOOLEAN, Sound(r), WellOrdered(r), r.status # "Created"
    PROVE  WellOrdered(settle([r EXCEPT !.paused = p]))
  <1> DEFINE s == settle([r EXCEPT !.paused = p])
  <1>1. /\ (GoesOn(s) <=> GoesOn(r)) /\ r.status \in Closing => s.status = r.status
    BY PauseSound
  <1>2. s.steps = r.steps /\ s.failed_step = r.failed_step  BY PauseSound
  <1>3. SettledFrom(r, s)  BY PauseFacts DEF Sound
  <1> HIDE DEF s
  <1>4. r.status \in Closing => s.status = r.status  BY <1>3 DEF SettledFrom
  <1>5. r.status \notin Closing => s.status \in ActiveStatus \cup {"Paused", "Ready"}
    BY <1>3 DEF SettledFrom, Settled
  <1>6. (s.status \in Closing <=> r.status \in Closing) /\ s.status # "Created"
    BY <1>4, <1>5 DEF Closing, Terminal, ActiveStatus
  <1>7. WellOrdered(s)  BY <1>2, <1>6, OrderSame
  <1> QED  BY <1>7 DEF s

LEMMA HaltedOrdered ==
    ASSUME NEW r, NEW s, NEW st \in Closing, Halted(r, s, st), r.failed_step = None, WellOrdered(r)
    PROVE  WellOrdered(s)
  <1>1. /\ s.status \in Closing /\ s.failed_step = None
        /\ \A m \in Nodes : SameWork(s.steps[m], r.steps[m])
    BY DEF Halted
  <1>2. \A m \in Nodes : s.steps[m].status = "Succeeded" => r.steps[m].status = "Succeeded"
    <2> SUFFICES ASSUME NEW m \in Nodes, s.steps[m].status = "Succeeded"
                 PROVE  r.steps[m].status = "Succeeded"
      OBVIOUS
    <2>1. m \notin ActiveSteps(r)  BY DEF Halted
    <2> QED  BY <2>1 DEF Halted, Dropped
  <1> QED  BY <1>1, <1>2, OrderClosed DEF WellOrdered

LEMMA CompletedOrdered ==
    ASSUME NEW r, Sound(r), WellOrdered(r), r.status = "Cancelling"
    PROVE  WellOrdered(cancellation_completed(r))
  <1> DEFINE s == cancellation_completed(r)
  <1>1. s.steps = r.steps /\ s.status = "Cancelled" /\ s.failed_step = None
    BY CompletedFacts, CompletedSound DEF Sound
  <1> HIDE DEF s
  <1>2. WellOrdered(s)  BY <1>1, OrderClosed DEF WellOrdered, SameWork, Closing, Terminal
  <1> QED  BY <1>2 DEF s

LEMMA RecoverOrdered ==
    ASSUME NEW r, Sound(r), WellOrdered(r), r.status \notin Terminal \cup {"Created"}
    PROVE  WellOrdered(recover(r))
  <1> DEFINE s == recover(r)
  <1>0. r \in Runs /\ Sound(s) /\ r.failed_step = None
    <2>1. r \in Runs /\ Sound(s)  BY RecoverSound DEF Sound
    <2>2. r.failed_step = None  BY DEF Sound, FrontInv, Terminal
    <2> QED  BY <2>1, <2>2
  <1>1. CASE r.status = "Cancelling" /\ s = cancellation_completed(r)
    BY <1>1, CompletedOrdered
  <1>2. CASE r.status # "Cancelling" /\ Resumed(r, s)
    <2>1. GoesOn(r)  BY <1>2 DEF GoesOn, Closing
    <2>2. PICK f \in Nodes : Front(r) = {f}  BY <2>1 DEF Sound, FrontInv, GoesOn
    <2>3. /\ \A m \in Nodes : SameWork(s.steps[m], r.steps[m])
          /\ \A m \in Nodes \ ActiveSteps(r) : s.steps[m] = r.steps[m]
          /\ \A m \in ActiveSteps(r) : s.steps[m].status = "Ready"
      BY <1>2 DEF Resumed
    <2>4. SettledFrom(r, s)  BY <1>2 DEF Resumed
    <2> HIDE DEF s
    <2>5. f \in Front(r) /\ r.steps[f].status \in FrontStatus  BY <2>2 DEF Front
    <2>6. s.steps[f].status \in FrontStatus
      BY <2>3, <2>5 DEF FrontStatus
    <2>7. GoesOn(s)
      BY <2>1, <2>4 DEF SettledFrom, Settled, GoesOn, Closing, Terminal, ActiveStatus
    <2>8. Front(s) = {f} /\ s.failed_step = None  BY <1>0, <2>6, <2>7, FrontIs
    <2>9. \A m \in Nodes : s.steps[m].status # "Pending" => m = f \/ m \in ancestors[f]
      <3>1. \A m \in Nodes : r.steps[m].status # "Pending" => m = f \/ m \in ancestors[f]
        BY <2>1, <2>5, PathOf
      <3>2. \A m \in Nodes : s.steps[m].status # "Pending" => r.steps[m].status # "Pending"
        BY <2>3 DEF ActiveSteps, ActiveStatus
      <3> QED  BY <3>1, <3>2
    <2>10. ASSUME NEW k \in Nodes, s.steps[k].status = "Succeeded" \/ k \in ActiveSteps(s),
                  NEW m \in ancestors[k]
           PROVE  s.steps[k].read[m] = s.steps[m].output
      <3>1. m \in Nodes  BY AncestorFacts
      <3>2. k \notin ActiveSteps(r)  BY <2>3, <2>10 DEF ActiveSteps, ActiveStatus
      <3>3. r.steps[k].status = "Succeeded"  BY <2>3, <2>10, <3>2 DEF ActiveSteps
      <3> QED  BY <2>3, <3>1, <3>3 DEF WellOrdered, FreshInv, SameWork
    <2>11. WellOrdered(s)  BY <2>7, <2>8, <2>9, <2>10, OrderForward
    <2> QED  BY <2>11 DEF s
  <1>3. CASE Halted(r, s, "Failed")
    <2>1. "Failed" \in Closing  BY DEF Closing, Terminal
    <2> HIDE DEF s
    <2>2. WellOrdered(s)  BY <1>0, <1>3, <2>1, HaltedOrdered
    <2> QED  BY <2>2 DEF s
  <1> QED  BY <1>0, <1>1, <1>2, <1>3, RecoverFacts

\* The edges out of the step in flight lead to steps that have not begun.
LEMMA NextIsPending ==
    ASSUME NEW r, NEW n \in ActiveSteps(r), Sound(r), GoesOn(r), WellOrdered(r),
           NEW k \in Nodes, k = OnSuccess[n] \/ k = OnFailure[n]
    PROVE  CanActivate(r, k) /\ k # n
  <1>1. n \in Nodes /\ r.steps[n].status \in FrontStatus  BY DEF ActiveSteps, FrontStatus
  <1>2. n \in ancestors[k]  BY <1>1, EdgeFacts
  <1>3. k # n /\ k \notin ancestors[n]  BY <1>1, <1>2, NotBothWays
  <1> QED  BY <1>1, <1>3, PathOf DEF CanActivate

\* What has begun before n has begun before whatever follows n.
LEMMA PathGoesOn ==
    ASSUME NEW n \in Nodes, NEW k \in Nodes, k = OnSuccess[n] \/ k = OnFailure[n],
           NEW m \in Nodes, m = n \/ m \in ancestors[n]
    PROVE  m \in ancestors[k]
  BY EdgeFacts, AncestorsTransitive

LEMMA SucceedOrdered ==
    ASSUME NEW r, NEW n \in ActiveSteps(r), NEW used \in Nat, Sound(r), GoesOn(r), WellOrdered(r),
           r.steps[n].status = "Running",
           kind[n] = "Output" \/ CanActivate(r, OnSuccess[n])
    PROVE  WellOrdered(succeed(r, n, used))
  <1> DEFINE s == succeed(r, n, used)
             k == OnSuccess[n]
  <1>1. n \in Nodes /\ r \in Runs /\ r.steps[n].status \in FrontStatus /\ r.status \notin Closing
    BY DEF ActiveSteps, Sound, FrontStatus, GoesOn
  <1>2. k # n  BY <1>1, DefinitionAssumption, EdgeFacts, AncestorFacts
  <1>3. /\ Sound(s) /\ s.failed_step = None /\ ActiveSteps(s) = {}
    BY SucceedSound
  <1>4. /\ Done(r, s, n)
        /\ \A m \in Nodes \ {n, k} : s.steps[m] = r.steps[m]
    BY <1>1, <1>2, SucceedFacts
  <1>5. /\ kind[n] = "Output" => s.status = "Completed"
        /\ kind[n] # "Output" => /\ k \in Nodes /\ s.steps[k].status = "Ready"
                                 /\ SameWork(s.steps[k], r.steps[k]) /\ SettledFrom(r, s)
    BY <1>1, <1>2, SucceedFacts
  <1>6. kind[n] = "Output" => k \notin Nodes  BY <1>1, DefinitionAssumption
  <1> HIDE DEF s
  <1>7. /\ s.steps[n].status = "Succeeded" /\ s.steps[n].read = r.steps[n].read
    BY <1>4 DEF Done
  <1>8. \A m \in Nodes : m # n => s.steps[m].output = r.steps[m].output /\ s.steps[m].read = r.steps[m].read
    BY <1>4, <1>5, <1>6 DEF SameWork
  <1>9. \A m \in Nodes : r.steps[m].status # "Pending" => m = n \/ m \in ancestors[n]
    BY <1>1, PathOf
  <1>10. ASSUME NEW i \in Nodes, s.steps[i].status = "Succeeded", NEW m \in ancestors[i]
         PROVE  s.steps[i].read[m] = s.steps[m].output
    <2>1. m \in Nodes  BY AncestorFacts
    <2>2. i = n \/ r.steps[i].status = "Succeeded"
      BY <1>4, <1>5, <1>6, <1>10
    <2>3. i = n \/ i \in ancestors[n]  BY <1>9, <2>2
    <2>4. m # n  BY <1>1, <2>3, NotBothWays
    <2>5. r.steps[i].read[m] = r.steps[m].output
      BY <1>1, <2>2 DEF WellOrdered, FreshInv
    <2>6. s.steps[i].read = r.steps[i].read  BY <1>7, <1>8
    <2> QED  BY <1>8, <2>1, <2>4, <2>5, <2>6
  <1>11. CASE kind[n] = "Output"
    <2>1. s.status \in Closing /\ s.status # "Created"  BY <1>5, <1>11 DEF Closing, Terminal
    <2>2. PathInv(s)  BY <1>3, <2>1 DEF PathInv
    <2>3. FreshInv(s)  BY <1>10, <2>1 DEF FreshInv
    <2>4. WellOrdered(s)  BY <2>2, <2>3 DEF WellOrdered
    <2> QED  BY <2>4 DEF s
  <1>12. CASE kind[n] # "Output"
    <2>1. /\ k \in Nodes /\ s.steps[k].status = "Ready" /\ SettledFrom(r, s)  BY <1>5, <1>12
    <2>2. GoesOn(s)
      BY <1>1, <2>1 DEF SettledFrom, Settled, GoesOn, Closing, Terminal, ActiveStatus
    <2>3. Front(s) = {k}  BY <1>3, <2>1, <2>2, FrontIs DEF FrontStatus
    <2>4. ASSUME NEW m \in Nodes, s.steps[m].status # "Pending", m # k
          PROVE  m \in ancestors[k]
      <3>1. m = n \/ s.steps[m] = r.steps[m]  BY <1>4, <2>4
      <3>2. m = n \/ m \in ancestors[n]  BY <1>9, <2>4, <3>1
      <3> QED  BY <1>1, <2>1, <3>2, PathGoesOn
    <2>5. \A m \in Nodes : s.steps[m].status # "Pending" => m = k \/ m \in ancestors[k]
      BY <2>4
    <2> HIDE DEF k
    <2>6. WellOrdered(s)  BY <1>3, <1>10, <2>1, <2>2, <2>3, <2>5, OrderForward
    <2> QED  BY <2>6 DEF s
  <1> QED  BY <1>11, <1>12

\* Work is sent back from n along the path to n: what stays begun comes
\* before the target, and was not given anything that is made again.
LEMMA BackOrdered ==
    ASSUME OnThePath, NEW n \in Nodes, retry_target[n] # None, NEW r, NEW s,
           Sound(s), GoesOn(s),
           s.steps[retry_target[n]].status \in {"Ready", "RetryScheduled"},
           \A m \in retry_spans[n] \ {retry_target[n]} : s.steps[m].status = "Pending",
           \A m \in Nodes \ retry_spans[n] :
               /\ s.steps[m].output = r.steps[m].output /\ s.steps[m].read = r.steps[m].read
               /\ s.steps[m].status # "Pending" =>
                    s.steps[m].status = r.steps[m].status /\ (m = n \/ m \in ancestors[n]),
           ActiveSteps(s) = {}, FreshInv(r)
    PROVE  WellOrdered(s)
  <1> DEFINE t == retry_target[n]
             span == retry_spans[n]
  <1>1. /\ t \in Nodes /\ t \in ancestors[n] /\ t # n /\ n \in span /\ t \in span /\ span \subseteq Nodes
        /\ \A m \in Nodes : m \in span <=>
             m = n \/ m = t \/ (t \in ancestors[m] /\ m \in ancestors[n])
    BY SpanFacts
  <1>2. \A m \in ancestors[n] : m = t \/ m \in ancestors[t] \/ t \in ancestors[m]
    BY DEF OnThePath
  <1>3. s.steps[t].status \in FrontStatus  BY DEF FrontStatus
  <1>4. \A m \in span \ {t} : s.steps[m].status = "Pending"  OBVIOUS
  <1>5. \A m \in Nodes \ span :
           /\ s.steps[m].output = r.steps[m].output /\ s.steps[m].read = r.steps[m].read
           /\ s.steps[m].status # "Pending" =>
                    s.steps[m].status = r.steps[m].status /\ (m = n \/ m \in ancestors[n])
    OBVIOUS
  <1>6. s.steps[t].status # "Succeeded"  OBVIOUS
  <1> HIDE DEF t, span
  <1>7. Front(s) = {t} /\ s.failed_step = None  BY <1>1, <1>3, FrontIs
  <1>8. \A m \in Nodes \ span : s.steps[m].status # "Pending" => m \in ancestors[t]
    BY <1>1, <1>2, <1>5
  <1>9. \A m \in Nodes : s.steps[m].status # "Pending" => m = t \/ m \in ancestors[t]
    BY <1>4, <1>8
  <1>10. ASSUME NEW i \in Nodes, s.steps[i].status = "Succeeded" \/ i \in ActiveSteps(s),
                NEW m \in ancestors[i]
         PROVE  s.steps[i].read[m] = s.steps[m].output
    <2>1. m \in Nodes /\ s.steps[i].status = "Succeeded"  BY <1>10, AncestorFacts
    <2>2. i \notin span  BY <1>4, <1>6, <2>1
    <2>3. i \in ancestors[t] /\ r.steps[i].status = "Succeeded"
      BY <1>5, <1>8, <2>1, <2>2
    <2>4. m \in ancestors[t]  BY <1>1, <2>1, <2>3, AncestorsTransitive
    <2>5. m # t /\ t \notin ancestors[m]  BY <1>1, <2>1, <2>4, NotBothWays
    <2>6. m # n  BY <1>1, <2>4, NotBothWays
    <2>7. m \notin span  BY <1>1, <2>1, <2>5, <2>6
    <2>8. r.steps[i].read[m] = r.steps[m].output  BY <2>3 DEF FreshInv
    <2> QED  BY <1>5, <2>1, <2>2, <2>7, <2>8
  <1> QED  BY <1>1, <1>7, <1>9, <1>10, OrderForward

LEMMA FailOrdered ==
    ASSUME OnThePath, NEW r, NEW n \in ActiveSteps(r), NEW used \in Nat, NEW error \in Errors,
           Sound(r), GoesOn(r), WellOrdered(r),
           OnFailure[n] # None => CanActivate(r, OnFailure[n])
    PROVE  WellOrdered(fail(r, n, error, used))
  <1> DEFINE s == fail(r, n, error, used)
             k == OnFailure[n]
  <1>1. /\ n \in Nodes /\ r \in Runs /\ r.steps[n].status \in FrontStatus /\ r.status \notin Closing
        /\ n \in Front(r) /\ r.failed_step = None
    BY GoingOn DEF ActiveSteps, Sound, FrontStatus, GoesOn
  <1>2. k # n
    BY <1>1, DefinitionAssumption, EdgeFacts, AncestorFacts
  <1>3. /\ Sound(s) /\ ActiveSteps(s) = {}
        /\ \/ GoesOn(s) /\ s.failed_step = None
           \/ s.status = "Failed" /\ s.failed_step = n
    BY FailSound
  <1>4. \A m \in Nodes : r.steps[m].status # "Pending" => m = n \/ m \in ancestors[n]
    BY <1>1, PathOf
  <1>5. \/ RetriesSame(r, s, n) \/ GoesBack(r, s, n) \/ TakesFailureEdge(r, s, n)
        \/ FailsAt(r, s, n)
    BY <1>1, <1>2, FailFacts
  <1>6. SettledFrom(r, s) => GoesOn(s)
    BY <1>1 DEF SettledFrom, Settled, GoesOn, Closing, Terminal, ActiveStatus
  <1> HIDE DEF s
  <1>7. ASSUME RetriesSame(r, s, n)
        PROVE  WellOrdered(s)
    <2> DEFINE p == FALSE
    <2>1. Marked(r, s, n, "RetryScheduled", p, p) /\ GoesOn(s)  BY <1>6, <1>7 DEF RetriesSame
    <2>2. "RetryScheduled" \in FrontStatus /\ "RetryScheduled" \notin ActiveStatus
      BY DEF FrontStatus, ActiveStatus
    <2>3. s.steps[n].status = "RetryScheduled"  BY <2>1 DEF Marked
    <2> HIDE DEF p
    <2>4. Front(s) = {n}  BY <1>1, <1>3, <2>1, <2>2, <2>3, FrontIs
    <2> QED  BY <1>1, <1>3, <2>1, <2>2, <2>4, OrderMarked
  <1>8. ASSUME GoesBack(r, s, n)
        PROVE  WellOrdered(s)
    <2>1. /\ retry_target[n] # None /\ GoesOn(s)
          /\ \A m \in Nodes \ retry_spans[n] : s.steps[m] = r.steps[m]
          /\ \A m \in retry_spans[n] : s.steps[m].status =
                IF m = retry_target[n] THEN "RetryScheduled" ELSE "Pending"
      BY <1>6, <1>8 DEF GoesBack
    <2>2. retry_target[n] \in retry_spans[n]  BY <1>1, <2>1, SpanFacts
    <2>3. \A m \in Nodes \ retry_spans[n] :
            /\ s.steps[m].output = r.steps[m].output /\ s.steps[m].read = r.steps[m].read
            /\ s.steps[m].status # "Pending" =>
                 s.steps[m].status = r.steps[m].status /\ (m = n \/ m \in ancestors[n])
      BY <1>4, <2>1
    <2> QED  BY <1>1, <1>3, <2>1, <2>2, <2>3, BackOrdered DEF WellOrdered
  <1>9. ASSUME TakesFailureEdge(r, s, n)
        PROVE  WellOrdered(s)
    <2>1. /\ k \in Nodes /\ GoesOn(s)
          /\ \A m \in Nodes \ {n, k} : s.steps[m] = r.steps[m]
          /\ s.steps[n].status = "Failed" /\ SameWork(s.steps[n], r.steps[n])
          /\ s.steps[k].status = "Ready" /\ SameWork(s.steps[k], r.steps[k])
      BY <1>6, <1>9 DEF TakesFailureEdge
    <2>2. Front(s) = {k} /\ s.failed_step = None  BY <1>3, <2>1, FrontIs DEF FrontStatus
    <2>3. ASSUME NEW m \in Nodes, s.steps[m].status # "Pending", m # k
          PROVE  m \in ancestors[k]
      <3>1. m = n \/ s.steps[m] = r.steps[m]  BY <2>1, <2>3
      <3>2. m = n \/ m \in ancestors[n]  BY <1>4, <2>3, <3>1
      <3> QED  BY <1>1, <2>1, <3>2, PathGoesOn
    <2>4. ASSUME NEW i \in Nodes, s.steps[i].status = "Succeeded" \/ i \in ActiveSteps(s),
                 NEW m \in ancestors[i]
          PROVE  s.steps[i].read[m] = s.steps[m].output
      <3>1. m \in Nodes  BY AncestorFacts
      <3>2. r.steps[i].status = "Succeeded" /\ s.steps[i].read = r.steps[i].read
        BY <1>3, <2>1, <2>4
      <3>3. s.steps[m].output = r.steps[m].output  BY <2>1, <3>1 DEF SameWork
      <3> QED  BY <3>2, <3>3 DEF WellOrdered, FreshInv
    <2>5. \A m \in Nodes : s.steps[m].status # "Pending" => m = k \/ m \in ancestors[k]
      BY <2>3
    <2> HIDE DEF k
    <2> QED  BY <2>1, <2>2, <2>4, <2>5, OrderForward
  <1>10. ASSUME FailsAt(r, s, n)
        PROVE  WellOrdered(s)
    <2>1. /\ s.failed_step = n /\ s.status = "Failed"
          /\ \A m \in Nodes : SameWork(s.steps[m], r.steps[m])
          /\ s.steps[n].status = "Failed"
          /\ \A m \in Nodes \ {n} : s.steps[m].status = Dropped(r.steps[m].status)
      BY <1>10 DEF FailsAt
    <2>2. \A m \in Nodes : s.steps[m].status \notin {"Pending", "Skipped"} => m = n \/ m \in ancestors[n]
      BY <1>4, <2>1 DEF Dropped
    <2>3. s.status \in Closing /\ s.status # "Created"  BY <2>1 DEF Closing, Terminal
    <2>4. PathInv(s)  BY <2>1, <2>2, <2>3 DEF PathInv
    <2>5. FreshInv(s)
      <3> SUFFICES ASSUME NEW i \in Nodes, s.steps[i].status = "Succeeded", NEW m \in ancestors[i]
                   PROVE  s.steps[i].read[m] = s.steps[m].output
        BY <2>3 DEF FreshInv
      <3>1. m \in Nodes  BY AncestorFacts
      <3>2. i # n  BY <2>1
      <3>3. r.steps[i].status = "Succeeded"  BY <2>1, <3>2 DEF Dropped
      <3> QED  BY <2>1, <3>1, <3>3 DEF WellOrdered, FreshInv, SameWork
    <2> QED  BY <2>4, <2>5 DEF WellOrdered
  <1>11. WellOrdered(s)  BY <1>5, <1>7, <1>8, <1>9, <1>10
  <1> QED  BY <1>11 DEF s

LEMMA ReopenedOrdered ==
    ASSUME OnThePath, NEW r, Sound(r), WellOrdered(r), r.failed_step # None
    PROVE  WellOrdered(Reopened(r))
  <1> DEFINE s == Reopened(r)
             n == r.failed_step
  <1>1. Sound(s) /\ GoesOn(s) /\ ActiveSteps(s) = {}  BY ReopenedSound
  <1>2. r \in Runs /\ n \in Nodes  BY DEF Sound, Runs
  <1>3. \A m \in Nodes : r.steps[m].status \notin {"Pending", "Skipped"} => m = n \/ m \in ancestors[n]
    BY DEF WellOrdered, PathInv
  <1>4. Reopens(r, s, n, {}) \/ (retry_target[n] # None /\ Reopens(r, s, retry_target[n], retry_spans[n]))
    BY <1>2, ReopenedFacts
  <1> HIDE DEF s
  <1>5. ASSUME Reopens(r, s, n, {})
        PROVE  WellOrdered(s)
    <2>1. \A m \in Nodes : /\ s.steps[m].read = r.steps[m].read
                           /\ s.steps[m].output = r.steps[m].output
                           /\ s.steps[m].status =
                                IF m = n THEN "Ready"
                                ELSE IF r.steps[m].status = "Skipped" THEN "Pending"
                                ELSE r.steps[m].status
      BY <1>5 DEF Reopens
    <2>2. s.steps[n].status \in FrontStatus  BY <1>2, <2>1 DEF FrontStatus
    <2>3. Front(s) = {n} /\ s.failed_step = None  BY <1>1, <1>2, <2>2, FrontIs
    <2>4. \A m \in Nodes : s.steps[m].status # "Pending" => m = n \/ m \in ancestors[n]
      BY <1>3, <2>1
    <2>5. ASSUME NEW i \in Nodes, s.steps[i].status = "Succeeded" \/ i \in ActiveSteps(s),
                 NEW m \in ancestors[i]
          PROVE  s.steps[i].read[m] = s.steps[m].output
      <3>1. m \in Nodes  BY AncestorFacts
      <3>2. r.steps[i].status = "Succeeded"  BY <1>1, <2>1, <2>5
      <3>3. r.steps[i].read[m] = r.steps[m].output  BY <3>2 DEF WellOrdered, FreshInv
      <3> QED  BY <2>1, <3>1, <3>3
    <2> HIDE DEF n
    <2> QED  BY <1>1, <1>2, <2>3, <2>4, <2>5, OrderForward
  <1>6. ASSUME retry_target[n] # None /\ Reopens(r, s, retry_target[n], retry_spans[n])
        PROVE  WellOrdered(s)
    <2> DEFINE t == retry_target[n]
               span == retry_spans[n]
    <2>1. \A m \in Nodes : /\ s.steps[m].read = r.steps[m].read
                           /\ s.steps[m].output = IF m \in span THEN 0 ELSE r.steps[m].output
                           /\ s.steps[m].status =
                                IF m = t THEN "Ready"
                                ELSE IF m \in span \/ r.steps[m].status = "Skipped" THEN "Pending"
                                ELSE r.steps[m].status
      BY <1>6 DEF Reopens
    <2>2. t \in Nodes /\ t \in span /\ span \subseteq Nodes  BY <1>2, <1>6, SpanFacts
    <2> HIDE DEF t, span
    <2>3. s.steps[t].status = "Ready"  BY <2>1, <2>2
    <2>4. \A m \in span \ {t} : s.steps[m].status = "Pending"  BY <2>1, <2>2
    <2>5. \A m \in Nodes \ span :
            /\ s.steps[m].output = r.steps[m].output /\ s.steps[m].read = r.steps[m].read
            /\ s.steps[m].status # "Pending" =>
                 s.steps[m].status = r.steps[m].status /\ (m = n \/ m \in ancestors[n])
      BY <1>3, <2>1, <2>2
    <2> HIDE DEF n
    <2> QED  BY <1>1, <1>2, <1>6, <2>3, <2>4, <2>5, BackOrdered DEF t, span, WellOrdered
  <1>7. WellOrdered(s)  BY <1>4, <1>5, <1>6
  <1> QED  BY <1>7 DEF s

-----------------------------------------------------------------------------
(* The order of the steps, from one state of the loop to the next *)

LEMMA OrderApplied ==
    ASSUME WorkflowInv, OrderInv, NEW r, NEW e \in BOOLEAN, NEW act \in Attempts \cup {None},
           NEW rest, try_apply(Batch(r, e, None), act, rest), r \in Runs, WellOrdered(r)
    PROVE  OrderInv'
  <1>1. run' = r /\ (Saved(r, act, rest) \/ Unsaved)
    BY Outcome DEF WorkflowInv
  <1>2. /\ loop' \notin {"stalled", "rejected"}
        /\ store'.snapshot = r \/ store'.snapshot = store.snapshot
    BY <1>1 DEF Saved, Unsaved, DeadLoops
  <1>3. WellOrdered(run')  BY <1>1
  <1>4. store'.snapshot # None => WellOrdered(store'.snapshot)
    BY <1>2 DEF OrderInv
  <1>5. NoDeadEnds'  BY <1>2 DEF NoDeadEnds
  <1> QED  BY <1>3, <1>4, <1>5 DEF OrderInv

LEMMA OrderKept ==
    ASSUME OrderInv, run' = run, store'.snapshot = store.snapshot,
           \/ loop' = loop
           \/ loop' \notin {"stalled", "rejected"}
           \/ loop' = "rejected" /\ run.status = "Cancelling"
    PROVE  OrderInv'
  BY DEF OrderInv, NoDeadEnds

LEMMA OrderedFirst ==
    ASSUME WorkflowInv, OrderInv, FirstCommand
    PROVE  OrderInv'
  <1> DEFINE r == IF loop = "start" THEN start(run) ELSE recover(run)
  <1>1. /\ loop \in {"start", "recover"} /\ try_apply(Batch(r, TRUE, None), None, <<>>)
    BY DEF FirstCommand
  <1>2. Sound(run) /\ WellOrdered(run)  BY DEF WorkflowInv, RunInv, TypeOK, Sound, OrderInv
  <1>3. r \in Runs /\ WellOrdered(r)
    <2>1. CASE loop = "start"
      <3>1. run.status = "Created"  BY <2>1 DEF WorkflowInv, LoopInv
      <3> QED  BY <1>2, <2>1, <3>1, StartSound, StartOrdered DEF Sound
    <2>2. CASE loop = "recover"
      <3>1. run.status \notin Terminal \cup {"Created"}  BY <2>2 DEF WorkflowInv, LoopInv
      <3> QED  BY <1>2, <2>2, <3>1, RecoverSound, RecoverOrdered DEF Sound
    <2> QED  BY <1>1, <2>1, <2>2
  <1> HIDE DEF r
  <1> QED  BY <1>1, <1>3, OrderApplied

LEMMA OrderedAbort ==
    ASSUME WorkflowInv, OrderInv, Running, NEW act \in Attempts \cup {None}, NEW rest,
           try_apply(Batch(abort(run), TRUE, None), act, rest)
    PROVE  OrderInv'
  <1> DEFINE r == abort(run)
  <1>1. Sound(run) /\ run.failed_step = None  BY RunningFacts
  <1>2. Halted(run, r, "Failed") /\ "Failed" \in Closing
    BY <1>1, AbortFacts DEF Sound, Closing, Terminal
  <1> HIDE DEF r
  <1>3. WellOrdered(r) /\ r \in Runs  BY <1>1, <1>2, HaltedOrdered DEF OrderInv, Halted
  <1> QED  BY <1>3, OrderApplied DEF r

LEMMA OrderedCancel ==
    ASSUME WorkflowInv, OrderInv, Cancel
    PROVE  OrderInv'
  <1>1. CASE run.status = "Cancelling"
    BY <1>1, OrderKept DEF Cancel
  <1>2. CASE run.status # "Cancelling"
    <2> DEFINE r == cancel(run)
               st == IF ActiveSteps(run) = {} THEN "Cancelled" ELSE "Cancelling"
               e == ActiveSteps(run) = {}
    <2>1. Running /\ try_apply(Batch(r, e, None), active, signals)
      BY <1>2 DEF Cancel
    <2>2. Sound(run) /\ run.failed_step = None  BY <2>1, RunningFacts
    <2>3. Halted(run, r, st) /\ st \in Closing
      BY <2>2, CancelFacts DEF Sound, Closing, Terminal
    <2>4. e \in BOOLEAN  OBVIOUS
    <2> HIDE DEF r, st, e
    <2>5. WellOrdered(r) /\ r \in Runs  BY <2>2, <2>3, HaltedOrdered DEF OrderInv, Halted
    <2> QED  BY <2>1, <2>4, <2>5, Types, OrderApplied
  <1> QED  BY <1>1, <1>2

LEMMA OrderedCompletion ==
    ASSUME WorkflowInv, OrderInv, CancellationCompleted
    PROVE  OrderInv'
  <1> DEFINE r == cancellation_completed(run)
  <1>1. /\ Running /\ run.status = "Cancelling" /\ try_apply(Batch(r, TRUE, None), active, signals)
    BY DEF CancellationCompleted
  <1>2. Sound(run)  BY <1>1, RunningFacts
  <1>3. r \in Runs /\ WellOrdered(r)
    BY <1>1, <1>2, CompletedSound, CompletedOrdered DEF Sound, OrderInv
  <1> HIDE DEF r
  <1> QED  BY <1>1, <1>3, Types, OrderApplied

LEMMA OrderedRetry ==
    ASSUME WorkflowInv, OrderInv, RetryStep
    PROVE  OrderInv'
  <1>1. PICK n \in Scheduled : try_apply(Batch(retry(run, n), TRUE, None), active, signals)
    BY DEF RetryStep
  <1>2. Running /\ run.status # "Cancelling"  BY DEF RetryStep, MayAdmit
  <1> DEFINE r == retry(run, n)
  <1>3. n \in Nodes /\ run.steps[n].status = "RetryScheduled"  BY DEF Scheduled
  <1>4. Sound(run) /\ GoesOn(run) /\ WellOrdered(run)  BY <1>2, RunningFacts DEF OrderInv
  <1>5. r \in Runs /\ WellOrdered(r)  BY <1>3, <1>4, RetrySound, RetryOrdered DEF Sound
  <1>6. try_apply(Batch(r, TRUE, None), active, signals)  BY <1>1
  <1> HIDE DEF r
  <1> QED  BY <1>5, <1>6, Types, OrderApplied

\* A run that may admit a step, and has none to retry, has one ready.
LEMMA SomeStepIsReady ==
    ASSUME WorkflowInv, MayAdmit, Scheduled = {}
    PROVE  ready_steps(run) # {}
  <1>1. GoesOn(run) /\ ActiveSteps(run) = {} /\ Running /\ ~run.paused
    BY AdmitsWhenClosed DEF MayAdmit
  <1>2. Sound(run)  BY <1>1, RunningFacts
  <1>3. run.status = "Ready"
    BY <1>1, <1>2, GoingOn DEF Settled
  <1>4. PICK f \in Nodes : run.steps[f].status \in FrontStatus
    BY <1>1, <1>2, GoingOn DEF Front
  <1>5. run.steps[f].status = "Ready"
    BY <1>1, <1>4 DEF FrontStatus, ActiveSteps, Scheduled
  <1> QED  BY <1>1, <1>3, <1>5 DEF ready_steps

LEMMA OrderedAdmission ==
    ASSUME WorkflowInv, OrderInv, StepAdmitted
    PROVE  OrderInv'
  <1>1. MayAdmit /\ Running /\ active = None /\ ready_steps(run) # {}
    BY SomeStepIsReady DEF StepAdmitted, MayAdmit
  <1>2. GoesOn(run) /\ Sound(run)  BY <1>1, AdmitsWhenClosed, RunningFacts
  <1>3. PICK n \in ready_steps(run) :
          try_apply(Batch(admit(run, n), TRUE, IF admit(run, n).status = "Failed" THEN None ELSE n),
                    active, signals)
    BY <1>1 DEF StepAdmitted
  <1>4. n \in Nodes /\ run.steps[n].status = "Ready"  BY DEF ready_steps
  <1> DEFINE r == admit(run, n)
  <1>5. r \in Runs /\ WellOrdered(r)
    BY <1>2, <1>4, AdmitSound, AdmitOrdered DEF Sound, OrderInv
  <1>6. CASE r.status = "Failed"
    <2>1. try_apply(Batch(r, TRUE, None), active, signals)  BY <1>3, <1>6
    <2> HIDE DEF r
    <2> QED  BY <1>5, <2>1, Types, OrderApplied
  <1>7. CASE r.status # "Failed"
    <2>1. try_apply(Batch(r, TRUE, n), active, signals)  BY <1>3, <1>7
    <2> HIDE DEF r
    <2>2. run' = r /\ (Dispatches(r, n) \/ Unsaved)
      BY <1>4, <1>5, <2>1, Types, DispatchOutcome DEF WorkflowInv
    <2>3. /\ loop' \notin {"stalled", "rejected"}
          /\ store'.snapshot = r \/ store'.snapshot = store.snapshot
      BY <2>2 DEF Dispatches, Unsaved, DeadLoops
    <2>4. NoDeadEnds'  BY <2>3 DEF NoDeadEnds
    <2>5. WellOrdered(run')  BY <1>5, <2>2
    <2>6. store'.snapshot # None => WellOrdered(store'.snapshot)
      BY <1>5, <2>3 DEF OrderInv
    <2> QED  BY <2>4, <2>5, <2>6 DEF OrderInv
  <1> QED  BY <1>6, <1>7

LEMMA OrderedPause ==
    ASSUME WorkflowInv, OrderInv, Pause \/ Resume
    PROVE  OrderInv'
  <1>1. PICK p \in BOOLEAN :
            Running /\ try_apply(Batch(settle([run EXCEPT !.paused = p]), TRUE, None), active, signals)
    BY DEF Pause, Resume, Waiting, pause, resume
  <1> DEFINE r == settle([run EXCEPT !.paused = p])
  <1>2. Sound(run) /\ run.status # "Created"  BY <1>1, RunningFacts
  <1>3. r \in Runs /\ WellOrdered(r)  BY <1>2, PauseSound, PauseOrdered DEF Sound, OrderInv
  <1>4. try_apply(Batch(r, TRUE, None), active, signals)  BY <1>1
  <1> HIDE DEF r
  <1> QED  BY <1>3, <1>4, Types, OrderApplied

LEMMA OrderedAnswer ==
    ASSUME WorkflowInv, OrderInv, resolve_permission \/ resolve_input
    PROVE  OrderInv'
  <1> DEFINE n == active.node
  <1>1. Running /\ active # None  BY DEF resolve_permission, resolve_input, Waiting
  <1>2. active \in Attempts  BY <1>1, Types
  <1>3. n \in Nodes  BY <1>2 DEF Attempts
  <1>4. FlagInv(run)  BY <1>1, RunningFacts DEF Sound
  <1>5. CASE resolve_permission
    <2> DEFINE r == permission_resolved(run, n)
               act == [active EXCEPT !.task = "work"]
    <2>1. run.steps[n].pending_permission /\ try_apply(Batch(r, TRUE, None), act, signals)
      BY <1>5 DEF resolve_permission, Step
    <2>2. run.steps[n].status = "WaitingForPermission"  BY <1>3, <1>4, <2>1 DEF FlagInv
    <2>3. n \in ActiveSteps(run) /\ Sound(run) /\ GoesOn(run)
      BY <1>1, <2>2, InFlightFacts DEF ActiveStatus
    <2>4. r \in Runs /\ WellOrdered(r)
      BY <2>2, <2>3, PermissionResolvedSound, InFlightOrdered DEF Sound, OrderInv
    <2>5. act \in Attempts  BY <1>2 DEF Attempts, TaskStates
    <2> HIDE DEF r, act
    <2> QED  BY <2>1, <2>4, <2>5, OrderApplied
  <1>6. CASE resolve_input
    <2>1. PICK decision \in approval_decisions(active.node, active.attempt) :
            try_apply(Batch(input_resolved(run, active.node), TRUE, None),
                      IF active.task # "asking" THEN active
                      ELSE [active EXCEPT !.task = "over", !.result = decision], signals)
      BY <1>6 DEF resolve_input
    <2> DEFINE r == input_resolved(run, n)
               act == IF active.task # "asking" THEN active
                      ELSE [active EXCEPT !.task = "over", !.result = decision]
    <2>2. run.steps[n].pending_input /\ try_apply(Batch(r, TRUE, None), act, signals)
      BY <1>6, <2>1 DEF resolve_input, Step
    <2>3. run.steps[n].status = "WaitingForInput"  BY <1>3, <1>4, <2>2 DEF FlagInv
    <2>4. n \in ActiveSteps(run) /\ Sound(run) /\ GoesOn(run)
      BY <1>1, <2>3, InFlightFacts DEF ActiveStatus
    <2>5. r \in Runs /\ WellOrdered(r)
      BY <2>3, <2>4, InputResolvedSound, InFlightOrdered DEF Sound, OrderInv
    <2>6. decision \in Results  BY DEF approval_decisions, Results, Reasons
    <2>7. act \in Attempts  BY <1>2, <2>6 DEF Attempts, TaskStates
    <2> HIDE DEF r, act
    <2> QED  BY <2>2, <2>5, <2>7, OrderApplied
  <1> QED  BY <1>5, <1>6

LEMMA OrderedSignal ==
    ASSUME WorkflowInv, OrderInv, on_signal
    PROVE  OrderInv'
  <1> DEFINE n == active.node
             signal == Head(signals)
             rest == Tail(signals)
  <1>1. Running /\ active # None /\ signals # <<>>  BY DEF on_signal, Waiting
  <1>2. active \in Attempts /\ signals \in Seq(Sigs)  BY <1>1, Types
  <1>3. signal \in Sigs  BY <1>1, <1>2, NextSignal
  <1>4. WellOrdered(run)  BY DEF OrderInv
  <1>5. CASE signal = "usage"
    <2> DEFINE act == [active EXCEPT !.usage = 1]
    <2>1. \/ try_apply(Batch(abort(run), TRUE, None), act, rest)
          \/ UNCHANGED <<run, loop, store, started, faults>>
      BY <1>5 DEF on_signal
    <2>2. act \in Attempts  BY <1>2 DEF Attempts
    <2> HIDE DEF act
    <2> QED  BY <1>1, <2>1, <2>2, OrderedAbort, OrderKept
  <1>6. CASE signal \in Questions
    <2>1. ~InFlight => run.status = "Cancelling"
      BY <1>1, <1>6, OnQuestion, RunningFacts
    <2>2. InFlight => /\ n \in ActiveSteps(run) /\ GoesOn(run) /\ Sound(run)
                      /\ run.steps[n].status = "Running"
      BY <1>1, <1>6, OnQuestion
    <2>3. CASE ~InFlight
      <3>1. \/ UNCHANGED <<run, loop, store, started, faults>>
            \/ Refused(active)
        BY <1>6, <2>3 DEF on_signal, Questions
      <3> QED  BY <2>1, <2>3, <3>1, OrderKept DEF Refused, LoopDies
    <2>4. CASE InFlight
      <3>1. n \in Nodes  BY <2>2, <2>4 DEF ActiveSteps
      <3>2. PICK r, act :
              /\ \/ r = permission_required(run, n) /\ act = active
                 \/ r = input_required(run, n) /\ act = active
                 \/ r = record_checkpoint(run, n) /\
                    act = IF active.task = "checkpoint" THEN [active EXCEPT !.task = "work"] ELSE active
              /\ try_apply(Batch(r, TRUE, None), act, rest)
        BY <1>6, <2>4 DEF on_signal, Questions
      <3>3. r \in Runs /\ WellOrdered(r)
        BY <1>4, <2>2, <2>4, <3>1, <3>2, PermissionRequiredSound, InputRequiredSound,
           CheckpointSound, InFlightOrdered DEF Sound
      <3>4. act \in Attempts
        BY <1>2, <3>2 DEF Attempts, TaskStates
      <3> QED  BY <3>2, <3>3, <3>4, OrderApplied
    <2> QED  BY <2>3, <2>4
  <1> QED  BY <1>3, <1>5, <1>6 DEF Sigs, Questions

\* What the attempt in flight reports, the reducer accepts.
LEMMA ReportsAreAccepted ==
    ASSUME WorkflowInv, OrderInv, on_step_done, run.status # "Cancelling"
    PROVE  /\ active.node \in ActiveSteps(run) /\ GoesOn(run) /\ Sound(run)
           /\ CanFail(run, active.node, active.attempt)
           /\ active.result = "ok" /\ ~active.stalled => CanSucceed(run, active.node, active.attempt)
  <1> DEFINE n == active.node
  <1>1. Running /\ active # None /\ active.task = "over"  BY DEF on_step_done, Waiting
  <1>2. active \in Attempts  BY <1>1, Types
  <1>3. n \in Nodes  BY <1>2 DEF Attempts
  <1>4. /\ GoesOn(run) /\ Sound(run) /\ ActiveSteps(run) = {n}
        /\ active.attempt = run.steps[n].attempts /\ Asked(active, run, signals)
    BY <1>1, RunningFacts
  <1>5. n \in ActiveSteps(run) /\ active_attempt(run, n, active.attempt)
    BY <1>4 DEF active_attempt, ActiveSteps
  <1>6. \A k \in Nodes : k = OnSuccess[n] \/ k = OnFailure[n] => CanActivate(run, k)
    BY <1>4, <1>5, NextIsPending DEF OrderInv
  <1>7. CanFail(run, n, active.attempt)
    BY <1>3, <1>5, <1>6, DefinitionAssumption DEF CanFail
  <1>8. ASSUME active.result = "ok", ~active.stalled
        PROVE  CanSucceed(run, n, active.attempt)
    <2>1. run.steps[n].status = "Running"  BY <1>1, <1>4, <1>8 DEF Asked
    <2>2. kind[n] = "Output" \/ CanActivate(run, OnSuccess[n])
      BY <1>3, <1>6, DefinitionAssumption
    <2> QED  BY <1>5, <2>1, <2>2 DEF CanSucceed
  <1> QED  BY <1>4, <1>5, <1>7, <1>8

LEMMA OrderedEnd ==
    ASSUME OnThePath, WorkflowInv, OrderInv, on_step_done
    PROVE  OrderInv'
  <1> DEFINE n == active.node
             drained == "usage" \in {signals[i] : i \in DOMAIN signals}
             used == IF drained THEN 1 ELSE active.usage
  <1>1. Running /\ active # None /\ WellOrdered(run)  BY DEF on_step_done, Waiting, OrderInv
  <1>2. active \in Attempts  BY <1>1, Types
  <1>3. n \in Nodes /\ used \in Nat  BY <1>2 DEF Attempts
  <1>4. CASE run.status = "Cancelling"
    <2>1. \/ try_apply(Batch(abort(run), TRUE, None), None, <<>>)
          \/ UNCHANGED <<run, loop, store, started, reported, faults>>
      BY <1>4 DEF on_step_done
    <2> QED  BY <1>1, <2>1, OrderedAbort, OrderKept
  <1>5. CASE run.status # "Cancelling"
    <2>1. /\ n \in ActiveSteps(run) /\ GoesOn(run) /\ Sound(run)
          /\ CanFail(run, n, active.attempt)
          /\ active.result = "ok" /\ ~active.stalled => CanSucceed(run, n, active.attempt)
      BY <1>5, ReportsAreAccepted
    <2>2. \/ try_apply(Batch(abort(run), TRUE, None), None, <<>>)
          \/ /\ CanSucceed(run, n, active.attempt)
             /\ try_apply(Batch(succeed(run, n, used), TRUE, None), None, <<>>)
          \/ try_apply(Batch(fail(run, n, attempt_error, used), TRUE, None), None, <<>>)
      BY <1>5, <2>1 DEF on_step_done
    <2> HIDE DEF used
    <2>3. ASSUME CanSucceed(run, n, active.attempt),
                 try_apply(Batch(succeed(run, n, used), TRUE, None), None, <<>>)
          PROVE  OrderInv'
      <3> DEFINE r == succeed(run, n, used)
      <3>1. run.steps[n].status = "Running" /\ (kind[n] = "Output" \/ CanActivate(run, OnSuccess[n]))
        BY <2>3 DEF CanSucceed
      <3>2. r \in Runs /\ WellOrdered(r)
        BY <1>1, <1>3, <2>1, <3>1, SucceedSound, SucceedOrdered DEF Sound
      <3>3. try_apply(Batch(r, TRUE, None), None, <<>>)  BY <2>3
      <3> HIDE DEF r
      <3> QED  BY <3>2, <3>3, OrderApplied
    <2>4. ASSUME try_apply(Batch(fail(run, n, attempt_error, used), TRUE, None), None, <<>>)
          PROVE  OrderInv'
      <3> DEFINE r == fail(run, n, attempt_error, used)
      <3>1. OnFailure[n] # None => CanActivate(run, OnFailure[n])  BY <2>1 DEF CanFail
      <3>2. attempt_error \in Errors  BY <1>2, ErrorFacts
      <3>3. r \in Runs /\ WellOrdered(r)
        BY <1>1, <1>3, <2>1, <3>1, <3>2, FailSound, FailOrdered DEF Sound
      <3>4. try_apply(Batch(r, TRUE, None), None, <<>>)  BY <2>4
      <3> HIDE DEF r
      <3> QED  BY <3>3, <3>4, OrderApplied
    <2> QED  BY <1>1, <2>2, <2>3, <2>4, OrderedAbort
  <1> QED  BY <1>4, <1>5

LEMMA OrderedRestart ==
    ASSUME OnThePath, WorkflowInv, OrderInv, ResumeRun \/ retry_failed
    PROVE  OrderInv'
  <1>1. CASE ResumeRun
    <2>1. store.snapshot # None /\ run' = store.snapshot /\ loop' = "recover" /\ store' = store
      BY <1>1 DEF ResumeRun
    <2> QED  BY <2>1 DEF OrderInv, NoDeadEnds
  <1>2. CASE retry_failed
    <2>1. /\ run.failed_step # None /\ run' = Reopened(run) /\ loop' = "recover"
          /\ store' = [snapshot |-> None, ahead |-> FALSE, cached |-> FALSE]
      BY <1>2 DEF retry_failed
    <2>2. Sound(run) /\ WellOrdered(run)  BY DEF WorkflowInv, RunInv, TypeOK, Sound, OrderInv
    <2>3. WellOrdered(Reopened(run))  BY <2>1, <2>2, ReopenedOrdered
    <2>4. store'.snapshot = None  BY <2>1
    <2> QED  BY <2>1, <2>3, <2>4 DEF OrderInv, NoDeadEnds
  <1> QED  BY <1>1, <1>2

LEMMA OrderStep ==
    ASSUME OnThePath, WorkflowInv, OrderInv, [Next]_vars
    PROVE  OrderInv'
  <1>1. CASE Drives
    BY <1>1, OrderedFirst, OrderedCancel, OrderedCompletion, OrderedRetry, OrderedAdmission
    DEF Drives
  <1>2. CASE Elapsed
    BY <1>2, Types, OrderedAbort DEF Elapsed
  <1>3. CASE Pause \/ Answers
    BY <1>3, OrderedPause, OrderedAnswer DEF Answers
  <1>4. CASE on_signal \/ on_step_done
    BY <1>4, OrderedSignal, OrderedEnd
  <1>5. CASE TaskGoesOn \/ TaskTimesOut \/ on_stalled \/ CancelRequested
    <2>1. UNCHANGED <<run, loop, store>>
      BY <1>5 DEF TaskGoesOn, ReportSignal, Ask, TaskEnds, TaskCancelled, TaskTimesOut, TaskOnly,
                  on_stalled, CancelRequested
    <2> QED  BY <2>1, OrderKept
  <1>6. CASE Crash
    <2>1. loop' = "down" /\ run' = run /\ store' = [store EXCEPT !.cached = FALSE]
      BY <1>6 DEF Crash
    <2>2. store'.snapshot = store.snapshot  BY <2>1, Types DEF Stores
    <2> QED  BY <2>1, <2>2, OrderKept
  <1>7. CASE ResumeRun \/ retry_failed
    BY <1>7, OrderedRestart
  <1>8. CASE UNCHANGED vars
    BY <1>8, OrderKept DEF vars
  <1> QED  BY <1>1, <1>2, <1>3, <1>4, <1>5, <1>6, <1>7, <1>8 DEF Next

LEMMA OrderInit ==
    ASSUME Init
    PROVE  OrderInv
  <1>1. run = NewRun /\ loop = "start"
        /\ store = [snapshot |-> None, ahead |-> FALSE, cached |-> FALSE]
    BY DEF Init
  <1>2. /\ NewRun.status = "Created" /\ NewRun.failed_step = None
        /\ \A n \in Nodes : NewRun.steps[n].status = "Pending"
    BY NewRunFacts
  <1>3. PathInv(NewRun)
    BY <1>2 DEF PathInv
  <1>4. FreshInv(NewRun)
    BY <1>2 DEF FreshInv, ActiveSteps, ActiveStatus
  <1>5. store.snapshot = None  BY <1>1
  <1> QED  BY <1>1, <1>3, <1>4, <1>5 DEF OrderInv, WellOrdered, NoDeadEnds

\* The order of the steps is kept, when every definition sends work back to
\* a step on the sender's own path.
THEOREM OrderInvariant ==
    ASSUME OnThePath
    PROVE  Spec => []OrderInv
  <1>1. Init => OrderInv  BY OrderInit
  <1>2. WorkflowInv /\ OrderInv /\ [Next]_vars => OrderInv'  BY OrderStep
  <1> QED  BY <1>1, <1>2, WorkflowInvariant, PTL DEF Spec

\* The loop is never without a runnable step, and what an attempt reports is
\* refused only in a run that is being cancelled: a transition always finds
\* the step it leads to not yet begun, since what has begun comes before the
\* step in flight and the definition has no cycle.
THEOREM NoRunDeadEnds ==
    ASSUME OnThePath
    PROVE  Spec => []NoDeadEnds
  <1>1. OrderInv => NoDeadEnds  BY DEF OrderInv
  <1> QED  BY <1>1, OrderInvariant, PTL

\* A step that has succeeded was given what the steps before it have made
\* last: work that is sent back takes with it all that was built on it.
THEOREM WorkIsNotStale ==
    ASSUME OnThePath
    PROVE  Spec => []ResultsAreCurrent
  <1>1. OrderInv => ResultsAreCurrent
    BY DEF OrderInv, WellOrdered, FreshInv, ResultsAreCurrent
  <1> QED  BY <1>1, OrderInvariant, PTL
=============================================================================

------------------------------ MODULE Workflow ------------------------------
(***************************************************************************)
(* The reducer of workflow-core: what each command does to the state of a  *)
(* workflow run.  A command is an operator from a run state to the next    *)
(* one; its guard, where the reducer can refuse it, is an operator of its  *)
(* own (CanSucceed, CanFail...).  Values that flow between steps are the   *)
(* numbers of the attempts that made them.                                 *)
(***************************************************************************)
EXTENDS Naturals

CONSTANTS
    Nodes, kind,            \* the compiled definition: its nodes and their kinds
    OnSuccess, OnFailure,   \* edges by source; None where there is no edge
    retry_target,           \* verify: retry_target; approval: revise_target
    max_attempts, retry_on, \* RetryPolicy of each node
    max_revisions,          \* of an approval
    revise_on_notes,        \* of an approval
    max_total_attempts,     \* OrchestrationPolicies
    max_tokens,
    None

Kinds == {"Input", "Agent", "Subflow", "Verify", "Approval", "Output"}
Reasons == {"BackendTimeout", "VerificationFailed", "ChangesRequested"}

Successors(n) == {OnSuccess[n], OnFailure[n]} \ {None}

descendants(n) ==
    {m \in Nodes : \A S \in SUBSET Nodes :
        (Successors(n) \subseteq S /\ \A s \in S : Successors(s) \subseteq S) => m \in S}

ancestors == [n \in Nodes |-> {m \in Nodes : n \in descendants(m)}]

\* What the compiler has checked of a definition.
ASSUME DefinitionAssumption ==
    /\ None \notin Nodes
    /\ kind \in [Nodes -> Kinds]
    /\ OnSuccess \in [Nodes -> Nodes \cup {None}] /\ OnFailure \in [Nodes -> Nodes \cup {None}]
    /\ \A n \in Nodes : n \notin ancestors[n]
    /\ \A n \in Nodes : kind[n] = "Output" <=> OnSuccess[n] = None
    /\ \A n \in Nodes : kind[n] = "Output" => OnFailure[n] = None
    /\ \E n \in Nodes : kind[n] = "Input" /\ \A m \in Nodes : kind[m] = "Input" => m = n
    /\ max_attempts \in [Nodes -> Nat \ {0}] /\ retry_on \in [Nodes -> SUBSET Reasons]
    /\ retry_target \in [Nodes -> Nodes \cup {None}]
    /\ \A n \in Nodes : retry_target[n] # None =>
        /\ kind[n] \in {"Verify", "Approval"} /\ kind[retry_target[n]] = "Agent"
        /\ retry_target[n] \in ancestors[n]
        /\ kind[n] = "Verify" => "VerificationFailed" \in retry_on[retry_target[n]]
    /\ max_revisions \in Nat /\ revise_on_notes \in BOOLEAN
    /\ max_total_attempts \in Nat \ {0} /\ max_tokens \in Nat

Terminal == {"Completed", "Failed", "Cancelled"}
ActiveStatus == {"Running", "WaitingForPermission", "WaitingForInput"}
RunStatus == Terminal \cup ActiveStatus \cup {"Created", "Ready", "Paused", "Cancelling"}
StepStatus == ActiveStatus \cup
    {"Pending", "Ready", "RetryScheduled", "Succeeded", "Failed", "Skipped", "Cancelled"}

\* StepRun.  output is the attempt that made it (0: none), read what the
\* attempt in flight, or the successful one, was given of the other steps,
\* last_error the code of the last attempt that is over.
Steps == [status : StepStatus, attempts : Nat, output : Nat, read : [Nodes -> Nat],
          last_error : {"none", "other", "changes_approved"},
          pending_permission : BOOLEAN, pending_input : BOOLEAN,
          checkpoint : BOOLEAN, retry_base : Nat]

\* OrchestrationRunState, without what identifies the run.
Runs == [status : RunStatus, paused : BOOLEAN, steps : [Nodes -> Steps],
         failed_step : Nodes \cup {None}, verification_failed : BOOLEAN,
         total_attempts : Nat, usage : Nat]

NewStep == [status |-> "Pending", attempts |-> 0, output |-> 0, read |-> [n \in Nodes |-> 0],
            last_error |-> "none", pending_permission |-> FALSE, pending_input |-> FALSE,
            checkpoint |-> FALSE, retry_base |-> 0]

NewRun == [status |-> "Created", paused |-> FALSE, steps |-> [n \in Nodes |-> NewStep],
           failed_step |-> None, verification_failed |-> FALSE,
           total_attempts |-> 0, usage |-> 0]

-----------------------------------------------------------------------------
(* The compiler: which steps are reset when work is sent back *)

retry_spans ==
    [n \in {v \in Nodes : retry_target[v] # None} |->
        {retry_target[n], n} \cup
        (descendants(retry_target[n]) \cap ancestors[n])]

\* A step that sends work back sends it to a step on its own path: whatever
\* comes before it comes before or after the target.  span_for does not ask
\* for this, only for a target upstream.
OnThePath ==
    \A n \in Nodes : retry_target[n] # None =>
        \A m \in ancestors[n] :
            m = retry_target[n] \/ m \in ancestors[retry_target[n]] \/ retry_target[n] \in ancestors[m]

entry_node == CHOOSE n \in Nodes : kind[n] = "Input"

-----------------------------------------------------------------------------
(* The reducer: from a run state to the next one *)

ActiveSteps(r) == {n \in Nodes : r.steps[n].status \in ActiveStatus}

settle(r) ==
    IF r.status \in Terminal \cup {"Cancelling"} THEN r
    ELSE [r EXCEPT !.status =
        IF ActiveSteps(r) # {} THEN r.steps[CHOOSE n \in ActiveSteps(r) : TRUE].status
        ELSE IF r.paused THEN "Paused" ELSE "Ready"]

\* Nothing that has not begun will begin any more.
WithoutWaiting(r) ==
    LET dropped(status) == CASE status = "Pending" -> "Skipped"
                             [] status \in {"Ready", "RetryScheduled"} -> "Cancelled"
                             [] OTHER -> status
    IN  [r EXCEPT !.steps = [n \in Nodes |->
            [r.steps[n] EXCEPT !.status = dropped(r.steps[n].status)]]]

terminate_failed(r) == [WithoutWaiting(r) EXCEPT !.status = "Failed"]

exhausted_budget(r) == r.total_attempts >= max_total_attempts \/ r.usage >= max_tokens

start(r) == settle([r EXCEPT !.steps[entry_node].status = "Ready"])

admit(r, n) ==
    IF exhausted_budget(r) THEN terminate_failed(r)
    ELSE settle([r EXCEPT !.steps[n].status = "Running", !.steps[n].attempts = @ + 1,
                          !.steps[n].read = [m \in Nodes |-> r.steps[m].output],
                          !.total_attempts = @ + 1])

retry(r, n) == settle([r EXCEPT !.steps[n].status = "Ready"])

record_usage(r, used) == [r EXCEPT !.usage = @ + used]

\* A transition to a step that is not Pending is refused.
activate(r, n) == settle([r EXCEPT !.steps[n].status = "Ready"])
CanActivate(r, n) == r.steps[n].status = "Pending"

\* The step, if this is its attempt in flight.
active_attempt(r, n, attempt) ==
    r.steps[n].status \in ActiveStatus /\ r.steps[n].attempts = attempt

CanSucceed(r, n, attempt) ==
    /\ active_attempt(r, n, attempt) /\ r.steps[n].status = "Running"
    /\ kind[n] = "Output" \/ CanActivate(r, OnSuccess[n])

succeed(r0, n, used) ==
    LET r == [record_usage(r0, used) EXCEPT
                !.steps[n].status = "Succeeded", !.steps[n].last_error = "none",
                !.steps[n].output = r0.steps[n].attempts]
    IN  IF kind[n] = "Output" THEN [r EXCEPT !.status = "Completed"]
        ELSE activate(r, OnSuccess[n])

mark_attempt_failed(r, n, error) ==
    [r EXCEPT !.steps[n].status = "Failed", !.steps[n].pending_permission = FALSE,
              !.steps[n].pending_input = FALSE, !.steps[n].last_error = error.code]

\* Fault: only the target is reset, not the steps after it.
SendBackTargetOnly(r, from) ==
    settle([r EXCEPT !.steps[retry_target[from]].status = "RetryScheduled",
                     !.steps[retry_target[from]].output = 0,
                     !.steps[from].status = "Pending"])

send_back(r, from) ==
    LET target == retry_target[from] IN
    settle([r EXCEPT !.steps = [n \in Nodes |->
        IF n \notin retry_spans[from] THEN r.steps[n]
        ELSE [r.steps[n] EXCEPT !.status = IF n = target THEN "RetryScheduled" ELSE "Pending",
                                !.output = 0,
                                !.checkpoint = n = target /\ r.steps[n].checkpoint]]])

Attempted(r, n) == IF r.steps[n].attempts > r.steps[n].retry_base
                   THEN r.steps[n].attempts - r.steps[n].retry_base ELSE 0
AttemptsLeft(r, n) == Attempted(r, n) < max_attempts[n]

retry_same_step(r, n, error) == error.reason \in retry_on[n] /\ AttemptsLeft(r, n)

send_back_to_retry_target(r, n, error) ==
    /\ kind[n] = "Verify" /\ error.reason = "VerificationFailed" /\ retry_target[n] # None
    /\ AttemptsLeft(r, retry_target[n])

send_back_for_changes(r, n, error) ==
    /\ kind[n] = "Approval" /\ error.reason = "ChangesRequested" /\ retry_target[n] # None
    /\ r.steps[n].attempts <= max_revisions

\* The ways out of a failure, in order; with none of them the run fails.
fail(r0, n, error, used) ==
    LET r == mark_attempt_failed(record_usage(r0, used), n, error)
        budget_left == ~exhausted_budget(r)
    IN  IF retry_same_step(r, n, error) /\ budget_left
          THEN settle([r EXCEPT !.steps[n].status = "RetryScheduled"])
        ELSE IF send_back_to_retry_target(r, n, error) /\ budget_left
          THEN send_back(r, n)
        ELSE IF send_back_for_changes(r, n, error) /\ budget_left
          THEN send_back([r EXCEPT !.steps[retry_target[n]].retry_base =
                                        r.steps[retry_target[n]].attempts], n)
        ELSE IF OnFailure[n] # None
          THEN activate(r, OnFailure[n])
        ELSE terminate_failed([r EXCEPT !.failed_step = n, !.verification_failed =
                                    budget_left /\ error.reason = "VerificationFailed"])

CanFail(r, n, attempt) ==
    /\ active_attempt(r, n, attempt)
    /\ OnFailure[n] # None => CanActivate(r, OnFailure[n])

permission_required(r, n) ==
    settle([r EXCEPT !.steps[n].status = "WaitingForPermission", !.steps[n].pending_permission = TRUE])

permission_resolved(r, n) ==
    settle([r EXCEPT !.steps[n].status = "Running", !.steps[n].pending_permission = FALSE])

input_required(r, n) ==
    settle([r EXCEPT !.steps[n].status = "WaitingForInput", !.steps[n].pending_input = TRUE])

input_resolved(r, n) ==
    settle([r EXCEPT !.steps[n].pending_input = FALSE, !.steps[n].status =
        IF r.steps[n].pending_permission THEN "WaitingForPermission" ELSE "Running"])

record_checkpoint(r, n) == [r EXCEPT !.steps[n].checkpoint = TRUE]

pause(r) == settle([r EXCEPT !.paused = TRUE])
resume(r) == settle([r EXCEPT !.paused = FALSE])

\* The attempts in flight are recorded as over.
Stopped(r, status) ==
    [r EXCEPT !.steps = [n \in Nodes |->
        IF n \notin ActiveSteps(r) THEN r.steps[n]
        ELSE [r.steps[n] EXCEPT !.status = status, !.pending_permission = FALSE,
                                !.pending_input = FALSE, !.last_error = "none"]]]

abort(r) == terminate_failed(Stopped(r, "Cancelled"))

cancel(r) ==
    [WithoutWaiting(Stopped(r, "Cancelled")) EXCEPT !.status =
        IF ActiveSteps(r) = {} THEN "Cancelled" ELSE "Cancelling"]

cancellation_completed(r) == [r EXCEPT !.status = "Cancelled"]

Indeterminate(r) == {n \in ActiveSteps(r) : kind[n] \in {"Agent", "Subflow"}}

\* Fault: the attempts that were in flight are still taken to run.
RecoverForgets(r) ==
    IF r.status = "Cancelling" THEN cancellation_completed(r) ELSE settle(r)

\* Fault: an agent attempt that was in flight is simply run again.
RecoverReplaysAgents(r) ==
    IF r.status = "Cancelling" THEN cancellation_completed(r) ELSE settle(Stopped(r, "Ready"))

recover(r) ==
    IF r.status = "Cancelling" THEN cancellation_completed(r)
    ELSE IF Indeterminate(r) = {} THEN settle(Stopped(r, "Ready"))
    ELSE terminate_failed([Stopped(r, "Ready") EXCEPT !.steps = [n \in Nodes |->
            IF n \in Indeterminate(r)
            THEN [@[n] EXCEPT !.status = "Failed", !.last_error = "other"] ELSE @[n]]])

ready_steps(r) ==
    IF r.status # "Ready" \/ r.paused THEN {}
    ELSE {n \in Nodes : r.steps[n].status = "Ready"}
=============================================================================

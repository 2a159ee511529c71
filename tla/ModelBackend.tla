---------------------------- MODULE ModelBackend ----------------------------
(***************************************************************************)
(* GenericModelBackend: concurrent requests to one model provider.  Each   *)
(* is admitted by a circuit breaker they all share, streams one provider   *)
(* call at a time, and is retried, continued, cancelled or failed          *)
(* according to how the call ended and what already reached the caller.    *)
(* A step is what one request does between two awaits; the breaker's mutex *)
(* makes each of its operations atomic.                                    *)
(***************************************************************************)
EXTENDS Naturals, Sequences, FiniteSets

CONSTANTS
    Requests,                   \* executions asked of this backend
    PlainText,                  \* those whose response format is text
    WithTools,                  \* those that offer the model tools
    Unsupported,                \* those that need a capability it lacks
    Answer,                     \* length of the model's text; 0: it says nothing
    max_attempts,               \* RecoveryPolicy: calls per request
    idle_timeout,               \* RecoveryPolicy, in units of 250 ms
    circuit_failure_threshold   \* RecoveryPolicy

ASSUME RequestsAssumption ==
    /\ PlainText \subseteq Requests
    /\ WithTools \subseteq Requests
    /\ Unsupported \subseteq Requests
    /\ Answer \in [Requests -> Nat]

ASSUME PolicyAssumption ==
    /\ max_attempts \in Nat \ {0}
    /\ idle_timeout \in Nat \ {0}
    /\ circuit_failure_threshold \in Nat \ {0}

VARIABLES
    circuit,        \* CircuitState
    phase,          \* where execute_request stands
    call,           \* the locals of execute_attempts, see Locals
    cancelled,      \* the caller's cancellation token
    sink,           \* the events sent to the caller
    failed,         \* history: requests counted as failed since a success
    probes          \* history: requests let through as half-open probes

vars == <<circuit, phase, call, cancelled, sink, failed, probes>>

Transient == {"Timeout", "RateLimited", "StreamInterrupted"}
Errors == Transient \cup {"Rejected", "Cancelled", "CircuitOpen",
                          "UnsupportedCapability"}
StopReasons == {"end_turn", "tool_calls", "tool_use"}
Pending == "Pending"
Phases == {"new", "streaming", "finishing", "backoff", "timed_out", "done"}

Caller == INSTANCE ExecutionContract WITH
    stage <- [r \in Requests |-> CASE phase[r] = "new"  -> "idle"
                                   [] phase[r] = "done" -> "ended"
                                   [] OTHER             -> "running"]

\* What a caller is sent.
Events == [kind : {"TextDelta"}, token : Nat] \cup {Caller!Output, Caller!ToolCall}
            \cup [kind : {"Completed"}, reason : StopReasons] \cup [kind : {"Error"}, error : Errors]

-----------------------------------------------------------------------------
(* CircuitBreaker *)

Closed == [consecutive_failures |-> 0, open_until |-> "none",
           half_open_probe_in_flight |-> FALSE]

\* "Rejected" stands for every error that is not transient.
is_retryable(error) == error \in Transient

Admitting == circuit.open_until # "cooling" /\ ~circuit.half_open_probe_in_flight

HalfOpen == circuit.open_until = "elapsed"

allow_request(c) ==
    IF c.open_until = "none" THEN c
    ELSE [c EXCEPT !.half_open_probe_in_flight = TRUE]

\* Fault: a success leaves the count and the window as they were.
SuccessKeepsCount == [circuit EXCEPT !.half_open_probe_in_flight = FALSE]

record_success == Closed

\* Fault: an error that does not count returns before the slot is freed.
FailureReturningEarly(c, error) ==
    IF ~is_retryable(error) THEN c
    ELSE [c EXCEPT !.consecutive_failures = @ + 1,
                   !.open_until = IF c.consecutive_failures + 1 >= circuit_failure_threshold
                                  THEN "cooling" ELSE @,
                   !.half_open_probe_in_flight = FALSE]

record_failure(c, error) ==
    IF ~is_retryable(error) THEN [c EXCEPT !.half_open_probe_in_flight = FALSE]
    ELSE LET failures == c.consecutive_failures + 1
         IN  [consecutive_failures |-> failures,
              open_until |-> IF failures >= circuit_failure_threshold
                             THEN "cooling" ELSE c.open_until,
              half_open_probe_in_flight |-> FALSE]

-----------------------------------------------------------------------------
(* What one attempt says, and what is done about it *)

\* The attempt's number, its AttemptProgress (text as a length), what of the
\* answer the request already holds as context, whether it offers tools, and
\* how the stream ended.
Locals == [attempt : 0..max_attempts, text : Nat, requested_tools : BOOLEAN,
           emitted_output : BOOLEAN, context : Nat, tools : BOOLEAN,
           outcome : StopReasons \cup Errors \cup {Pending}]

NoCall == [attempt |-> 0, text |-> 0, requested_tools |-> FALSE,
           emitted_output |-> FALSE, context |-> 0, tools |-> FALSE,
           outcome |-> Pending]

should_retry(r, error) ==
    /\ \/ ~call[r].emitted_output
       \/ /\ call[r].text > 0
          /\ ~call[r].requested_tools
          /\ r \in PlainText
    /\ is_retryable(error)
    /\ call[r].attempt < max_attempts

classify_attempt(r) ==
    IF call[r].outcome \in StopReasons THEN "Completed"
    ELSE CASE cancelled[r] \/ call[r].outcome = "Cancelled" -> "Cancelled"
           [] OTHER -> IF should_retry(r, call[r].outcome) THEN "Retry" ELSE "Failed"

\* Exponential backoff with up to 50% jitter, unless the provider said how
\* long to wait; only whether it reaches idle_timeout matters afterwards.
retry_delay(n, error) ==
    LET base == 2^(n - 1)
    IN  (base .. (base + base \div 2))
            \cup (IF error = "RateLimited" THEN {0, idle_timeout} ELSE {})

\* Fault: the request is sent again as it was.
ReplayRequest(c) == [c EXCEPT !.tools = FALSE]

\* The partial answer and the instruction to continue it join the request,
\* which from then on offers no tools.
append_interrupted_response(c) == [c EXCEPT !.context = @ + c.text, !.tools = FALSE]

\* What prepare_retry keeps of an attempt: the reshaped request.
Reshaped(c) ==
    LET request == IF c.text = 0 THEN c ELSE append_interrupted_response(c)
    IN  [NoCall EXCEPT !.attempt = c.attempt, !.context = request.context,
                       !.tools = request.tools]

finish_reason(stop) == IF stop = "tool_calls" THEN "tool_use" ELSE stop

-----------------------------------------------------------------------------

Init ==
    /\ circuit = Closed
    /\ phase = [r \in Requests |-> "new"]
    /\ call = [r \in Requests |-> NoCall]
    /\ cancelled = [r \in Requests |-> FALSE]
    /\ sink = [r \in Requests |-> <<>>]
    /\ failed = {}
    /\ probes = {}

send_event(r, event) == sink' = [sink EXCEPT ![r] = Append(@, event)]

\* emit_terminal: the one event that ends the request; its locals are gone.
emit_terminal(r, event) ==
    /\ phase' = [phase EXCEPT ![r] = "done"]
    /\ call' = [call EXCEPT ![r] = NoCall]
    /\ send_event(r, event)

\* run_attempt starts with a fresh AttemptProgress.
StartAttempt(r, context, tools) ==
    /\ phase' = [phase EXCEPT ![r] = "streaming"]
    /\ call' = [call EXCEPT ![r] = [NoCall EXCEPT !.attempt = call[r].attempt + 1,
                                   !.context = context, !.tools = tools]]

(* execute_request: admission *)

RejectCapability(r) ==
    /\ phase[r] = "new" /\ r \in Unsupported
    /\ emit_terminal(r, Caller!Failed("UnsupportedCapability"))
    /\ UNCHANGED <<circuit, cancelled, failed, probes>>

RejectCircuitOpen(r) ==
    /\ phase[r] = "new" /\ r \notin Unsupported /\ ~Admitting
    /\ emit_terminal(r, Caller!Failed("CircuitOpen"))
    /\ UNCHANGED <<circuit, cancelled, failed, probes>>

Admit(r) ==
    /\ phase[r] = "new" /\ r \notin Unsupported /\ Admitting
    /\ circuit' = allow_request(circuit)
    /\ probes' = IF HalfOpen THEN probes \cup {r} ELSE probes
    /\ StartAttempt(r, 0, r \in WithTools)
    /\ UNCHANGED <<cancelled, sink, failed>>

(* receive_attempt_events: the provider's stream.  A tool call's start and *)
(* its deltas change nothing but the deadline.  Output is taken once per   *)
(* attempt and a tool call once: more of them leave the same progress.     *)

TextDelta(r) ==
    LET token == call[r].context + call[r].text + 1
    IN  /\ phase[r] = "streaming"
        /\ token <= Answer[r]
        /\ call' = [call EXCEPT ![r].text = @ + 1,
                                        ![r].emitted_output = TRUE]
        /\ send_event(r, Caller!Text(token))
        /\ UNCHANGED <<circuit, phase, cancelled, failed, probes>>

OutputEvent(r) ==
    /\ phase[r] = "streaming" /\ ~call[r].emitted_output
    /\ Answer[r] > 0
    /\ call' = [call EXCEPT ![r].emitted_output = TRUE]
    /\ send_event(r, Caller!Output)
    /\ UNCHANGED <<circuit, phase, cancelled, failed, probes>>

ToolCallCompleted(r) ==
    /\ phase[r] = "streaming" /\ ~call[r].requested_tools
    /\ call[r].tools
    /\ call' = [call EXCEPT ![r].requested_tools = TRUE,
                                    ![r].emitted_output = TRUE]
    /\ send_event(r, Caller!ToolCall)
    /\ UNCHANGED <<circuit, phase, cancelled, failed, probes>>

\* The stream is over: the receiver is dropped and the client task awaited.
Exit(r, how) ==
    /\ phase[r] = "streaming"
    /\ phase' = [phase EXCEPT ![r] = "finishing"]
    /\ call' = [call EXCEPT ![r].outcome = how]
    /\ UNCHANGED <<circuit, cancelled, sink, failed, probes>>

\* A Completed event, or a stream that closed with an Ok result.
StreamCompleted(r) ==
    \E stop \in {"end_turn", "tool_calls"} :
        Exit(r, IF call[r].requested_tools THEN "tool_use" ELSE stop)

\* An Error event, or a stream that closed with an error or a panic.
StreamFailed(r) == \E error \in Transient \cup {"Rejected"} : Exit(r, error)

StreamCancelled(r) == cancelled[r] /\ Exit(r, "Cancelled")

StreamTimedOut(r) == Exit(r, "Timeout")

(* execute_attempts: the client has returned, the attempt is classified *)

Counted(r, error) == IF is_retryable(error) THEN failed \cup {r} ELSE failed

\* record_failure, then the terminal event -- after execute_request counted
\* a timeout once more.
FailWith(r, error) ==
    /\ circuit' = record_failure(circuit, error)
    /\ failed' = Counted(r, error)
    /\ IF error = "Timeout"
       THEN /\ phase' = [phase EXCEPT ![r] = "timed_out"]
            /\ call' = [call EXCEPT ![r] = NoCall]
            /\ UNCHANGED sink
       ELSE emit_terminal(r, Caller!Failed(error))
    /\ UNCHANGED <<cancelled, probes>>

SettleCompleted(r) ==
    /\ phase[r] = "finishing" /\ classify_attempt(r) = "Completed"
    /\ circuit' = record_success
    /\ failed' = {}
    /\ emit_terminal(r, Caller!Completed(finish_reason(call[r].outcome)))
    /\ UNCHANGED <<cancelled, probes>>

SettleCancelled(r) ==
    /\ phase[r] = "finishing" /\ classify_attempt(r) = "Cancelled"
    /\ emit_terminal(r, Caller!Failed("Cancelled"))
    /\ UNCHANGED <<circuit, cancelled, failed, probes>>

SettleFailed(r) ==
    /\ phase[r] = "finishing" /\ classify_attempt(r) = "Failed"
    /\ FailWith(r, call[r].outcome)

PrepareRetry(r) ==
    /\ phase[r] = "finishing" /\ classify_attempt(r) = "Retry"
    /\ \E delay \in retry_delay(call[r].attempt, call[r].outcome) :
        \/ delay >= idle_timeout /\ FailWith(r, call[r].outcome)
        \/ /\ delay < idle_timeout
           /\ call' = [call EXCEPT ![r] = Reshaped(@)]
           /\ phase' = [phase EXCEPT ![r] = "backoff"]
           /\ UNCHANGED <<circuit, cancelled, sink, failed, probes>>

WaitElapsed(r) ==
    /\ phase[r] = "backoff"
    /\ StartAttempt(r, call[r].context, call[r].tools)
    /\ UNCHANGED <<circuit, cancelled, sink, failed, probes>>

WaitCancelled(r) ==
    /\ phase[r] = "backoff" /\ cancelled[r]
    /\ emit_terminal(r, Caller!Failed("Cancelled"))
    /\ UNCHANGED <<circuit, cancelled, failed, probes>>

CountTimeout(r) ==
    /\ phase[r] = "timed_out"
    /\ circuit' = record_failure(circuit, "Timeout")
    /\ failed' = Counted(r, "Timeout")
    /\ emit_terminal(r, Caller!Failed("Timeout"))
    /\ UNCHANGED <<cancelled, probes>>

(* The environment: the caller's token and the breaker's clock *)

Cancel(r) ==
    /\ phase[r] # "done" /\ ~cancelled[r]
    /\ cancelled' = [cancelled EXCEPT ![r] = TRUE]
    /\ UNCHANGED <<circuit, phase, call, sink, failed, probes>>

OpenDurationElapses ==
    /\ circuit.open_until = "cooling"
    /\ circuit' = [circuit EXCEPT !.open_until = "elapsed"]
    /\ UNCHANGED <<phase, call, cancelled, sink, failed, probes>>

StreamEnds(r) ==
    \/ StreamCompleted(r)
    \/ StreamFailed(r)
    \/ StreamCancelled(r)
    \/ StreamTimedOut(r)

Settle(r) ==
    \/ SettleCompleted(r)
    \/ SettleCancelled(r)
    \/ SettleFailed(r)
    \/ PrepareRetry(r)

Wait(r) == WaitElapsed(r) \/ WaitCancelled(r)

Next ==
    \/ \E r \in Requests :
        \/ RejectCapability(r)
        \/ RejectCircuitOpen(r)
        \/ Admit(r)
        \/ TextDelta(r)
        \/ OutputEvent(r)
        \/ ToolCallCompleted(r)
        \/ StreamEnds(r)
        \/ Settle(r)
        \/ Wait(r)
        \/ CountTimeout(r)
        \/ Cancel(r)
    \/ OpenDurationElapses

Spec == Init /\ [][Next]_vars

\* An attempt's deadline fires when its stream falls silent, a client returns
\* once its token is cancelled or its stream is over, and a timer fires.
\* Nothing is assumed of the host: it need neither start nor cancel anything.
Fairness ==
    \A r \in Requests :
        /\ WF_vars(StreamEnds(r))
        /\ WF_vars(Settle(r))
        /\ WF_vars(Wait(r))
        /\ WF_vars(CountTimeout(r))

FairSpec == Spec /\ Fairness

-----------------------------------------------------------------------------
(* Properties *)

\* Every variable keeps its type.
TypeOK ==
    /\ circuit \in [consecutive_failures : Nat,
                    open_until : {"none", "cooling", "elapsed"},
                    half_open_probe_in_flight : BOOLEAN]
    /\ phase \in [Requests -> Phases]
    /\ call \in [Requests -> Locals]
    /\ cancelled \in [Requests -> BOOLEAN]
    /\ sink \in [Requests -> Seq(Events)]
    /\ failed \subseteq Requests
    /\ probes \subseteq Requests

\* However its attempts were retried and continued, a request keeps the
\* contract of ExecutionBackend::execute towards its caller: it implements
\* the abstract specification, liveness included.
KeepsTheContract == Caller!Spec

\* The breaker is open only after transient failures of as many different
\* requests as the threshold asks for, less those a timeout counted twice: a
\* success in between always starts the count afresh, and a failure that is
\* not transient never opens it.
OpenIsEarned ==
    circuit.open_until # "none" => 2 * Cardinality(failed) >= circuit_failure_threshold

\* The half-open slot is taken only on behalf of a probe that is still under
\* way, or that its caller cancelled: no success, failure, give-up or timeout
\* of a probe leaves the slot taken, which would refuse every later request.
ProbeSlotHasAnOwner ==
    circuit.half_open_probe_in_flight =>
        \E r \in probes :
            phase[r] = "done" => sink[r][Len(sink[r])] = Caller!Failed("Cancelled")

\* What RecoveryPolicy says of an open circuit ("How long an open circuit fails
\* fast before one probe is allowed"): once it has, and no request is under
\* way, the next one is let through.
OneProbeIsAllowed ==
    (HalfOpen /\ \A r \in Requests : phase[r] \in {"new", "done"}) => Admitting
=============================================================================

---------------------------- MODULE BackendProofs ----------------------------
(***************************************************************************)
(* Theorems about ModelBackend, for every number of requests, length of    *)
(* the answers and recovery policy: the circuit breaker's two invariants,  *)
(* and that every step is a step of ExecutionContract.                     *)
(***************************************************************************)
EXTENDS ModelBackend, FiniteSetTheorems, TLAPS

(***************************************************************************)
(* The inductive invariant.                                                *)
(***************************************************************************)
\* A request is counted at most twice, and a second time only by the timeout
\* that is still to be told; the breaker opens on the count alone.
CircuitInv ==
    /\ IsFiniteSet(failed) /\ \A r \in failed : phase[r] \in {"timed_out", "done"}
    /\ circuit.open_until # "none" => circuit.consecutive_failures >= circuit_failure_threshold
    /\ circuit.consecutive_failures + Cardinality({r \in failed : phase[r] = "timed_out"})
         <= 2 * Cardinality(failed)

ProbeInv == (\A r \in probes : phase[r] # "new") /\ ProbeSlotHasAnOwner

\* What the caller of a request in phase ph was sent agrees with the locals c
\* of its attempts.
Consistent(ph, c, s) ==
    /\ ph = "new" => s = <<>> /\ c = NoCall
    /\ ph \in {"streaming", "finishing", "backoff"} =>
         /\ Caller!Answered(s) = c.context + c.text
         /\ Caller!Called(s) = c.requested_tools
         /\ c.requested_tools => c.emitted_output
    /\ ph = "finishing" =>
         /\ c.outcome # Pending
         /\ c.requested_tools /\ c.outcome \in StopReasons => c.outcome = "tool_use"
    /\ ph = "backoff" => c.attempt < max_attempts /\ c.text = 0 /\ c.requested_tools = FALSE

ContractInv == \A r \in Requests : Consistent(phase[r], call[r], sink[r])

BackendInv == TypeOK /\ CircuitInv /\ ProbeInv /\ ContractInv

-----------------------------------------------------------------------------
(***************************************************************************)
(* What the caller was sent.                                               *)
(***************************************************************************)
LEMMA EventKinds ==
    /\ \A n \in Nat : Caller!Text(n) \in Events /\ Caller!IsText(Caller!Text(n)) /\ ~Caller!IsCall(Caller!Text(n))
    /\ Caller!Output \in Events /\ ~Caller!IsText(Caller!Output) /\ ~Caller!IsCall(Caller!Output)
    /\ Caller!ToolCall \in Events /\ ~Caller!IsText(Caller!ToolCall) /\ Caller!IsCall(Caller!ToolCall)
    /\ \A e \in Errors : Caller!Failed(e) \in Events
    /\ \A w \in StopReasons : Caller!Completed(w) \in Events
BY DEF Events, Caller!Text, Caller!Output, Caller!ToolCall, Caller!Failed, Caller!Completed,
       Caller!IsText, Caller!IsCall

LEMMA CallerCounts ==
    \A events : Caller!Answered(events) = Cardinality({i \in DOMAIN events : Caller!IsText(events[i])})
<1>1. \A S : Caller!Cardinality(S) = Cardinality(S)
  BY DEF Cardinality, Caller!Cardinality
<1> QED BY <1>1 DEF Caller!Answered

LEMMA SentOne ==
    ASSUME NEW s \in Seq(Events), NEW e \in Events
    PROVE  /\ Append(s, e) \in Seq(Events) /\ Append(s, e)[Len(Append(s, e))] = e
           /\ Caller!Called(Append(s, e)) <=> Caller!Called(s) \/ Caller!IsCall(e)
           /\ Caller!IsText(e) => Caller!Answered(Append(s, e)) = Caller!Answered(s) + 1
           /\ ~Caller!IsText(e) => Caller!Answered(Append(s, e)) = Caller!Answered(s)
<1> DEFINE t == Append(s, e)
           n == Len(s)
           S == {i \in DOMAIN s : Caller!IsText(s[i])}
           T == {i \in DOMAIN t : Caller!IsText(t[i])}
<1>1. /\ t \in Seq(Events) /\ n \in Nat /\ DOMAIN s = 1..n /\ DOMAIN t = 1..(n + 1) /\ Len(t) = n + 1
      /\ t[n + 1] = e /\ \A i \in 1..n : t[i] = s[i]
  OBVIOUS
<1>2. IsFiniteSet(S)
  <2>1. IsFiniteSet(1..n)
    BY <1>1, FS_Interval
  <2> QED BY <1>1, <2>1, FS_Subset
<1>3. \A i \in DOMAIN t : i = n + 1 \/ i \in 1..n
  BY <1>1
<1> HIDE DEF t
<1>4. Caller!Called(t) <=> Caller!Called(s) \/ Caller!IsCall(e)
  <2>1. n + 1 \in DOMAIN t /\ \A i \in 1..n : i \in DOMAIN t
    BY <1>1
  <2>2. Caller!Called(t) <=> \E i \in DOMAIN t : Caller!IsCall(t[i])
    BY DEF Caller!Called
  <2>3. Caller!Called(s) <=> \E i \in DOMAIN s : Caller!IsCall(s[i])
    BY DEF Caller!Called
  <2> QED BY <1>1, <1>3, <2>1, <2>2, <2>3
<1>5. Caller!Answered(s) = Cardinality(S) /\ Caller!Answered(t) = Cardinality(T)
  BY CallerCounts
<1>6. ASSUME Caller!IsText(e) PROVE Caller!Answered(t) = Caller!Answered(s) + 1
  <2>1. T = S \cup {n + 1} /\ n + 1 \notin S
    BY <1>1, <1>3, <1>6
  <2> HIDE DEF S, T
  <2>2. Cardinality(T) = Cardinality(S) + 1
    BY <1>2, <2>1, FS_AddElement
  <2> QED BY <1>5, <2>2
<1>7. ASSUME ~Caller!IsText(e) PROVE Caller!Answered(t) = Caller!Answered(s)
  <2>1. T = S
    BY <1>1, <1>3, <1>7
  <2> HIDE DEF S, T
  <2> QED BY <1>5, <2>1
<1> QED BY <1>1, <1>4, <1>6, <1>7 DEF t

LEMMA NothingSent ==
    /\ Caller!Answered(<<>>) = 0 /\ Caller!Called(<<>>) = FALSE
<1>1. {i \in DOMAIN <<>> : Caller!IsText(<<>>[i])} = {}
  OBVIOUS
<1>2. Cardinality({}) = 0
  BY FS_EmptySet
<1> QED BY <1>1, <1>2, CallerCounts DEF Caller!Called

-----------------------------------------------------------------------------
(***************************************************************************)
(* One request moves at a time.                                            *)
(***************************************************************************)
Moves(r, ph, c, s) ==
    /\ phase' = [phase EXCEPT ![r] = ph]
    /\ call' = [call EXCEPT ![r] = c]
    /\ sink' = [sink EXCEPT ![r] = s]

LEMMA MoveTyped ==
    ASSUME TypeOK, NEW r \in Requests, NEW ph \in Phases, NEW c \in Locals, NEW s \in Seq(Events),
           Moves(r, ph, c, s)
    PROVE  /\ phase' \in [Requests -> Phases] /\ call' \in [Requests -> Locals]
           /\ sink' \in [Requests -> Seq(Events)]
           /\ phase'[r] = ph /\ call'[r] = c /\ sink'[r] = s
           /\ \A q \in Requests : q # r => phase'[q] = phase[q] /\ call'[q] = call[q] /\ sink'[q] = sink[q]
BY DEF TypeOK, Moves

LEMMA MoveConsistent ==
    ASSUME BackendInv, NEW r \in Requests, NEW ph \in Phases, NEW c \in Locals, NEW s \in Seq(Events),
           Moves(r, ph, c, s), Consistent(ph, c, s)
    PROVE  ContractInv'
<1>1. TypeOK /\ ContractInv
  BY DEF BackendInv
<1>2. ASSUME NEW q \in Requests PROVE Consistent(phase'[q], call'[q], sink'[q])
  <2>1. q # r => phase'[q] = phase[q] /\ call'[q] = call[q] /\ sink'[q] = sink[q]
    BY <1>1, MoveTyped
  <2>2. phase'[r] = ph /\ call'[r] = c /\ sink'[r] = s
    BY <1>1, MoveTyped
  <2>3. Consistent(phase[q], call[q], sink[q])
    BY <1>1 DEF ContractInv
  <2> QED BY <2>1, <2>2, <2>3
<1>3. ContractInv' <=> \A q \in Requests : Consistent(phase'[q], call'[q], sink'[q])
  BY DEF ContractInv, Consistent, NoCall, Caller!Answered, Caller!Called, Caller!IsText, Caller!IsCall
<1> QED BY <1>2, <1>3

\* The breaker's invariant survives the moves of a request that is not counted.
LEMMA MoveUncounted ==
    ASSUME BackendInv, NEW r \in Requests, r \notin failed, phase' \in [Requests -> Phases],
           \A q \in Requests : q # r => phase'[q] = phase[q],
           failed' = failed, circuit'.consecutive_failures = circuit.consecutive_failures,
           circuit'.open_until # "none" => circuit.open_until # "none"
    PROVE  CircuitInv'
<1>1. failed \subseteq Requests
  BY DEF BackendInv, TypeOK
<1>2. {q \in failed : phase'[q] = "timed_out"} = {q \in failed : phase[q] = "timed_out"}
  BY <1>1
<1>3. \A q \in failed : phase'[q] \in {"timed_out", "done"}
  BY <1>1 DEF BackendInv, CircuitInv
<1> DEFINE T == {q \in failed : phase[q] = "timed_out"}
<1>4. {q \in failed' : phase'[q] = "timed_out"} = T
  BY <1>2
<1>5. /\ IsFiniteSet(failed) /\ circuit.consecutive_failures + Cardinality(T) <= 2 * Cardinality(failed)
      /\ circuit.open_until # "none" => circuit.consecutive_failures >= circuit_failure_threshold
  BY DEF BackendInv, CircuitInv
<1> HIDE DEF T
<1> QED BY <1>3, <1>4, <1>5 DEF CircuitInv

\* A request under way is not counted yet.
LEMMA NotCounted ==
    ASSUME BackendInv, NEW r \in Requests, phase[r] \notin {"timed_out", "done"}
    PROVE  r \notin failed
BY DEF BackendInv, CircuitInv

\* The probe slot's owner survives the moves that leave the slot as it was and
\* end no probe but by its cancellation.
LEMMA MoveProbe ==
    ASSUME BackendInv, NEW r \in Requests, phase' \in [Requests -> Phases], probes' = probes,
           \A q \in Requests : q # r => phase'[q] = phase[q] /\ sink'[q] = sink[q],
           phase'[r] # "new", phase[r] # "done",
           circuit'.half_open_probe_in_flight =>
             /\ circuit.half_open_probe_in_flight
             /\ \/ phase[r] = "new" \/ phase'[r] # "done"
                \/ sink'[r][Len(sink'[r])] = Caller!Failed("Cancelled")
    PROVE  ProbeInv'
<1>1. probes \subseteq Requests /\ \A q \in probes : phase[q] # "new"
  BY DEF BackendInv, TypeOK, ProbeInv
<1>2. \A q \in probes' : phase'[q] # "new"
  BY <1>1
<1> DEFINE X == Caller!Failed("Cancelled")
<1>3. ASSUME circuit'.half_open_probe_in_flight
      PROVE  \E q \in probes : phase'[q] = "done" => sink'[q][Len(sink'[q])] = X
  <2>1. PICK q \in probes : phase[q] = "done" => sink[q][Len(sink[q])] = X
    BY <1>3 DEF BackendInv, ProbeInv, ProbeSlotHasAnOwner
  <2> HIDE DEF X
  <2>2. phase'[q] = "done" => sink'[q][Len(sink'[q])] = X
    <3>1. CASE q # r
      BY <1>1, <2>1, <3>1
    <3>2. CASE q = r
      BY <1>1, <1>3, <3>2 DEF X
    <3> QED BY <3>1, <3>2
  <2> QED BY <2>2
<1>4. ProbeSlotHasAnOwner'
  BY <1>3 DEF ProbeSlotHasAnOwner, Caller!Failed
<1> QED BY <1>2, <1>4 DEF ProbeInv

-----------------------------------------------------------------------------
(***************************************************************************)
(* The contract's side of a move.                                          *)
(***************************************************************************)
StageOf(ph) == CASE ph = "new" -> "idle" [] ph = "done" -> "ended" [] OTHER -> "running"

CallerStage == [r \in Requests |-> StageOf(phase[r])]

LEMMA StageMoves ==
    ASSUME TypeOK, NEW r \in Requests, NEW ph \in Phases, phase' = [phase EXCEPT ![r] = ph]
    PROVE  /\ CallerStage' = [CallerStage EXCEPT ![r] = StageOf(ph)]
           /\ CallerStage[r] = StageOf(phase[r])
BY DEF TypeOK, CallerStage, StageOf

LEMMA StageSame ==
    ASSUME TypeOK, NEW r \in Requests, NEW ph \in Phases, phase' = [phase EXCEPT ![r] = ph],
           StageOf(ph) = StageOf(phase[r])
    PROVE  CallerStage' = CallerStage
<1>1. CallerStage' = [CallerStage EXCEPT ![r] = CallerStage[r]]
  BY StageMoves
<1> QED BY <1>1 DEF CallerStage

LEMMA CallerVars == Caller!vars = <<CallerStage, sink>>
BY DEF Caller!vars, CallerStage, StageOf

LEMMA CallerActions ==
    ASSUME NEW r \in Requests
    PROVE  /\ Caller!Begin(r) <=> /\ CallerStage[r] = "idle"
                                  /\ CallerStage' = [CallerStage EXCEPT ![r] = "running"] /\ sink' = sink
           /\ \A e : Caller!Deliver(r, e) <=>
                 /\ CallerStage[r] = "running" /\ sink' = [sink EXCEPT ![r] = Append(sink[r], e)]
                 /\ CallerStage' = CallerStage
           /\ Caller!End(r) <=>
                 /\ CallerStage[r] \in {"idle", "running"}
                 /\ \E e \in Caller!Result(r) : sink' = [sink EXCEPT ![r] = Append(sink[r], e)]
                 /\ CallerStage' = [CallerStage EXCEPT ![r] = "ended"]
BY Zenon DEF Caller!Begin, Caller!Deliver, Caller!End, CallerStage, StageOf

CallerStep == [Caller!Next]_(Caller!vars)

LEMMA CallerStutters ==
    ASSUME CallerStage' = CallerStage, sink' = sink
    PROVE  CallerStep
<1>1. Caller!vars' = Caller!vars
  BY Zenon DEF Caller!vars, CallerStage, StageOf
<1> QED BY <1>1 DEF CallerStep

LEMMA CallerMoves ==
    ASSUME NEW r \in Requests,
           \/ Caller!Begin(r) \/ Caller!DeliverText(r) \/ Caller!DeliverOutput(r) \/ Caller!DeliverCall(r)
           \/ Caller!End(r)
    PROVE  CallerStep
BY DEF CallerStep, Caller!Next

-----------------------------------------------------------------------------
(***************************************************************************)
(* The kinds of moves.                                                     *)
(***************************************************************************)
LEMMA NoCallTyped == NoCall \in Locals
BY PolicyAssumption DEF NoCall, Locals

CircuitTyped(c) == c \in [consecutive_failures : Nat, open_until : {"none", "cooling", "elapsed"},
                          half_open_probe_in_flight : BOOLEAN]

\* emit_terminal
LEMMA TerminalMove ==
    ASSUME BackendInv, NEW r \in Requests, phase[r] # "done", NEW event \in Events,
           event \in Caller!Result(r), emit_terminal(r, event)
    PROVE  /\ phase' \in [Requests -> Phases] /\ call' \in [Requests -> Locals]
           /\ sink' \in [Requests -> Seq(Events)] /\ ContractInv' /\ CallerStep
           /\ phase'[r] = "done" /\ sink'[r][Len(sink'[r])] = event
           /\ \A q \in Requests : q # r => phase'[q] = phase[q] /\ sink'[q] = sink[q]
<1> DEFINE s == Append(sink[r], event)
<1>1. TypeOK /\ "done" \in Phases /\ sink[r] \in Seq(Events) /\ phase[r] \in Phases
  BY DEF BackendInv, TypeOK, Phases
<1>2. s \in Seq(Events) /\ s[Len(s)] = event
  BY <1>1, SentOne
<1>3. Moves(r, "done", NoCall, s)
  BY DEF emit_terminal, send_event, Moves
<1>4. sink' = [sink EXCEPT ![r] = s] /\ phase' = [phase EXCEPT ![r] = "done"]
  BY <1>3 DEF Moves
<1>5. Caller!End(r)
  <2>1. CallerStage[r] \in {"idle", "running"} /\ CallerStage' = [CallerStage EXCEPT ![r] = "ended"]
    BY <1>1, <1>4, StageMoves DEF StageOf
  <2> QED BY <1>4, <2>1, CallerActions
<1> HIDE DEF s
<1>6. Consistent("done", NoCall, s)
  BY DEF Consistent
<1>7. ContractInv'
  BY <1>1, <1>2, <1>3, <1>6, NoCallTyped, MoveConsistent
<1> QED BY <1>1, <1>2, <1>3, <1>5, <1>7, NoCallTyped, MoveTyped, CallerMoves

\* A request that failed always may say so.
LEMMA FailureIsAResult ==
    ASSUME NEW r \in Requests, NEW e \in Errors
    PROVE  Caller!Failed(e) \in Caller!Result(r) /\ Caller!Failed(e) \in Events
BY EventKinds DEF Caller!Result

\* A move that the caller does not see.
LEMMA InnerMove ==
    ASSUME BackendInv, NEW r \in Requests, phase[r] \notin {"new", "done"}, NEW ph \in Phases \ {"new", "done"},
           NEW c \in Locals, phase' = [phase EXCEPT ![r] = ph], call' = [call EXCEPT ![r] = c], sink' = sink,
           Consistent(ph, c, sink[r])
    PROVE  /\ phase' \in [Requests -> Phases] /\ call' \in [Requests -> Locals]
           /\ sink' \in [Requests -> Seq(Events)] /\ ContractInv' /\ CallerStep
           /\ phase'[r] = ph
           /\ \A q \in Requests : q # r => phase'[q] = phase[q] /\ sink'[q] = sink[q]
<1>1. TypeOK /\ sink[r] \in Seq(Events) /\ phase[r] \in Phases /\ sink = [sink EXCEPT ![r] = sink[r]]
  BY DEF BackendInv, TypeOK
<1>2. Moves(r, ph, c, sink[r])
  BY <1>1 DEF Moves
<1>3. CallerStage' = CallerStage
  <2>1. StageOf(ph) = StageOf(phase[r])
    BY <1>1 DEF StageOf
  <2> QED BY <1>1, <2>1, StageSame
<1>4. ContractInv'
  BY <1>1, <1>2, MoveConsistent
<1> QED BY <1>1, <1>2, <1>3, <1>4, MoveTyped, CallerStutters

\* A move that leaves the breaker and the probes alone.
LEMMA QuietMove ==
    ASSUME BackendInv, NEW r \in Requests, UNCHANGED <<circuit, failed, probes>>,
           phase' \in [Requests -> Phases], call' \in [Requests -> Locals],
           sink' \in [Requests -> Seq(Events)], cancelled' \in [Requests -> BOOLEAN], ContractInv',
           \A q \in Requests : q # r => phase'[q] = phase[q] /\ sink'[q] = sink[q],
           phase[r] \notin {"timed_out", "done"}, phase'[r] # "new",
           \/ phase[r] = "new" \/ phase'[r] # "done"
           \/ sink'[r][Len(sink'[r])] = Caller!Failed("Cancelled")
    PROVE  BackendInv'
<1>1. r \notin failed
  BY NotCounted
<1>2. CircuitInv'
  BY <1>1, MoveUncounted
<1>3. ProbeInv'
  BY MoveProbe
<1>4. TypeOK'
  BY DEF BackendInv, TypeOK
<1> QED BY <1>2, <1>3, <1>4 DEF BackendInv

\* A failure: the count grows by one, for a request that was not counted or
\* whose timeout is told.
LEMMA FailureCounted ==
    ASSUME BackendInv, NEW r \in Requests, NEW error \in Errors,
           circuit' = record_failure(circuit, error), failed' = Counted(r, error),
           phase' \in [Requests -> Phases], \A q \in Requests : q # r => phase'[q] = phase[q],
           \/ r \notin failed /\ phase'[r] \in {"timed_out", "done"}
           \/ phase[r] = "timed_out" /\ phase'[r] = "done" /\ error = "Timeout"
    PROVE  /\ CircuitInv' /\ CircuitTyped(circuit') /\ ~circuit'.half_open_probe_in_flight
           /\ failed' \subseteq Requests
<1> DEFINE n == circuit.consecutive_failures
           T == {q \in failed : phase[q] = "timed_out"}
           U == {q \in failed' : phase'[q] = "timed_out"}
<1>1. /\ CircuitTyped(circuit) /\ n \in Nat /\ failed \subseteq Requests /\ IsFiniteSet(failed)
      /\ \A q \in failed : phase[q] \in {"timed_out", "done"}
      /\ circuit.open_until # "none" => n >= circuit_failure_threshold
      /\ n + Cardinality(T) <= 2 * Cardinality(failed)
      /\ circuit_failure_threshold \in Nat
  BY PolicyAssumption DEF BackendInv, TypeOK, CircuitInv, CircuitTyped
<1>2. IsFiniteSet(T) /\ Cardinality(T) \in Nat /\ Cardinality(failed) \in Nat
  BY <1>1, FS_Subset, FS_CardinalityType
<1>3. failed' \subseteq Requests
  BY <1>1 DEF Counted
<1>4. CASE ~is_retryable(error)
  <2>1. circuit' = [circuit EXCEPT !.half_open_probe_in_flight = FALSE] /\ failed' = failed
    BY <1>4 DEF record_failure, Counted
  <2>2. /\ CircuitTyped(circuit') /\ ~circuit'.half_open_probe_in_flight
        /\ circuit'.consecutive_failures = n /\ circuit'.open_until = circuit.open_until
    BY <1>1, <2>1 DEF CircuitTyped
  <2>3. r \notin failed
    BY <1>4 DEF is_retryable, Transient
  <2>4. CircuitInv'
    BY <2>1, <2>2, <2>3, MoveUncounted
  <2> QED BY <1>3, <2>2, <2>4
<1>5. CASE is_retryable(error)
  <2>1. failed' = failed \cup {r}
        /\ circuit' = [consecutive_failures |-> n + 1,
                       open_until |-> IF n + 1 >= circuit_failure_threshold THEN "cooling" ELSE circuit.open_until,
                       half_open_probe_in_flight |-> FALSE]
    BY <1>5 DEF record_failure, Counted
  <2>2. /\ CircuitTyped(circuit') /\ ~circuit'.half_open_probe_in_flight
        /\ circuit'.consecutive_failures = n + 1
        /\ circuit'.open_until # "none" => n + 1 >= circuit_failure_threshold
    BY <1>1, <2>1 DEF CircuitTyped
  <2>3. IsFiniteSet(failed')
    BY <1>1, <2>1, FS_AddElement
  <2>4. \A q \in failed' : phase'[q] \in {"timed_out", "done"}
    BY <1>1, <2>1
  <2>5. (n + 1) + Cardinality(U) <= 2 * Cardinality(failed')
    <3>1. CASE r \notin failed
      <4>1. Cardinality(failed') = Cardinality(failed) + 1
        BY <1>1, <2>1, <3>1, FS_AddElement, ZenonT(60)
      <4>2. U = T \/ (U = T \cup {r} /\ r \notin T)
        BY <1>1, <2>1, <3>1
      <4> HIDE DEF T, U
      <4>3. Cardinality(U) <= Cardinality(T) + 1
        <5>1. r \notin T => Cardinality(T \cup {r}) = Cardinality(T) + 1
          BY <1>2, FS_AddElement
        <5> QED BY <1>2, <4>2, <5>1
      <4>4. Cardinality(U) \in Nat
        <5>1. r \notin T => Cardinality(T \cup {r}) = Cardinality(T) + 1
          BY <1>2, FS_AddElement
        <5> QED BY <1>2, <4>2, <5>1
      <4> HIDE DEF n
      <4> QED BY <1>1, <1>2, <4>1, <4>3, <4>4 DEF n
    <3>2. CASE r \in failed
      <4>1. failed' = failed /\ phase[r] = "timed_out" /\ phase'[r] = "done"
        BY <2>1, <3>2
      <4>2. U = T \ {r} /\ r \in T
        BY <1>1, <3>2, <4>1
      <4> HIDE DEF T, U
      <4>3. Cardinality(U) = Cardinality(T) - 1
        BY <1>2, <4>2, FS_RemoveElement
      <4> QED BY <1>1, <1>2, <4>1, <4>3
    <3> QED BY <3>1, <3>2
  <2> HIDE DEF U, n
  <2>6. CircuitInv'
    BY <2>2, <2>3, <2>4, <2>5 DEF CircuitInv, U
  <2> QED BY <1>3, <2>2, <2>6
<1> QED BY <1>4, <1>5

-----------------------------------------------------------------------------
(***************************************************************************)
(* The actions.                                                            *)
(***************************************************************************)
LEMMA LocalFields ==
    ASSUME BackendInv, NEW r \in Requests
    PROVE  /\ call[r] \in Locals /\ call[r].attempt \in 0..max_attempts /\ call[r].text \in Nat
           /\ call[r].context \in Nat /\ call[r].tools \in BOOLEAN /\ call[r].requested_tools \in BOOLEAN
           /\ call[r].outcome \in StopReasons \cup Errors \cup {Pending}
           /\ sink[r] \in Seq(Events) /\ phase[r] \in Phases
           /\ Consistent(phase[r], call[r], sink[r])
<1>1. call[r] \in Locals /\ sink[r] \in Seq(Events) /\ phase[r] \in Phases
      /\ Consistent(phase[r], call[r], sink[r])
  BY DEF BackendInv, TypeOK, ContractInv
<1> QED BY <1>1 DEF Locals

\* run_attempt's fresh progress
Fresh(m, n, b) == [NoCall EXCEPT !.attempt = m, !.context = n, !.tools = b]

LEMMA FreshLocals ==
    \A m \in 0..max_attempts, n \in Nat, b \in BOOLEAN :
        /\ Fresh(m, n, b) \in Locals /\ Fresh(m, n, b).attempt = m /\ Fresh(m, n, b).context = n
        /\ Fresh(m, n, b).text = 0 /\ Fresh(m, n, b).requested_tools = FALSE
        /\ Fresh(m, n, b).outcome = Pending
BY ZenonT(60) DEF Fresh, NoCall, Locals

LEMMA RejectKeeps ==
    ASSUME BackendInv, NEW r \in Requests, RejectCapability(r) \/ RejectCircuitOpen(r)
    PROVE  BackendInv' /\ CallerStep
<1>1. PICK e \in {"UnsupportedCapability", "CircuitOpen"} : emit_terminal(r, Caller!Failed(e))
  BY DEF RejectCapability, RejectCircuitOpen
<1>2. phase[r] = "new" /\ UNCHANGED <<circuit, cancelled, failed, probes>>
  BY DEF RejectCapability, RejectCircuitOpen
<1> DEFINE event == Caller!Failed(e)
<1>3. event \in Caller!Result(r) /\ event \in Events
  BY FailureIsAResult DEF Errors
<1> HIDE DEF event
<1>4. /\ phase' \in [Requests -> Phases] /\ call' \in [Requests -> Locals]
      /\ sink' \in [Requests -> Seq(Events)] /\ ContractInv' /\ CallerStep
      /\ phase'[r] = "done"
      /\ \A q \in Requests : q # r => phase'[q] = phase[q] /\ sink'[q] = sink[q]
  BY <1>1, <1>2, <1>3, TerminalMove DEF event
<1>5. cancelled' \in [Requests -> BOOLEAN]
  BY <1>2 DEF BackendInv, TypeOK
<1>6. BackendInv'
  BY <1>2, <1>4, <1>5, QuietMove
<1> QED BY <1>4, <1>6

LEMMA AdmitKeeps ==
    ASSUME BackendInv, NEW r \in Requests, Admit(r)
    PROVE  BackendInv' /\ CallerStep
<1> DEFINE c == [NoCall EXCEPT !.attempt = call[r].attempt + 1, !.context = 0, !.tools = r \in WithTools]
<1>1. /\ phase[r] = "new" /\ Admitting /\ circuit' = allow_request(circuit)
      /\ probes' = IF HalfOpen THEN probes \cup {r} ELSE probes
      /\ phase' = [phase EXCEPT ![r] = "streaming"] /\ call' = [call EXCEPT ![r] = c]
      /\ UNCHANGED <<cancelled, sink, failed>>
  BY DEF Admit, StartAttempt
<1>2. TypeOK /\ sink[r] = <<>> /\ call[r] = NoCall
  BY <1>1, LocalFields DEF BackendInv, Consistent
<1>3. /\ c \in Locals /\ c.context = 0 /\ c.text = 0 /\ c.requested_tools = FALSE
  <2> DEFINE b == r \in WithTools
             m == call[r].attempt + 1
             n == 0
  <2>1. b \in BOOLEAN /\ m \in 0..max_attempts /\ n \in Nat
    BY <1>2, PolicyAssumption DEF NoCall
  <2>2. c = Fresh(m, n, b)
    BY DEF Fresh
  <2> HIDE DEF b, c, m, n
  <2>3. /\ c \in Locals /\ c.context = n /\ c.text = 0 /\ c.requested_tools = FALSE
    BY <2>1, <2>2, FreshLocals, ZenonT(40)
  <2> QED BY <2>3 DEF n
<1> HIDE DEF c
<1>4. Consistent("streaming", c, <<>>)
  <2>1. Caller!Answered(<<>>) = c.context + c.text /\ Caller!Called(<<>>) = c.requested_tools
    <3>1. c.context + c.text = 0
      BY <1>3
    <3> QED BY <1>3, <3>1, NothingSent, Zenon
  <2> QED BY <1>3, <2>1, Zenon DEF Consistent
<1>5. Moves(r, "streaming", c, <<>>) /\ "streaming" \in Phases /\ <<>> \in Seq(Events)
  BY <1>1, <1>2 DEF Moves, TypeOK, Phases
<1>6. /\ phase' \in [Requests -> Phases] /\ call' \in [Requests -> Locals] /\ ContractInv'
      /\ sink' \in [Requests -> Seq(Events)] /\ phase'[r] = "streaming"
      /\ \A q \in Requests : q # r => phase'[q] = phase[q]
  BY <1>2, <1>3, <1>4, <1>5, MoveTyped, MoveConsistent
<1>7. /\ CircuitTyped(circuit') /\ circuit'.consecutive_failures = circuit.consecutive_failures
      /\ circuit'.open_until = circuit.open_until
      /\ circuit'.half_open_probe_in_flight => HalfOpen
  BY <1>1, <1>2 DEF TypeOK, CircuitTyped, allow_request, Admitting, HalfOpen
<1>8. CircuitInv'
  BY <1>1, <1>6, <1>7, NotCounted, MoveUncounted
<1>9. ProbeInv'
  <2>1. \A q \in probes' : phase'[q] # "new"
    BY <1>1, <1>2, <1>6 DEF BackendInv, ProbeInv, TypeOK
  <2>2. circuit'.half_open_probe_in_flight => r \in probes'
    BY <1>1, <1>7
  <2>3. ProbeSlotHasAnOwner'
    BY <1>6, <2>2 DEF ProbeSlotHasAnOwner
  <2> QED BY <2>1, <2>3 DEF ProbeInv
<1>10. TypeOK'
  BY <1>1, <1>2, <1>6, <1>7 DEF TypeOK, CircuitTyped
<1>11. Caller!Begin(r)
  <2>1. CallerStage[r] = "idle" /\ CallerStage' = [CallerStage EXCEPT ![r] = "running"]
    BY <1>1, <1>2, <1>5, StageMoves DEF StageOf
  <2> QED BY <1>1, <2>1, CallerActions
<1> QED BY <1>6, <1>8, <1>9, <1>10, <1>11, CallerMoves DEF BackendInv

\* The events of a stream
LEMMA StreamedMove ==
    ASSUME BackendInv, NEW r \in Requests, phase[r] = "streaming", NEW event \in Events, NEW c \in Locals,
           call' = [call EXCEPT ![r] = c], send_event(r, event), Consistent("streaming", c, Append(sink[r], event)),
           UNCHANGED <<circuit, phase, cancelled, failed, probes>>
    PROVE  BackendInv' /\ Caller!Deliver(r, event)
<1> DEFINE s == Append(sink[r], event)
<1>1. TypeOK /\ s \in Seq(Events) /\ "streaming" \in Phases
  BY LocalFields, SentOne DEF BackendInv, Phases
<1>2. sink' = [sink EXCEPT ![r] = s] /\ phase' = [phase EXCEPT ![r] = "streaming"]
  BY <1>1 DEF send_event, TypeOK
<1>3. Moves(r, "streaming", c, s)
  BY <1>2 DEF Moves
<1>4. Caller!Deliver(r, event)
  <2>1. CallerStage' = CallerStage /\ CallerStage[r] = "running"
    BY <1>1, <1>2, StageSame, StageMoves DEF StageOf
  <2> QED BY <1>2, <2>1, CallerActions
<1> HIDE DEF s
<1>5. /\ phase' \in [Requests -> Phases] /\ call' \in [Requests -> Locals] /\ ContractInv'
      /\ sink' \in [Requests -> Seq(Events)] /\ phase'[r] = "streaming"
      /\ \A q \in Requests : q # r => phase'[q] = phase[q] /\ sink'[q] = sink[q]
  BY <1>1, <1>3, MoveTyped, MoveConsistent DEF s
<1>6. cancelled' \in [Requests -> BOOLEAN]
  BY <1>1 DEF TypeOK
<1>7. BackendInv'
  BY <1>5, <1>6, QuietMove
<1> QED BY <1>4, <1>7

LEMMA TextDeltaKeeps ==
    ASSUME BackendInv, NEW r \in Requests, TextDelta(r)
    PROVE  BackendInv' /\ CallerStep
<1> DEFINE d == call[r]
           n == d.context + d.text + 1
           event == Caller!Text(n)
           c == [d EXCEPT !.text = d.text + 1, !.emitted_output = TRUE]
<1>1. /\ phase[r] = "streaming" /\ call' = [call EXCEPT ![r] = c] /\ send_event(r, event)
      /\ UNCHANGED <<circuit, phase, cancelled, failed, probes>>
  BY DEF TextDelta
<1>2. /\ d \in Locals /\ d.text \in Nat /\ d.context \in Nat /\ sink[r] \in Seq(Events)
      /\ Consistent("streaming", d, sink[r])
  BY <1>1, LocalFields
<1>3. n \in Nat /\ event \in Events /\ Caller!IsText(event) /\ ~Caller!IsCall(event)
  BY <1>2, EventKinds
<1>4. /\ c \in Locals /\ c.context = d.context /\ c.text = d.text + 1
      /\ c.requested_tools = d.requested_tools /\ c.emitted_output = TRUE
  <2> DEFINE k == d.text + 1
  <2>1. k \in Nat
    BY <1>2
  <2> HIDE DEF k
  <2>2. c = [d EXCEPT !.text = k, !.emitted_output = TRUE]
    BY DEF k
  <2>3. /\ c \in Locals /\ c.context = d.context /\ c.text = k
        /\ c.requested_tools = d.requested_tools /\ c.emitted_output = TRUE
    <3> HIDE DEF c, d
    <3> QED BY <1>2, <2>1, <2>2 DEF Locals
  <2> QED BY <2>3 DEF k
<1>5. Caller!Answered(sink[r]) = d.context + d.text /\ Caller!Called(sink[r]) = d.requested_tools
  BY <1>2 DEF Consistent
<1>6. Caller!DeliverText(r) <=> Caller!Deliver(r, event)
  <2>1. Caller!Answered(sink[r]) + 1 = n
    BY <1>2, <1>5
  <2> QED BY <2>1, Zenon DEF Caller!DeliverText
<1> HIDE DEF event, c, d, n
<1>7. Consistent("streaming", c, Append(sink[r], event))
  <2>1. Caller!Answered(Append(sink[r], event)) = Caller!Answered(sink[r]) + 1
    BY <1>2, <1>3, SentOne
  <2>2. Caller!Called(Append(sink[r], event)) <=> Caller!Called(sink[r])
    BY <1>2, <1>3, SentOne
  <2>3. Caller!Called(Append(sink[r], event)) \in BOOLEAN /\ Caller!Called(sink[r]) \in BOOLEAN
    BY DEF Caller!Called
  <2> QED BY <1>2, <1>4, <1>5, <2>1, <2>2, <2>3 DEF Consistent
<1>8. BackendInv' /\ Caller!Deliver(r, event)
  BY <1>1, <1>3, <1>4, <1>7, StreamedMove
<1> QED BY <1>6, <1>8, CallerMoves

LEMMA OutputEventKeeps ==
    ASSUME BackendInv, NEW r \in Requests, OutputEvent(r)
    PROVE  BackendInv' /\ CallerStep
<1> DEFINE d == call[r]
           event == Caller!Output
           c == [d EXCEPT !.emitted_output = TRUE]
<1>1. /\ phase[r] = "streaming" /\ call' = [call EXCEPT ![r] = c] /\ send_event(r, event)
      /\ UNCHANGED <<circuit, phase, cancelled, failed, probes>>
  BY DEF OutputEvent
<1>2. /\ d \in Locals /\ sink[r] \in Seq(Events) /\ Consistent("streaming", d, sink[r])
  BY <1>1, LocalFields
<1>3. event \in Events /\ ~Caller!IsText(event) /\ ~Caller!IsCall(event)
  BY EventKinds
<1>4. /\ c \in Locals /\ c.context = d.context /\ c.text = d.text
      /\ c.requested_tools = d.requested_tools /\ c.emitted_output = TRUE
  BY <1>2 DEF Locals
<1>5. Caller!DeliverOutput(r) <=> Caller!Deliver(r, event)
  BY Zenon DEF Caller!DeliverOutput
<1> HIDE DEF event, c, d
<1>6. Consistent("streaming", c, Append(sink[r], event))
  <2>1. Caller!Answered(Append(sink[r], event)) = Caller!Answered(sink[r])
    BY <1>2, <1>3, SentOne
  <2>2. Caller!Called(Append(sink[r], event)) <=> Caller!Called(sink[r])
    BY <1>2, <1>3, SentOne
  <2>3. Caller!Called(Append(sink[r], event)) \in BOOLEAN /\ Caller!Called(sink[r]) \in BOOLEAN
    BY DEF Caller!Called
  <2> QED BY <1>2, <1>4, <2>1, <2>2, <2>3 DEF Consistent
<1>7. BackendInv' /\ Caller!Deliver(r, event)
  BY <1>1, <1>3, <1>4, <1>6, StreamedMove
<1> QED BY <1>5, <1>7, CallerMoves

LEMMA ToolCallKeeps ==
    ASSUME BackendInv, NEW r \in Requests, ToolCallCompleted(r)
    PROVE  BackendInv' /\ CallerStep
<1> DEFINE d == call[r]
           event == Caller!ToolCall
           c == [d EXCEPT !.requested_tools = TRUE, !.emitted_output = TRUE]
<1>1. /\ phase[r] = "streaming" /\ call' = [call EXCEPT ![r] = c] /\ send_event(r, event)
      /\ ~d.requested_tools /\ UNCHANGED <<circuit, phase, cancelled, failed, probes>>
  BY DEF ToolCallCompleted
<1>2. /\ d \in Locals /\ sink[r] \in Seq(Events) /\ Consistent("streaming", d, sink[r])
  BY <1>1, LocalFields
<1>3. event \in Events /\ ~Caller!IsText(event) /\ Caller!IsCall(event)
  BY EventKinds
<1>4. /\ c \in Locals /\ c.context = d.context /\ c.text = d.text
      /\ c.requested_tools = TRUE /\ c.emitted_output = TRUE
  BY <1>2 DEF Locals
<1>5. ~Caller!Called(sink[r])
  BY <1>1, <1>2 DEF Consistent
<1>6. Caller!DeliverCall(r) <=> Caller!Deliver(r, event)
  BY <1>5, Zenon DEF Caller!DeliverCall
<1> HIDE DEF event, c, d
<1>7. Consistent("streaming", c, Append(sink[r], event))
  <2>1. Caller!Answered(Append(sink[r], event)) = Caller!Answered(sink[r])
    BY <1>2, <1>3, SentOne
  <2>2. Caller!Called(Append(sink[r], event))
    BY <1>2, <1>3, SentOne
  <2>3. Caller!Called(Append(sink[r], event)) \in BOOLEAN
    BY DEF Caller!Called
  <2> QED BY <1>2, <1>4, <2>1, <2>2, <2>3 DEF Consistent
<1>8. BackendInv' /\ Caller!Deliver(r, event)
  BY <1>1, <1>3, <1>4, <1>7, StreamedMove
<1> QED BY <1>6, <1>8, CallerMoves

\* A move between two phases that the caller does not see, with the breaker
\* left alone.
LEMMA QuietInnerMove ==
    ASSUME BackendInv, NEW r \in Requests, phase[r] \in {"streaming", "finishing", "backoff"},
           NEW ph \in {"streaming", "finishing", "backoff"}, NEW c \in Locals,
           phase' = [phase EXCEPT ![r] = ph], call' = [call EXCEPT ![r] = c],
           UNCHANGED <<circuit, cancelled, sink, failed, probes>>, Consistent(ph, c, sink[r])
    PROVE  BackendInv' /\ CallerStep
<1>1. ph \in Phases \ {"new", "done"} /\ cancelled' \in [Requests -> BOOLEAN]
  BY DEF Phases, BackendInv, TypeOK
<1>2. /\ phase' \in [Requests -> Phases] /\ call' \in [Requests -> Locals]
      /\ sink' \in [Requests -> Seq(Events)] /\ ContractInv' /\ CallerStep
      /\ phase'[r] = ph
      /\ \A q \in Requests : q # r => phase'[q] = phase[q] /\ sink'[q] = sink[q]
  BY <1>1, InnerMove
<1>3. BackendInv'
  BY <1>1, <1>2, QuietMove
<1> QED BY <1>2, <1>3

LEMMA ExitKeeps ==
    ASSUME BackendInv, NEW r \in Requests, NEW how \in StopReasons \cup Errors, Exit(r, how),
           call[r].requested_tools /\ how \in StopReasons => how = "tool_use"
    PROVE  BackendInv' /\ CallerStep
<1> DEFINE d == call[r]
           c == [d EXCEPT !.outcome = how]
<1>1. /\ phase[r] = "streaming" /\ call' = [call EXCEPT ![r] = c] /\ phase' = [phase EXCEPT ![r] = "finishing"]
      /\ UNCHANGED <<circuit, cancelled, sink, failed, probes>>
  BY DEF Exit
<1>2. d \in Locals /\ Consistent("streaming", d, sink[r])
  BY <1>1, LocalFields
<1>3. /\ c \in Locals /\ c.context = d.context /\ c.text = d.text /\ c.requested_tools = d.requested_tools
      /\ c.emitted_output = d.emitted_output /\ c.outcome = how
  <2> HIDE DEF d
  <2> QED BY <1>2 DEF Locals
<1>4. how # Pending
  BY DEF StopReasons, Errors, Transient, Pending
<1> HIDE DEF c
<1>5. Consistent("finishing", c, sink[r])
  BY <1>2, <1>3, <1>4 DEF Consistent
<1> QED BY <1>1, <1>3, <1>5, QuietInnerMove

LEMMA StreamEndsKeeps ==
    ASSUME BackendInv, NEW r \in Requests, StreamEnds(r)
    PROVE  BackendInv' /\ CallerStep
<1>1. CASE StreamCompleted(r)
  <2>1. PICK stop \in {"end_turn", "tool_calls"} : Exit(r, IF call[r].requested_tools THEN "tool_use" ELSE stop)
    BY <1>1 DEF StreamCompleted
  <2> DEFINE how == IF call[r].requested_tools THEN "tool_use" ELSE stop
  <2>2. how \in StopReasons \cup Errors /\ (call[r].requested_tools => how = "tool_use")
    BY DEF StopReasons
  <2> HIDE DEF how
  <2> QED BY <2>1, <2>2, ExitKeeps DEF how
<1>2. ASSUME NEW e \in Errors, Exit(r, e)
      PROVE  BackendInv' /\ CallerStep
  <2>1. e \notin StopReasons
    BY DEF StopReasons, Errors, Transient
  <2> QED BY <1>2, <2>1, ExitKeeps
<1>3. "Cancelled" \in Errors /\ "Timeout" \in Errors /\ Transient \cup {"Rejected"} \subseteq Errors
  BY DEF Errors, Transient
<1> QED BY <1>1, <1>2, <1>3 DEF StreamEnds, StreamFailed, StreamCancelled, StreamTimedOut

LEMMA FailWithKeeps ==
    ASSUME BackendInv, NEW r \in Requests, phase[r] = "finishing", NEW error \in Errors, FailWith(r, error)
    PROVE  BackendInv' /\ CallerStep
<1> DEFINE event == Caller!Failed(error)
<1>1. /\ circuit' = record_failure(circuit, error) /\ failed' = Counted(r, error)
      /\ UNCHANGED <<cancelled, probes>>
  BY DEF FailWith
<1>2. r \notin failed /\ event \in Caller!Result(r) /\ event \in Events
  BY NotCounted, FailureIsAResult
<1>3. /\ phase' \in [Requests -> Phases] /\ call' \in [Requests -> Locals]
      /\ sink' \in [Requests -> Seq(Events)] /\ ContractInv' /\ CallerStep
      /\ phase'[r] \in {"timed_out", "done"}
      /\ \A q \in Requests : q # r => phase'[q] = phase[q] /\ sink'[q] = sink[q]
  <2>1. CASE error = "Timeout"
    <3>1. phase' = [phase EXCEPT ![r] = "timed_out"] /\ call' = [call EXCEPT ![r] = NoCall] /\ sink' = sink
      BY <2>1 DEF FailWith
    <3>2. "timed_out" \in Phases \ {"new", "done"} /\ Consistent("timed_out", NoCall, sink[r])
      BY DEF Phases, Consistent
    <3>3. /\ phase' \in [Requests -> Phases] /\ call' \in [Requests -> Locals]
          /\ sink' \in [Requests -> Seq(Events)] /\ ContractInv' /\ CallerStep
          /\ phase'[r] = "timed_out"
          /\ \A q \in Requests : q # r => phase'[q] = phase[q] /\ sink'[q] = sink[q]
      BY <3>1, <3>2, NoCallTyped, InnerMove
    <3> QED BY <3>3
  <2>2. CASE error # "Timeout"
    <3>1. emit_terminal(r, event)
      BY <2>2 DEF FailWith
    <3> HIDE DEF event
    <3>2. /\ phase' \in [Requests -> Phases] /\ call' \in [Requests -> Locals]
          /\ sink' \in [Requests -> Seq(Events)] /\ ContractInv' /\ CallerStep
          /\ phase'[r] = "done"
          /\ \A q \in Requests : q # r => phase'[q] = phase[q] /\ sink'[q] = sink[q]
      BY <1>2, <3>1, TerminalMove
    <3> QED BY <3>2
  <2> QED BY <2>1, <2>2
<1>4. /\ CircuitInv' /\ CircuitTyped(circuit') /\ ~circuit'.half_open_probe_in_flight
      /\ failed' \subseteq Requests
  BY <1>1, <1>2, <1>3, FailureCounted
<1>5. ProbeInv'
  BY <1>1, <1>3, <1>4, MoveProbe
<1>6. TypeOK'
  BY <1>1, <1>3, <1>4 DEF BackendInv, TypeOK, CircuitTyped
<1> QED BY <1>3, <1>4, <1>5, <1>6 DEF BackendInv

LEMMA CountTimeoutKeeps ==
    ASSUME BackendInv, NEW r \in Requests, CountTimeout(r)
    PROVE  BackendInv' /\ CallerStep
<1> DEFINE event == Caller!Failed("Timeout")
<1>1. /\ phase[r] = "timed_out" /\ circuit' = record_failure(circuit, "Timeout")
      /\ failed' = Counted(r, "Timeout") /\ emit_terminal(r, event) /\ UNCHANGED <<cancelled, probes>>
  BY DEF CountTimeout
<1>2. "Timeout" \in Errors /\ event \in Caller!Result(r) /\ event \in Events
  BY FailureIsAResult DEF Errors, Transient
<1> HIDE DEF event
<1>3. /\ phase' \in [Requests -> Phases] /\ call' \in [Requests -> Locals]
      /\ sink' \in [Requests -> Seq(Events)] /\ ContractInv' /\ CallerStep
      /\ phase'[r] = "done"
      /\ \A q \in Requests : q # r => phase'[q] = phase[q] /\ sink'[q] = sink[q]
  BY <1>1, <1>2, TerminalMove
<1>4. /\ CircuitInv' /\ CircuitTyped(circuit') /\ ~circuit'.half_open_probe_in_flight
      /\ failed' \subseteq Requests
  BY <1>1, <1>2, <1>3, FailureCounted
<1>5. ProbeInv'
  BY <1>1, <1>3, <1>4, MoveProbe
<1>6. TypeOK'
  BY <1>1, <1>3, <1>4 DEF BackendInv, TypeOK, CircuitTyped
<1> QED BY <1>3, <1>4, <1>5, <1>6 DEF BackendInv

LEMMA CompletedKeeps ==
    ASSUME BackendInv, NEW r \in Requests, SettleCompleted(r)
    PROVE  BackendInv' /\ CallerStep
<1> DEFINE why == finish_reason(call[r].outcome)
           event == Caller!Completed(why)
<1>1. /\ phase[r] = "finishing" /\ classify_attempt(r) = "Completed" /\ circuit' = Closed /\ failed' = {}
      /\ emit_terminal(r, event) /\ UNCHANGED <<cancelled, probes>>
  BY DEF SettleCompleted, record_success
<1>2. call[r].outcome \in StopReasons
  BY <1>1 DEF classify_attempt
<1>3. why \in {"tool_use", "end_turn"} /\ (Caller!Called(sink[r]) => why = "tool_use")
  BY <1>1, <1>2, LocalFields DEF Consistent, StopReasons, finish_reason
<1>4. event \in Caller!Result(r) /\ event \in Events
  <2>1. why \in StopReasons
    BY <1>3 DEF StopReasons
  <2>2. event \in Events
    BY <2>1, EventKinds
  <2>3. why \in IF Caller!Called(sink[r]) THEN {"tool_use"} ELSE {"tool_use", "end_turn"}
    BY <1>3
  <2> HIDE DEF why
  <2>4. event \in {Caller!Completed(w) : w \in IF Caller!Called(sink[r]) THEN {"tool_use"}
                                               ELSE {"tool_use", "end_turn"}}
    BY <2>3
  <2> QED BY <2>2, <2>4, Zenon DEF Caller!Result
<1> HIDE DEF event
<1>5. /\ phase' \in [Requests -> Phases] /\ call' \in [Requests -> Locals]
      /\ sink' \in [Requests -> Seq(Events)] /\ ContractInv' /\ CallerStep
      /\ phase'[r] = "done"
      /\ \A q \in Requests : q # r => phase'[q] = phase[q] /\ sink'[q] = sink[q]
  BY <1>1, <1>4, TerminalMove
<1>6. /\ CircuitTyped(circuit') /\ ~circuit'.half_open_probe_in_flight
      /\ circuit'.open_until = "none" /\ circuit'.consecutive_failures = 0
  BY <1>1 DEF CircuitTyped, Closed
<1>7. CircuitInv'
  <2>1. IsFiniteSet({}) /\ Cardinality({}) = 0 /\ {q \in {} : phase'[q] = "timed_out"} = {}
    BY FS_EmptySet
  <2>2. {q \in failed' : phase'[q] = "timed_out"} = {}
    BY <1>1
  <2> QED BY <1>1, <1>6, <2>1, <2>2 DEF CircuitInv
<1>8. ProbeInv'
  BY <1>1, <1>5, <1>6, MoveProbe
<1>9. TypeOK'
  BY <1>1, <1>5, <1>6 DEF BackendInv, TypeOK, CircuitTyped
<1> QED BY <1>5, <1>7, <1>8, <1>9 DEF BackendInv

LEMMA CancelledKeeps ==
    ASSUME BackendInv, NEW r \in Requests, SettleCancelled(r) \/ WaitCancelled(r)
    PROVE  BackendInv' /\ CallerStep
<1> DEFINE event == Caller!Failed("Cancelled")
<1>1. /\ phase[r] \in {"finishing", "backoff"} /\ emit_terminal(r, event)
      /\ UNCHANGED <<circuit, cancelled, failed, probes>>
  BY DEF SettleCancelled, WaitCancelled
<1>2. event \in Caller!Result(r) /\ event \in Events
  BY FailureIsAResult DEF Errors
<1> HIDE DEF event
<1>3. /\ phase' \in [Requests -> Phases] /\ call' \in [Requests -> Locals]
      /\ sink' \in [Requests -> Seq(Events)] /\ ContractInv' /\ CallerStep
      /\ phase'[r] = "done" /\ sink'[r][Len(sink'[r])] = event
      /\ \A q \in Requests : q # r => phase'[q] = phase[q] /\ sink'[q] = sink[q]
  BY <1>1, <1>2, TerminalMove
<1>4. cancelled' \in [Requests -> BOOLEAN]
  BY <1>1 DEF BackendInv, TypeOK
<1>5. BackendInv'
  BY <1>1, <1>3, <1>4, QuietMove DEF event
<1> QED BY <1>3, <1>5

\* What prepare_retry keeps accounts for all that was said.
LEMMA ReshapedLocals ==
    ASSUME BackendInv, NEW r \in Requests, phase[r] = "finishing", classify_attempt(r) = "Retry"
    PROVE  Reshaped(call[r]) \in Locals /\ Consistent("backoff", Reshaped(call[r]), sink[r])
<1> DEFINE d == call[r]
           n == IF d.text = 0 THEN d.context ELSE d.context + d.text
           b == IF d.text = 0 THEN d.tools ELSE FALSE
           m == d.attempt
           c == Reshaped(d)
<1>1. /\ d \in Locals /\ m \in 0..max_attempts /\ d.text \in Nat /\ d.context \in Nat /\ d.tools \in BOOLEAN
      /\ d.requested_tools \in BOOLEAN /\ Consistent("finishing", d, sink[r])
  BY LocalFields
<1>2. n \in Nat /\ b \in BOOLEAN /\ n = d.context + d.text
  <2>1. n \in Nat /\ n = d.context + d.text
    BY <1>1
  <2>2. b = d.tools \/ b = FALSE
    OBVIOUS
  <2>3. b \in BOOLEAN
    <3> HIDE DEF b
    <3> QED BY <1>1, <2>2
  <2> QED BY <2>1, <2>3
<1>3. should_retry(r, d.outcome)
  BY DEF classify_attempt
<1>4. m < max_attempts /\ ~d.requested_tools
  BY <1>1, <1>3 DEF should_retry, Consistent
<1>5. c = Fresh(m, n, b)
  <2> DEFINE q == IF d.text = 0 THEN d ELSE append_interrupted_response(d)
  <2>1. c = [NoCall EXCEPT !.attempt = m, !.context = q.context, !.tools = q.tools]
    BY DEF Reshaped
  <2>2. q.context = n /\ q.tools = b
    <3>1. CASE d.text = 0
      BY <3>1
    <3>2. CASE d.text # 0
      <4>1. q = [d EXCEPT !.context = d.context + d.text, !.tools = FALSE]
        BY <3>2 DEF append_interrupted_response
      <4> HIDE DEF q, d
      <4> QED BY <1>1, <3>2, <4>1 DEF Locals
    <3> QED BY <3>1, <3>2
  <2> HIDE DEF q, n, b, m, c
  <2> QED BY <2>1, <2>2 DEF Fresh
<1>6. Caller!Answered(sink[r]) = d.context + d.text /\ Caller!Called(sink[r]) = d.requested_tools
  BY <1>1 DEF Consistent
<1> HIDE DEF n, b, m, c
<1>7. /\ c \in Locals /\ c.attempt = m /\ c.context = n /\ c.text = 0 /\ c.requested_tools = FALSE
  BY <1>1, <1>2, <1>5, FreshLocals
<1>8. Caller!Answered(sink[r]) = c.context + c.text
  BY <1>1, <1>2, <1>6, <1>7
<1>9. Consistent("backoff", c, sink[r])
  BY <1>1, <1>4, <1>6, <1>7, <1>8 DEF Consistent
<1> QED BY <1>7, <1>9 DEF c

LEMMA PrepareRetryKeeps ==
    ASSUME BackendInv, NEW r \in Requests, PrepareRetry(r)
    PROVE  BackendInv' /\ CallerStep
<1> DEFINE c == Reshaped(call[r])
<1>1. phase[r] = "finishing" /\ classify_attempt(r) = "Retry"
  BY DEF PrepareRetry
<1>2. CASE FailWith(r, call[r].outcome)
  <2>1. call[r].outcome \in Errors
    BY <1>1 DEF classify_attempt, should_retry, is_retryable, Errors
  <2> QED BY <1>1, <1>2, <2>1, FailWithKeeps
<1>3. CASE /\ call' = [call EXCEPT ![r] = c] /\ phase' = [phase EXCEPT ![r] = "backoff"]
           /\ UNCHANGED <<circuit, cancelled, sink, failed, probes>>
  <2>1. c \in Locals /\ Consistent("backoff", c, sink[r])
    BY <1>1, ReshapedLocals
  <2> HIDE DEF c
  <2> QED BY <1>1, <1>3, <2>1, QuietInnerMove
<1> QED BY <1>2, <1>3 DEF PrepareRetry

LEMMA SettleFailedKeeps ==
    ASSUME BackendInv, NEW r \in Requests, SettleFailed(r)
    PROVE  BackendInv' /\ CallerStep
<1>1. phase[r] = "finishing" /\ classify_attempt(r) = "Failed" /\ FailWith(r, call[r].outcome)
  BY DEF SettleFailed
<1>2. call[r].outcome \in StopReasons \cup Errors \cup {Pending} /\ call[r].outcome # Pending
  BY <1>1, LocalFields DEF Consistent
<1>3. call[r].outcome \notin StopReasons
  BY <1>1 DEF classify_attempt
<1> QED BY <1>1, <1>2, <1>3, FailWithKeeps

LEMMA WaitElapsedKeeps ==
    ASSUME BackendInv, NEW r \in Requests, WaitElapsed(r)
    PROVE  BackendInv' /\ CallerStep
<1> DEFINE d == call[r]
           m == d.attempt + 1
           n == d.context
           b == d.tools
           c == Fresh(m, n, b)
<1>1. /\ phase[r] = "backoff" /\ phase' = [phase EXCEPT ![r] = "streaming"] /\ call' = [call EXCEPT ![r] = c]
      /\ UNCHANGED <<circuit, cancelled, sink, failed, probes>>
  BY DEF WaitElapsed, StartAttempt, Fresh
<1>2. /\ m \in 0..max_attempts /\ n \in Nat /\ b \in BOOLEAN /\ d.text \in Nat
      /\ Consistent("backoff", d, sink[r])
  <2>1. d.attempt \in 0..max_attempts /\ n \in Nat /\ b \in BOOLEAN /\ d.text \in Nat
        /\ Consistent("backoff", d, sink[r])
    BY <1>1, LocalFields
  <2>2. d.attempt < max_attempts
    BY <2>1 DEF Consistent
  <2> QED BY <2>1, <2>2, PolicyAssumption
<1>3. d.text = 0 /\ Caller!Answered(sink[r]) = d.context + d.text /\ Caller!Called(sink[r]) = FALSE
  BY <1>2 DEF Consistent
<1>4. Caller!Answered(sink[r]) = n
  BY <1>2, <1>3
<1> HIDE DEF m, n, b, c
<1>5. /\ c \in Locals /\ c.context = n /\ c.text = 0 /\ c.requested_tools = FALSE
  BY <1>2, FreshLocals, ZenonT(40) DEF c
<1>6. Caller!Answered(sink[r]) = c.context + c.text
  BY <1>2, <1>4, <1>5
<1>7. Consistent("streaming", c, sink[r])
  BY <1>3, <1>5, <1>6 DEF Consistent
<1> QED BY <1>1, <1>5, <1>7, QuietInnerMove

LEMMA CancelKeeps ==
    ASSUME BackendInv, NEW r \in Requests, Cancel(r)
    PROVE  BackendInv' /\ CallerStep
<1>1. cancelled' = [cancelled EXCEPT ![r] = TRUE] /\ UNCHANGED <<circuit, phase, call, sink, failed, probes>>
  BY DEF Cancel
<1>2. CallerStage' = CallerStage
  BY <1>1 DEF CallerStage, StageOf
<1>3. TypeOK'
  BY <1>1 DEF BackendInv, TypeOK
<1>4. ContractInv'
  BY <1>1 DEF BackendInv, ContractInv, Consistent
<1>5. CircuitInv' /\ ProbeInv'
  BY <1>1 DEF BackendInv, CircuitInv, ProbeInv, ProbeSlotHasAnOwner
<1> QED BY <1>1, <1>2, <1>3, <1>4, <1>5, CallerStutters DEF BackendInv

LEMMA ElapsesKeeps ==
    ASSUME BackendInv, OpenDurationElapses
    PROVE  BackendInv' /\ CallerStep
<1>1. /\ circuit.open_until = "cooling" /\ circuit' = [circuit EXCEPT !.open_until = "elapsed"]
      /\ UNCHANGED <<phase, call, cancelled, sink, failed, probes>>
  BY DEF OpenDurationElapses
<1>2. CallerStage' = CallerStage
  BY <1>1 DEF CallerStage, StageOf
<1>3. /\ CircuitTyped(circuit') /\ circuit'.consecutive_failures = circuit.consecutive_failures
      /\ circuit'.half_open_probe_in_flight = circuit.half_open_probe_in_flight
  BY <1>1 DEF BackendInv, TypeOK, CircuitTyped
<1>4. TypeOK'
  BY <1>1, <1>3 DEF BackendInv, TypeOK, CircuitTyped
<1>5. ContractInv'
  BY <1>1 DEF BackendInv, ContractInv, Consistent
<1>6. CircuitInv' /\ ProbeInv'
  BY <1>1, <1>3 DEF BackendInv, CircuitInv, ProbeInv, ProbeSlotHasAnOwner
<1> QED BY <1>1, <1>2, <1>4, <1>5, <1>6, CallerStutters DEF BackendInv

-----------------------------------------------------------------------------

LEMMA InitBackendInv == Init => BackendInv
<1> SUFFICES ASSUME Init PROVE BackendInv
  OBVIOUS
<1>1. TypeOK
  BY NoCallTyped DEF Init, TypeOK, Closed, Phases
<1>2. CircuitInv
  <2>1. failed = {} /\ circuit.open_until = "none" /\ circuit.consecutive_failures = 0
    BY DEF Init, Closed
  <2>2. IsFiniteSet({}) /\ Cardinality({}) = 0 /\ {q \in failed : phase[q] = "timed_out"} = {}
    BY <2>1, FS_EmptySet
  <2> QED BY <2>1, <2>2 DEF CircuitInv
<1>3. ProbeInv
  BY DEF Init, Closed, ProbeInv, ProbeSlotHasAnOwner
<1>4. ContractInv
  BY DEF Init, ContractInv, Consistent
<1> QED BY <1>1, <1>2, <1>3, <1>4 DEF BackendInv

LEMMA StepBackend == BackendInv /\ [Next]_vars => BackendInv' /\ CallerStep
<1> SUFFICES ASSUME BackendInv, [Next]_vars PROVE BackendInv' /\ CallerStep
  OBVIOUS
<1>1. CASE UNCHANGED vars
  <2>1. UNCHANGED <<circuit, phase, call, cancelled, sink, failed, probes>>
    BY <1>1 DEF vars
  <2>2. CallerStage' = CallerStage
    BY <2>1 DEF CallerStage, StageOf
  <2>3. TypeOK' /\ CircuitInv' /\ ProbeInv'
    BY <2>1 DEF BackendInv, TypeOK, CircuitInv, ProbeInv, ProbeSlotHasAnOwner
  <2>4. ContractInv'
    BY <2>1 DEF BackendInv, ContractInv, Consistent
  <2> QED BY <2>1, <2>2, <2>3, <2>4, CallerStutters DEF BackendInv
<1>2. ASSUME NEW r \in Requests,
             \/ RejectCapability(r) \/ RejectCircuitOpen(r) \/ Admit(r) \/ TextDelta(r) \/ OutputEvent(r)
             \/ ToolCallCompleted(r) \/ StreamEnds(r) \/ Settle(r) \/ Wait(r) \/ CountTimeout(r) \/ Cancel(r)
      PROVE  BackendInv' /\ CallerStep
  BY <1>2, RejectKeeps, AdmitKeeps, TextDeltaKeeps, OutputEventKeeps, ToolCallKeeps, StreamEndsKeeps,
     CompletedKeeps, CancelledKeeps, SettleFailedKeeps, PrepareRetryKeeps, WaitElapsedKeeps,
     CountTimeoutKeeps, CancelKeeps DEF Settle, Wait
<1>3. CASE OpenDurationElapses
  BY <1>3, ElapsesKeeps
<1> QED BY <1>1, <1>2, <1>3 DEF Next

LEMMA AlwaysBackendInv == Spec => []BackendInv
BY InitBackendInv, StepBackend, PTL DEF Spec

\* Every variable of the backend keeps its type: in particular no request is
\* attempted more often than RecoveryPolicy allows.
THEOREM BackendTypeCorrect == Spec => []TypeOK
<1>1. BackendInv => TypeOK
  BY DEF BackendInv
<1> QED BY <1>1, AlwaysBackendInv, PTL

\* The breaker opens only after transient failures of enough different
\* requests since the last success (CircuitBreaker::record_failure,
\* record_success), a timeout counting for two.
THEOREM CircuitOpensForCause == Spec => []OpenIsEarned
<1>1. BackendInv => OpenIsEarned
  <2> SUFFICES ASSUME BackendInv, circuit.open_until # "none"
               PROVE  2 * Cardinality(failed) >= circuit_failure_threshold
    BY DEF OpenIsEarned
  <2> DEFINE T == {r \in failed : phase[r] = "timed_out"}
             n == circuit.consecutive_failures
  <2>1. n \in Nat /\ n >= circuit_failure_threshold /\ n + Cardinality(T) <= 2 * Cardinality(failed)
        /\ IsFiniteSet(failed) /\ circuit_failure_threshold \in Nat
    BY PolicyAssumption DEF BackendInv, TypeOK, CircuitInv
  <2>2. Cardinality(T) \in Nat /\ Cardinality(failed) \in Nat
    BY <2>1, FS_Subset, FS_CardinalityType
  <2> HIDE DEF T, n
  <2> QED BY <2>1, <2>2
<1> QED BY <1>1, AlwaysBackendInv, PTL

\* The half-open slot always belongs to a probe that is under way or was
\* cancelled by its caller (CircuitBreaker::allow_request).
THEOREM ProbeSlotIsOwned == Spec => []ProbeSlotHasAnOwner
<1>1. BackendInv => ProbeSlotHasAnOwner
  BY DEF BackendInv, ProbeInv
<1> QED BY <1>1, AlwaysBackendInv, PTL

\* GenericModelBackend keeps the contract of ExecutionBackend::execute towards
\* every caller, step by step: whatever is retried or continued underneath, the
\* text arrives once and in order, no tool is asked for twice, and one terminal
\* event is the last.
THEOREM ContractIsKept == Spec => Caller!Init /\ [][Caller!Next]_(Caller!vars)
<1>1. Init => Caller!Init
  BY DEF Init, Caller!Init
<1>2. BackendInv /\ [Next]_vars => [Caller!Next]_(Caller!vars)
  BY StepBackend DEF CallerStep
<1> QED BY <1>1, <1>2, AlwaysBackendInv, PTL DEF Spec
=============================================================================

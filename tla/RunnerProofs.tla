---------------------------- MODULE RunnerProofs ----------------------------
(***************************************************************************)
(* Theorems about AgentRunner, for all values of the constants.            *)
(***************************************************************************)
EXTENDS AgentProofs, FiniteSetTheorems

-----------------------------------------------------------------------------
(***************************************************************************)
(* Carrying out effects keeps the tasks well typed.                        *)
(***************************************************************************)
LEMMA EffectsInType ==
    ASSUME NEW seq \in Seq(Effects)
    PROVE  EffectsIn(seq) \subseteq Effects /\ IsFiniteSet(EffectsIn(seq))
<1>1. EffectsIn(seq) \subseteq Effects
  BY DEF EffectsIn
<1>2. IsFiniteSet(1..Len(seq))
  BY FS_Interval
<1>3. seq \in Surjection(1..Len(seq), EffectsIn(seq))
  <2>1. seq \in [1..Len(seq) -> EffectsIn(seq)]
    BY DEF EffectsIn
  <2>2. \A e \in EffectsIn(seq) : \E i \in 1..Len(seq) : seq[i] = e
    BY DEF EffectsIn
  <2> QED BY <2>1, <2>2 DEF Surjection
<1> QED BY <1>1, <1>2, <1>3, FS_Surjection

LEMMA KindsOfEffects ==
    ASSUME NEW E, E \subseteq Effects
    PROVE  /\ \A e \in OfKind(E, "ExecuteBackend") : e.id \in Nat /\ e.run \in Nat
           /\ \A e \in OfKind(E, "ExecuteTool") : e.call \in ToolCalls
           /\ \A e \in OfKind(E, "EvaluateCompletion") :
                e.run \in Nat /\ e.attempt \in Nat /\ e.profile \in Profiles
           /\ \A e \in OfKind(E, "CancelTools") : e.calls \subseteq ToolCalls
<1>1. ASSUME NEW e \in Effects, e.kind = "ExecuteBackend" PROVE e.id \in Nat /\ e.run \in Nat
  BY <1>1 DEF Effects, Emit, SpawnAgent, FinishRun, ExecuteBackend, ExecuteTool, EvaluateCompletion,
              CancelBackend, CancelEvaluation, CancelTools, CancelChildren
<1>2. ASSUME NEW e \in Effects, e.kind = "ExecuteTool" PROVE e.call \in ToolCalls
  BY <1>2 DEF Effects, Emit, SpawnAgent, FinishRun, ExecuteBackend, ExecuteTool, EvaluateCompletion,
              CancelBackend, CancelEvaluation, CancelTools, CancelChildren
<1>3. ASSUME NEW e \in Effects, e.kind = "EvaluateCompletion"
      PROVE  e.run \in Nat /\ e.attempt \in Nat /\ e.profile \in Profiles
  BY <1>3 DEF Effects, Emit, SpawnAgent, FinishRun, ExecuteBackend, ExecuteTool, EvaluateCompletion,
              CancelBackend, CancelEvaluation, CancelTools, CancelChildren
<1>4. ASSUME NEW e \in Effects, e.kind = "CancelTools" PROVE e.calls \subseteq ToolCalls
  BY <1>4 DEF Effects, Emit, SpawnAgent, FinishRun, ExecuteBackend, ExecuteTool, EvaluateCompletion,
              CancelBackend, CancelEvaluation, CancelTools, CancelChildren
<1> QED BY <1>1, <1>2, <1>3, <1>4 DEF OfKind

LEMMA ExecuteBackendType ==
    ASSUME NEW w, NEW E, E \subseteq Effects, w.requests \subseteq RequestTasks
    PROVE  execute_backend(w, E) \subseteq RequestTasks
<1>1. ASSUME NEW q \in RequestTasks, NEW token \in Tokens
      PROVE  [q EXCEPT !.token = token] \in RequestTasks
  BY <1>1, Zenon DEF RequestTasks
<1>2. ASSUME NEW e \in OfKind(E, "ExecuteBackend")
      PROVE  [id |-> e.id, run |-> e.run, called |-> FALSE, token |-> NewToken] \in RequestTasks
  <2>1. e.id \in Nat /\ e.run \in Nat /\ NewToken \in Tokens
    BY <1>2, KindsOfEffects DEF Tokens, NewToken
  <2> QED BY <2>1, Zenon DEF RequestTasks
<1>3. \A q \in RequestTasks : q.token \in Tokens
  BY Zenon DEF RequestTasks
<1>4. \A token \in Tokens : Cancelled(token) \in Tokens
  BY DEF Tokens, Cancelled
<1>5. "lost" \in Tokens
  BY DEF Tokens
<1> QED BY <1>1, <1>2, <1>3, <1>4, <1>5 DEF execute_backend

LEMMA EvaluateCompletionType ==
    ASSUME NEW w, NEW E, E \subseteq Effects, w.evaluations \subseteq EvaluationTasks
    PROVE  evaluate_completion(w, E) \subseteq EvaluationTasks
<1>1. ASSUME NEW v \in EvaluationTasks, NEW token \in Tokens
      PROVE  [v EXCEPT !.token = token] \in EvaluationTasks
  BY <1>1, Zenon DEF EvaluationTasks
<1>2. ASSUME NEW e \in OfKind(E, "EvaluateCompletion")
      PROVE  [run |-> e.run, attempt |-> e.attempt, profile |-> e.profile, token |-> NewToken]
                 \in EvaluationTasks
  <2>1. e.run \in Nat /\ e.attempt \in Nat /\ e.profile \in Profiles /\ NewToken \in Tokens
    BY <1>2, KindsOfEffects DEF Tokens, NewToken
  <2> QED BY <2>1, Zenon DEF EvaluationTasks
<1>3. \A v \in EvaluationTasks : v.token \in Tokens
  BY Zenon DEF EvaluationTasks
<1>4. \A token \in Tokens : Cancelled(token) \in Tokens
  BY DEF Tokens, Cancelled
<1> QED BY <1>1, <1>2, <1>3, <1>4 DEF evaluate_completion

LEMMA CancelChildType ==
    ASSUME NEW w, NEW E, w.kids \in [Children -> KidStates]
    PROVE  cancel_child(w, E) \in [Children -> KidStates]
BY DEF cancel_child, KidStates

-----------------------------------------------------------------------------
(***************************************************************************)
(* The inductive invariant.  A call whose prompt is open is pending and    *)
(* has never started; a call that has started is in the transcript, so     *)
(* that the model cannot name it again.                                    *)
(***************************************************************************)
Granted(c, answered) ==
    \/ SessionMode[c] = "Allow"
    \/ SessionMode[c] = "Ask" /\ (c \in answered \/ RuleMayAllow)

PendingInv ==
    /\ agent.pending_permissions \subseteq agent.pending_tools
    /\ agent.pending_tools \subseteq CallsIn(agent.messages)

StartedInv ==
    \A c \in ToolCalls :
        /\ starts[c] \in {0, 1} /\ (tools[c] = "none" <=> starts[c] = 0) /\ tools[c] # "refused"
        /\ starts[c] = 1 => c \in CallsIn(agent.messages) /\ Granted(c, approved)

PromptInv ==
    \A c \in agent.pending_permissions : starts[c] = 0 /\ SessionMode[c] \in {"Allow", "Ask"}

IInv == TypeOK /\ PendingInv /\ StartedInv /\ PromptInv

\* What holds of a state that a command reduces the agent to, with its effects.
Reduced(t, answered) ==
    /\ t \in AgentStates
    /\ CallsIn(agent.messages) \subseteq CallsIn(t.messages)
    /\ t.pending_permissions \subseteq t.pending_tools
    /\ t.pending_tools \subseteq CallsIn(t.messages)
    /\ \A c \in Executed(EffectsIn(t.fx)) :
         /\ c \in t.pending_tools /\ c \notin t.pending_permissions
         /\ starts[c] = 0 /\ Granted(c, answered)
    /\ \A c \in t.pending_permissions : starts[c] = 0 /\ SessionMode[c] \in {"Allow", "Ask"}

LEMMA NothingExecuted == Executed(EffectsIn(<<>>)) = {}
BY DEF Executed, EffectsIn, OfKind

LEMMA StepsReduced ==
    ASSUME IInv, NEW t, NEW D, NEW answered, Steps(agent, t, D)
    PROVE  Reduced(t, answered)
<1>1. agent.fx = <<>>
  BY DEF IInv, TypeOK
<1>2. Executed(EffectsIn(t.fx)) = {}
  BY <1>1, NothingExecuted DEF Steps
<1> QED BY <1>2 DEF Reduced, Steps, IInv, PendingInv, PromptInv

LEMMA ReducedSteps ==
    ASSUME NEW t, NEW u, NEW answered, Reduced(t, answered), Steps(t, u, {})
    PROVE  Reduced(u, answered)
BY DEF Reduced, Steps

LEMMA StartsReduced ==
    ASSUME IInv, NEW c \in ToolCalls, NEW t, NEW answered, Starts(agent, t, c),
           c \notin CallsIn(agent.messages) \/ c \in agent.pending_permissions,
           Granted(c, answered)
    PROVE  Reduced(t, answered)
<1>1. agent.fx = <<>>
  BY DEF IInv, TypeOK
<1>2. Executed(EffectsIn(t.fx)) = {c}
  BY <1>1, NothingExecuted DEF Starts
<1>3. starts[c] = 0
  BY DEF IInv, StartedInv, PromptInv
<1> QED BY <1>2, <1>3 DEF Reduced, Starts, IInv, PendingInv, PromptInv

LEMMA AsksReduced ==
    ASSUME IInv, NEW c \in ToolCalls, NEW t, NEW answered, Asks(agent, t, c),
           c \notin CallsIn(agent.messages), SessionMode[c] \in {"Allow", "Ask"}
    PROVE  Reduced(t, answered)
<1>1. agent.fx = <<>>
  BY DEF IInv, TypeOK
<1>2. Executed(EffectsIn(t.fx)) = {}
  BY <1>1, NothingExecuted DEF Asks
<1>3. starts[c] = 0
  BY DEF IInv, StartedInv
<1> QED BY <1>2, <1>3 DEF Reduced, Asks, IInv, PendingInv, PromptInv

-----------------------------------------------------------------------------
(***************************************************************************)
(* Dispatching effects from such a state.                                  *)
(***************************************************************************)
\* Tasks as an action finds them: no call has appeared or come back to "none".
GoodTasks(w) ==
    /\ w.requests \subseteq RequestTasks /\ w.evaluations \subseteq EvaluationTasks
    /\ w.tools \in [ToolCalls -> ToolStates] /\ w.kids \in [Children -> KidStates]
    /\ \A c \in ToolCalls : (w.tools[c] = "none" <=> starts[c] = 0) /\ w.tools[c] # "refused"

\* The invariant after the action, but for the variables that dispatching leaves alone.
After ==
    /\ agent' \in AgentStates /\ agent'.fx = <<>>
    /\ requests' \subseteq RequestTasks /\ evaluations' \subseteq EvaluationTasks
    /\ tools' \in [ToolCalls -> ToolStates] /\ kids' \in [Children -> KidStates]
    /\ starts' \in [ToolCalls -> Nat] /\ stranded' \subseteq ToolCalls /\ asked' \in Nat
    /\ PendingInv' /\ StartedInv' /\ PromptInv'

LEMMA ExecutedType ==
    ASSUME NEW E, E \subseteq Effects
    PROVE  Executed(E) \subseteq ToolCalls /\ Dropped(E) \subseteq ToolCalls
BY KindsOfEffects DEF Executed, Dropped

LEMMA ExecuteToolType ==
    ASSUME NEW a, NEW w, NEW E, NEW answered, Reduced(a, answered), GoodTasks(w),
           Executed(E) \subseteq Executed(EffectsIn(a.fx))
    PROVE  /\ execute_tool(a, w, E) \in [ToolCalls -> ToolStates]
           /\ \A c \in ToolCalls :
                /\ execute_tool(a, w, E)[c] # "refused"
                /\ execute_tool(a, w, E)[c] = "none" <=> (starts[c] = 0 /\ c \notin Executed(E))
<1>1. \A c \in Executed(E) : tool_call_permitted(a, c)
  BY DEF Reduced, Granted, tool_call_permitted, PermissionPolicy
<1> QED BY <1>1 DEF execute_tool, GoodTasks, ToolStates

\* Counting the starts, when the calls X start now.
LEMMA StartsCounted ==
    ASSUME IInv, NEW X, NEW a, X \subseteq Executed(EffectsIn(a.fx)), Reduced(a, approved'),
           approved \subseteq approved',
           starts' = [c \in ToolCalls |-> starts[c] + (IF c \in X THEN 1 ELSE 0)]
    PROVE  /\ starts' \in [ToolCalls -> Nat]
           /\ \A c \in ToolCalls :
                /\ starts'[c] \in {0, 1}
                /\ starts'[c] = 0 <=> (starts[c] = 0 /\ c \notin X)
                /\ starts'[c] = 1 => c \in CallsIn(a.messages) /\ Granted(c, approved')
<1>1. \A c \in ToolCalls : starts[c] \in {0, 1}
  BY DEF IInv, StartedInv
<1>2. \A c \in X : starts[c] = 0 /\ Granted(c, approved') /\ c \in CallsIn(a.messages)
  BY DEF Reduced
<1>3. \A c \in ToolCalls : starts[c] = 1 => c \in CallsIn(a.messages) /\ Granted(c, approved')
  BY DEF IInv, StartedInv, Reduced, Granted
<1> QED BY <1>1, <1>2, <1>3

LEMMA FieldsOfCleared ==
    ASSUME NEW a \in AgentStates
    PROVE  LET b == [a EXCEPT !.fx = <<>>]
           IN /\ b \in AgentStates /\ b.fx = <<>> /\ b.messages = a.messages
              /\ b.pending_tools = a.pending_tools
              /\ b.pending_permissions = a.pending_permissions
<1>1. <<>> \in Seq(Effects)
  OBVIOUS
<1> QED BY <1>1, Zenon DEF AgentStates

LEMMA DispatchEffectsAfter ==
    ASSUME IInv, NEW a, NEW w, Reduced(a, approved'), GoodTasks(w), approved \subseteq approved',
           dispatch_effects(a, w, EffectsIn(a.fx))
    PROVE  After
<1> DEFINE E == EffectsIn(a.fx)
<1>1. a \in AgentStates
  BY DEF Reduced
<1>2. E \subseteq Effects /\ IsFiniteSet(E)
  BY <1>1, FieldTypes, EffectsInType
<1>3. /\ agent' = [a EXCEPT !.fx = <<>>]
      /\ requests' = execute_backend(w, E) /\ tools' = execute_tool(a, w, E)
      /\ evaluations' = evaluate_completion(w, E) /\ kids' = cancel_child(w, E)
      /\ starts' = [c \in ToolCalls |-> starts[c] + (IF c \in Executed(E) THEN 1 ELSE 0)]
      /\ stranded' = stranded \cup Dropped(E)
      /\ asked' = (IF a.next_run = agent.next_run THEN asked ELSE 0)
                  + Cardinality(OfKind(E, "ExecuteBackend"))
  BY DEF dispatch_effects
<1>4. /\ agent' \in AgentStates /\ agent'.fx = <<>> /\ agent'.messages = a.messages
      /\ agent'.pending_tools = a.pending_tools
      /\ agent'.pending_permissions = a.pending_permissions
  BY <1>1, <1>3, FieldsOfCleared
<1>5. /\ requests' \subseteq RequestTasks /\ evaluations' \subseteq EvaluationTasks
      /\ kids' \in [Children -> KidStates]
  BY <1>2, <1>3, ExecuteBackendType, EvaluateCompletionType, CancelChildType DEF GoodTasks
<1>6. /\ tools' \in [ToolCalls -> ToolStates]
      /\ \A c \in ToolCalls :
           /\ tools'[c] # "refused"
           /\ tools'[c] = "none" <=> (starts[c] = 0 /\ c \notin Executed(E))
  BY <1>3, ExecuteToolType
<1>7. /\ starts' \in [ToolCalls -> Nat]
      /\ \A c \in ToolCalls :
           /\ starts'[c] \in {0, 1}
           /\ starts'[c] = 0 <=> (starts[c] = 0 /\ c \notin Executed(E))
           /\ starts'[c] = 1 => c \in CallsIn(a.messages) /\ Granted(c, approved')
  BY <1>3, StartsCounted
<1>8. stranded' \subseteq ToolCalls
  BY <1>2, <1>3, ExecutedType DEF IInv, TypeOK
<1>9. asked' \in Nat
  <2>1. OfKind(E, "ExecuteBackend") \in SUBSET E
    BY DEF OfKind
  <2>2. Cardinality(OfKind(E, "ExecuteBackend")) \in Nat
    BY <1>2, <2>1, FS_Subset, FS_CardinalityType
  <2>3. asked \in Nat
    BY DEF IInv, TypeOK
  <2> QED BY <1>3, <2>2, <2>3
<1> HIDE DEF E
<1>10. PendingInv'
  BY <1>4 DEF PendingInv, Reduced
<1>11. StartedInv'
  BY <1>4, <1>6, <1>7 DEF StartedInv, Granted
<1>12. PromptInv'
  <2>1. ASSUME NEW c \in a.pending_permissions
        PROVE  starts'[c] = 0 /\ SessionMode[c] \in {"Allow", "Ask"}
    <3>1. c \in ToolCalls
      BY <1>1, FieldTypes
    <3>2. starts[c] = 0 /\ SessionMode[c] \in {"Allow", "Ask"} /\ c \notin Executed(E)
      BY DEF Reduced, E
    <3> QED BY <1>7, <3>1, <3>2
  <2> QED BY <1>4, <2>1 DEF PromptInv
<1> QED BY <1>4, <1>5, <1>6, <1>7, <1>8, <1>9, <1>10, <1>11, <1>12 DEF After

LEMMA FailFatallyAfter ==
    ASSUME IInv, NEW a, NEW w, NEW E, Reduced(a, approved'), GoodTasks(w),
           approved \subseteq approved', E \subseteq Effects, IsFiniteSet(E),
           Executed(E) \subseteq Executed(EffectsIn(a.fx)), fail_fatally(a, w, E)
    PROVE  After
<1> DEFINE b == [a EXCEPT !.fx = <<>>, !.status = "Failed", !.active_run = NoRun,
                          !.pending_tools = {}, !.pending_permissions = {}]
           T == execute_tool(a, w, E)
<1>1. a \in AgentStates
  BY DEF Reduced
<1>2. /\ agent' = b
      /\ requests' = {[q EXCEPT !.token = Cancelled(@)] : q \in execute_backend(w, E)}
      /\ tools' = [c \in ToolCalls |-> IF T[c] = "running" THEN "cancelled" ELSE T[c]]
      /\ evaluations' = evaluate_completion(w, E) /\ kids' = cancel_child(w, E)
      /\ starts' = [c \in ToolCalls |-> starts[c] + (IF c \in Executed(E) THEN 1 ELSE 0)]
      /\ stranded' = stranded \cup Dropped(EffectsIn(a.fx)) \cup a.pending_tools
      /\ asked' = (IF a.next_run = agent.next_run THEN asked ELSE 0)
                  + Cardinality(OfKind(E, "ExecuteBackend"))
  BY DEF fail_fatally
<1>3. b \in AgentStates
  <2>1. /\ <<>> \in Seq(Effects) /\ "Failed" \in Statuses /\ NoRun \in Nat
        /\ {} \in SUBSET ToolCalls
    BY DEF Statuses, NoRun
  <2> QED BY <1>1, <2>1, Zenon DEF AgentStates
<1>4. /\ b.fx = <<>> /\ b.messages = a.messages
      /\ b.pending_tools = {} /\ b.pending_permissions = {}
  BY <1>1, Zenon DEF AgentStates
<1> HIDE DEF b
<1>5. requests' \subseteq RequestTasks
  <2>1. execute_backend(w, E) \subseteq RequestTasks
    BY ExecuteBackendType DEF GoodTasks
  <2>2. ASSUME NEW q \in RequestTasks PROVE [q EXCEPT !.token = Cancelled(@)] \in RequestTasks
    <3>1. q.token \in Tokens
      BY <2>2, Zenon DEF RequestTasks
    <3>2. Cancelled(q.token) \in Tokens
      BY <3>1 DEF Tokens, Cancelled
    <3> QED BY <2>2, <3>2, Zenon DEF RequestTasks
  <2> QED BY <1>2, <2>1, <2>2
<1>6. evaluations' \subseteq EvaluationTasks /\ kids' \in [Children -> KidStates]
  BY <1>2, EvaluateCompletionType, CancelChildType DEF GoodTasks
<1>7. /\ T \in [ToolCalls -> ToolStates]
      /\ \A c \in ToolCalls :
           T[c] # "refused" /\ (T[c] = "none" <=> (starts[c] = 0 /\ c \notin Executed(E)))
  BY ExecuteToolType
<1> HIDE DEF T
<1>8. /\ tools' \in [ToolCalls -> ToolStates]
      /\ \A c \in ToolCalls :
           /\ tools'[c] # "refused"
           /\ tools'[c] = "none" <=> (starts[c] = 0 /\ c \notin Executed(E))
  BY <1>2, <1>7 DEF ToolStates
<1>9. /\ starts' \in [ToolCalls -> Nat]
      /\ \A c \in ToolCalls :
           /\ starts'[c] \in {0, 1}
           /\ starts'[c] = 0 <=> (starts[c] = 0 /\ c \notin Executed(E))
           /\ starts'[c] = 1 => c \in CallsIn(a.messages) /\ Granted(c, approved')
  BY <1>2, StartsCounted
<1>10. stranded' \subseteq ToolCalls /\ asked' \in Nat
  <2>1. EffectsIn(a.fx) \subseteq Effects
    BY <1>1, FieldTypes, EffectsInType
  <2>2. stranded' \subseteq ToolCalls
    BY <1>1, <1>2, <2>1, FieldTypes, ExecutedType DEF IInv, TypeOK
  <2>3. OfKind(E, "ExecuteBackend") \in SUBSET E
    BY DEF OfKind
  <2>4. Cardinality(OfKind(E, "ExecuteBackend")) \in Nat
    BY <2>3, FS_Subset, FS_CardinalityType
  <2>5. asked \in Nat
    BY DEF IInv, TypeOK
  <2> QED BY <1>2, <2>2, <2>4, <2>5
<1>11. PendingInv' /\ PromptInv'
  BY <1>2, <1>4 DEF PendingInv, PromptInv
<1>12. StartedInv'
  BY <1>2, <1>4, <1>8, <1>9 DEF StartedInv, Granted
<1> QED BY <1>2, <1>3, <1>4, <1>5, <1>6, <1>8, <1>9, <1>10, <1>11, <1>12 DEF After

LEMMA PrefixEffects ==
    ASSUME NEW a \in AgentStates, NEW b \in AgentStates, Extends(a, b), NEW n \in 1..Len(b.fx)
    PROVE  LET E == EffectsIn(SubSeq(b.fx, 1, n - 1))
           IN E \subseteq EffectsIn(b.fx) /\ (n <= Len(a.fx) => E \subseteq EffectsIn(a.fx))
<1>1. a.fx \in Seq(Effects) /\ b.fx \in Seq(Effects)
  BY FieldTypes
<1>2. n - 1 \in Nat /\ n - 1 <= Len(b.fx) /\ Len(b.fx) \in Nat /\ Len(a.fx) \in Nat
  BY <1>1
<1> DEFINE p == SubSeq(b.fx, 1, n - 1)
<1>3. Len(p) = n - 1 /\ \A i \in 1..n - 1 : p[i] = b.fx[i]
  <2>1. \A i \in 1..n - 1 : b.fx[i] \in Effects
    BY <1>1, <1>2
  <2>2. /\ Len(SubSeq(b.fx, 1, n - 1)) = (IF 1 <= n - 1 THEN (n - 1) - 1 + 1 ELSE 0)
        /\ \A i \in 1..(n - 1) - 1 + 1 : SubSeq(b.fx, 1, n - 1)[i] = b.fx[1 + i - 1]
    BY <1>2, <2>1, SubSeqProperties
  <2> HIDE DEF p
  <2>3. Len(p) = (IF 1 <= n - 1 THEN (n - 1) - 1 + 1 ELSE 0)
    BY <2>2 DEF p
  <2>4. \A i \in 1..(n - 1) - 1 + 1 : p[i] = b.fx[1 + i - 1]
    BY <2>2 DEF p
  <2> QED BY <1>2, <2>3, <2>4
<1> HIDE DEF p
<1>4. EffectsIn(p) \subseteq EffectsIn(b.fx)
  BY <1>2, <1>3 DEF EffectsIn
<1>5. ASSUME n <= Len(a.fx) PROVE EffectsIn(p) \subseteq EffectsIn(a.fx)
  <2>1. DOMAIN a.fx = 1..Len(a.fx)
    BY <1>1
  <2>2. \A i \in 1..n - 1 : p[i] = a.fx[i] /\ i \in 1..Len(a.fx)
    BY <1>2, <1>3, <1>5, <2>1 DEF Extends
  <2> QED BY <1>2, <1>3, <2>2 DEF EffectsIn
<1> QED BY <1>4, <1>5 DEF p

LEMMA DispatchAfter ==
    ASSUME IInv, NEW a, NEW b, NEW w, NEW l, NEW broken, Reduced(a, approved'),
           Reduced(b, approved'), Executed(EffectsIn(b.fx)) = Executed(EffectsIn(a.fx)),
           GoodTasks(w), approved \subseteq approved', Dispatch(a, b, w, l, broken)
    PROVE  After /\ loop' \in {l, broken, Doomed}
<1>1. CASE dispatch_effects(b, w, EffectsIn(b.fx)) /\ loop' = l
  BY <1>1, DispatchEffectsAfter
<1>2. CASE /\ \E n \in 1..Len(b.fx) :
                fail_fatally(IF n <= Len(a.fx) THEN a ELSE b, w,
                             EffectsIn(SubSeq(b.fx, 1, n - 1)))
           /\ loop' \in {broken, Doomed}
  <2>1. PICK n \in 1..Len(b.fx) :
            fail_fatally(IF n <= Len(a.fx) THEN a ELSE b, w, EffectsIn(SubSeq(b.fx, 1, n - 1)))
    BY <1>2
  <2> DEFINE x == IF n <= Len(a.fx) THEN a ELSE b
             E == EffectsIn(SubSeq(b.fx, 1, n - 1))
  <2>2. b.fx \in Seq(Effects)
    BY FieldTypes DEF Reduced
  <2>3. E \subseteq EffectsIn(b.fx)
    BY PrefixEffects DEF Reduced, Extends
  <2>4. E \subseteq Effects /\ IsFiniteSet(E)
    BY <2>2, <2>3, EffectsInType, FS_Subset
  <2>5. Executed(E) \subseteq Executed(EffectsIn(b.fx))
    BY <2>3 DEF Executed, OfKind
  <2> HIDE DEF E
  <2>6. Reduced(x, approved') /\ Executed(E) \subseteq Executed(EffectsIn(x.fx))
    BY <2>5
  <2>7. fail_fatally(x, w, E)
    BY <2>1 DEF E
  <2> HIDE DEF x
  <2>8. After
    BY <2>4, <2>6, <2>7, FailFatallyAfter
  <2> QED BY <1>2, <2>8
<1> QED BY <1>1, <1>2 DEF Dispatch

LEMMA LoopTypes ==
    /\ Ready \in LoopStates /\ Doomed \in LoopStates
    /\ \A fatal \in BOOLEAN : Ended(fatal) \in LoopStates
    /\ \A c \in ToolCalls \cup {NoCall}, k \in Children \cup {NoChild}, fatal \in BOOLEAN :
         Loop("spawning", c, k, fatal) \in LoopStates /\ Loop("awaiting", c, k, fatal) \in LoopStates
<1>1. ASSUME NEW at \in {"ready", "spawning", "awaiting", "stopped"}, NEW c \in ToolCalls \cup {NoCall},
             NEW k \in Children \cup {NoChild}, NEW fatal \in BOOLEAN
      PROVE  Loop(at, c, k, fatal) \in LoopStates
  BY <1>1, Zenon DEF Loop, LoopStates
<1> QED BY <1>1 DEF Ready, Doomed, Ended

LEMMA LoopFatal ==
    ASSUME IInv
    PROVE  loop.fatal \in BOOLEAN /\ AfterSpawn \in LoopStates
<1>1. loop \in LoopStates
  BY DEF IInv, TypeOK
<1>2. loop.fatal \in BOOLEAN
  BY <1>1, Zenon DEF LoopStates
<1> QED BY <1>2, LoopTypes DEF AfterSpawn

LEMMA NextLoopType ==
    ASSUME IInv, NEW E, E \subseteq Effects
    PROVE  NextLoop(E) \in LoopStates
<1>1. Executed(E) \cap SpawnCalls # {} =>
          (CHOOSE c \in Executed(E) \cap SpawnCalls : TRUE) \in ToolCalls
  BY ExecutedType
<1>2. /\ \A c \in ToolCalls \cup {NoCall} : Loop("spawning", c, NoChild, loop.fatal) \in LoopStates
      /\ Ended(loop.fatal) \in LoopStates /\ Ready \in LoopStates
  BY LoopTypes, LoopFatal
<1> QED BY <1>1, <1>2 DEF NextLoop

LEMMA HandleCommandAfter ==
    ASSUME IInv, NEW reduced, NEW w, NEW o, Reduced(reduced, approved'), GoodTasks(w),
           approved \subseteq approved', handle_command(reduced, w, o)
    PROVE  After /\ loop' \in LoopStates
<1> DEFINE b == IF LongLived /\ ~loop.fatal /\ FinishRun \in EffectsIn(reduced.fx)
                THEN start_next_queued_run(reduced, o) ELSE reduced
           l == NextLoop(EffectsIn(b.fx))
<1>1. Dispatch(reduced, b, w, l, Ended(TRUE))
  BY DEF handle_command
<1>2. reduced \in AgentStates
  BY DEF Reduced
<1>3. Steps(reduced, b, {})
  BY <1>2, StartNextQueuedRunSteps, StepsReflexive
<1> HIDE DEF b
<1>4. /\ Reduced(b, approved') /\ b \in AgentStates
      /\ Executed(EffectsIn(b.fx)) = Executed(EffectsIn(reduced.fx))
  <2>1. Reduced(b, approved')
    BY <1>3, ReducedSteps
  <2> QED BY <1>3, <2>1 DEF Steps
<1>5. l \in LoopStates
  BY <1>4, FieldTypes, EffectsInType, NextLoopType
<1> HIDE DEF l
<1>6. After /\ loop' \in {l, Ended(TRUE), Doomed}
  BY <1>1, <1>4, DispatchAfter
<1> QED BY <1>5, <1>6, LoopTypes

LEMMA AfterIInv ==
    ASSUME After, loop' \in LoopStates, shutdown' \in BOOLEAN, unsent' \subseteq Inputs,
           controls' \in 0..MaxControls, approved' \subseteq ToolCalls
    PROVE  IInv'
BY DEF After, IInv, TypeOK

\* Tasks as they are, or with one of them updated.
LEMMA TasksAreGood ==
    ASSUME IInv
    PROVE  /\ GoodTasks(Tasks)
           /\ \A R \in SUBSET RequestTasks : GoodTasks([Tasks EXCEPT !.requests = R])
           /\ \A V \in SUBSET EvaluationTasks : GoodTasks([Tasks EXCEPT !.evaluations = V])
           /\ \A K \in [Children -> KidStates] : GoodTasks([Tasks EXCEPT !.kids = K])
           /\ \A c \in ToolCalls : tools[c] # "none" =>
                GoodTasks([Tasks EXCEPT !.tools = [tools EXCEPT ![c] = "ended"]])
<1>1. /\ requests \subseteq RequestTasks /\ evaluations \subseteq EvaluationTasks
      /\ tools \in [ToolCalls -> ToolStates] /\ kids \in [Children -> KidStates]
      /\ \A c \in ToolCalls : (tools[c] = "none" <=> starts[c] = 0) /\ tools[c] # "refused"
  BY DEF IInv, TypeOK, StartedInv
<1>2. GoodTasks(Tasks)
  BY <1>1 DEF GoodTasks, Tasks
<1>3. ASSUME NEW R \in SUBSET RequestTasks PROVE GoodTasks([Tasks EXCEPT !.requests = R])
  BY <1>1, <1>3 DEF GoodTasks, Tasks
<1>4. ASSUME NEW V \in SUBSET EvaluationTasks PROVE GoodTasks([Tasks EXCEPT !.evaluations = V])
  BY <1>1, <1>4 DEF GoodTasks, Tasks
<1>5. ASSUME NEW K \in [Children -> KidStates] PROVE GoodTasks([Tasks EXCEPT !.kids = K])
  BY <1>1, <1>5 DEF GoodTasks, Tasks
<1>6. ASSUME NEW c \in ToolCalls, tools[c] # "none"
      PROVE  GoodTasks([Tasks EXCEPT !.tools = [tools EXCEPT ![c] = "ended"]])
  <2> DEFINE T == [tools EXCEPT ![c] = "ended"]
  <2>1. T \in [ToolCalls -> ToolStates]
    BY <1>1 DEF ToolStates
  <2>2. \A d \in ToolCalls : (T[d] = "none" <=> starts[d] = 0) /\ T[d] # "refused"
    BY <1>1, <1>6
  <2> HIDE DEF T
  <2>3. GoodTasks([Tasks EXCEPT !.tools = T])
    BY <1>1, <2>1, <2>2 DEF GoodTasks, Tasks
  <2> QED BY <2>3 DEF T
<1> QED BY <1>2, <1>3, <1>4, <1>5, <1>6

-----------------------------------------------------------------------------
(***************************************************************************)
(* Each action keeps the invariant.                                        *)
(***************************************************************************)
LEMMA SubmitKeepsIInv ==
    ASSUME IInv, NEW i \in Inputs, NEW o, Submit(i, o)
    PROVE  IInv'
<1> DEFINE r == start_or_queue(agent, i, o)
<1>1. agent \in AgentStates /\ approved' = approved
  BY DEF IInv, TypeOK, Submit
<1>2. Reduced(r, approved')
  BY <1>1, StartOrQueueSteps, StepsReduced
<1>3. handle_command(r, Tasks, o)
  BY DEF Submit
<1> HIDE DEF r
<1>4. After /\ loop' \in LoopStates
  BY <1>1, <1>2, <1>3, TasksAreGood, HandleCommandAfter
<1> QED BY <1>4, AfterIInv DEF Submit, IInv, TypeOK

LEMMA ResolvePermissionReduces ==
    ASSUME IInv, NEW c \in ToolCalls, NEW yes \in BOOLEAN, NEW o, ResolvePermission(c, yes, o)
    PROVE  Reduced(permission_resolved(agent, c, yes, o), approved')
<1> DEFINE r == permission_resolved(agent, c, yes, o)
<1>1. /\ agent \in AgentStates
      /\ agent.pending_permissions \subseteq agent.pending_tools
      /\ agent.pending_tools \subseteq CallsIn(agent.messages)
      /\ \A d \in agent.pending_permissions : SessionMode[d] \in {"Allow", "Ask"}
  BY DEF IInv, TypeOK, PendingInv, PromptInv
<1>2. yes /\ c \in agent.pending_permissions => c \in approved'
  BY DEF ResolvePermission
<1>3. \/ Steps(agent, r, {}) \/ Steps(agent, r, {c})
      \/ yes /\ c \in agent.pending_permissions /\ Starts(agent, r, c)
  BY <1>1, PermissionResolvedSteps
<1> HIDE DEF r
<1>4. yes /\ c \in agent.pending_permissions => Granted(c, approved')
  BY <1>1, <1>2 DEF Granted
<1>5. Reduced(r, approved')
  BY <1>3, <1>4, StepsReduced, StartsReduced
<1> QED BY <1>5 DEF r

LEMMA ResolvePermissionKeepsIInv ==
    ASSUME IInv, NEW c \in ToolCalls, NEW yes \in BOOLEAN, NEW o, ResolvePermission(c, yes, o)
    PROVE  IInv'
<1> DEFINE r == permission_resolved(agent, c, yes, o)
<1>1. approved \subseteq approved' /\ approved' \subseteq ToolCalls
  BY DEF ResolvePermission, IInv, TypeOK
<1>2. Reduced(r, approved') /\ handle_command(r, Tasks, o)
  BY ResolvePermissionReduces DEF ResolvePermission
<1> HIDE DEF r
<1>3. After /\ loop' \in LoopStates
  BY <1>1, <1>2, TasksAreGood, HandleCommandAfter
<1> QED BY <1>1, <1>3, AfterIInv DEF ResolvePermission, IInv, TypeOK

LEMMA SpawnCommandReduced ==
    ASSUME IInv, NEW answered
    PROVE  Reduced(With(agent, <<SpawnAgent>>), answered)
<1> DEFINE t == With(agent, <<SpawnAgent>>)
<1>1. agent \in AgentStates /\ agent.fx = <<>>
  BY DEF IInv, TypeOK
<1>2. /\ t \in AgentStates /\ t.messages = agent.messages
      /\ t.pending_tools = agent.pending_tools
      /\ t.pending_permissions = agent.pending_permissions
      /\ Executed(EffectsIn(t.fx)) = {}
  BY <1>1, SpawnCommandFields, NothingExecuted
<1> HIDE DEF t
<1>3. Reduced(t, answered)
  BY <1>2 DEF Reduced, IInv, PendingInv, PromptInv
<1> QED BY <1>3 DEF t

LEMMA ControlKeepsIInv ==
    ASSUME IInv, NEW command, NEW r, NEW o, Reduced(r, approved'), Control(command), HostCommand(r, o)
    PROVE  IInv'
<1>1. approved' = approved /\ handle_command(r, Tasks, o)
  BY DEF HostCommand
<1>3. After /\ loop' \in LoopStates
  BY <1>1, TasksAreGood, HandleCommandAfter
<1>4. controls' \in 0..MaxControls
  BY RunnerAssumption DEF Control, IInv, TypeOK
<1> QED BY <1>3, <1>4, AfterIInv DEF HostCommand, IInv, TypeOK

LEMMA HostCommandsKeepIInv ==
    ASSUME IInv, NEW o, NEW p \in Profiles,
           Cancel(o) \/ Pause(o) \/ Resume(o) \/ SetBehaviorProfile(p, o) \/ SpawnChild(o)
    PROVE  IInv'
<1>1. agent \in AgentStates
  BY DEF IInv, TypeOK
<1>2. CASE Cancel(o)
  BY <1>1, <1>2, CancelSteps, StepsReduced, ControlKeepsIInv DEF Cancel
<1>3. CASE Pause(o)
  BY <1>1, <1>3, PauseSteps, StepsReduced, ControlKeepsIInv DEF Pause
<1>4. CASE Resume(o)
  BY <1>1, <1>4, ResumeSteps, StepsReduced, ControlKeepsIInv DEF Resume
<1>5. CASE SetBehaviorProfile(p, o)
  BY <1>1, <1>5, SetBehaviorProfileSteps, StepsReduced, ControlKeepsIInv DEF SetBehaviorProfile
<1>6. CASE SpawnChild(o)
  BY <1>1, <1>6, SpawnCommandReduced, ControlKeepsIInv DEF SpawnChild
<1> QED BY <1>2, <1>3, <1>4, <1>5, <1>6

\* An action that leaves the agent and the history alone, and starts or revives no call.
LEMMA TasksOnlyKeepsIInv ==
    ASSUME IInv, UNCHANGED <<agent, history>>, requests' \subseteq RequestTasks,
           evaluations' \subseteq EvaluationTasks, kids' \in [Children -> KidStates],
           tools' \in [ToolCalls -> ToolStates],
           \A c \in ToolCalls : tools'[c] # "refused" /\ (tools'[c] = "none" <=> tools[c] = "none"),
           loop' \in LoopStates, shutdown' \in BOOLEAN, unsent' = unsent,
           controls' \in 0..MaxControls
    PROVE  IInv'
<1>1. approved' = approved /\ starts' = starts /\ stranded' = stranded /\ asked' = asked
  BY DEF history
<1>2. StartedInv'
  BY <1>1 DEF IInv, StartedInv, Granted
<1>3. PendingInv' /\ PromptInv'
  BY <1>1 DEF IInv, PendingInv, PromptInv
<1>4. TypeOK'
  BY <1>1 DEF IInv, TypeOK
<1> QED BY <1>2, <1>3, <1>4 DEF IInv

LEMMA CancelSessionKeepsIInv ==
    ASSUME IInv, CancelSession
    PROVE  IInv'
<1>1. requests' \subseteq RequestTasks /\ evaluations' \subseteq EvaluationTasks
  <2>1. "cancelled" \in Tokens
    BY DEF Tokens
  <2>2. \A q \in RequestTasks : [q EXCEPT !.token = "cancelled"] \in RequestTasks
    BY <2>1, Zenon DEF RequestTasks
  <2>3. \A v \in EvaluationTasks : [v EXCEPT !.token = "cancelled"] \in EvaluationTasks
    BY <2>1, Zenon DEF EvaluationTasks
  <2> QED BY <2>2, <2>3 DEF CancelSession, IInv, TypeOK
<1>2. kids' \in [Children -> KidStates]
  BY DEF CancelSession, IInv, TypeOK, KidStates
<1>3. /\ tools' \in [ToolCalls -> ToolStates]
      /\ \A c \in ToolCalls : tools'[c] # "refused" /\ (tools'[c] = "none" <=> tools[c] = "none")
  BY DEF CancelSession, IInv, TypeOK, ToolStates, StartedInv
<1>4. controls' \in 0..MaxControls
  BY RunnerAssumption DEF CancelSession, Control, IInv, TypeOK
<1>5. loop' \in LoopStates /\ shutdown' \in BOOLEAN /\ unsent' = unsent
  BY DEF CancelSession, IInv, TypeOK
<1>6. UNCHANGED <<agent, history>>
  BY DEF CancelSession
<1> QED BY <1>1, <1>2, <1>3, <1>4, <1>5, <1>6, TasksOnlyKeepsIInv

LEMMA CloseMailboxKeepsIInv ==
    ASSUME IInv, CloseMailbox
    PROVE  IInv'
<1>1. /\ UNCHANGED <<agent, history>> /\ UNCHANGED <<requests, tools, evaluations, kids>>
      /\ unsent' = unsent /\ shutdown' = shutdown /\ loop' = Ended(loop.fatal)
  BY DEF CloseMailbox, tasks
<1>2. controls' \in 0..MaxControls
  BY RunnerAssumption DEF CloseMailbox, Control, IInv, TypeOK
<1>3. \A c \in ToolCalls : tools[c] # "refused"
  BY DEF IInv, StartedInv
<1>4. loop' \in LoopStates
  BY <1>1, LoopTypes, LoopFatal
<1> QED BY <1>1, <1>2, <1>3, <1>4, TasksOnlyKeepsIInv DEF IInv, TypeOK

LEMMA StopOnCancelKeepsIInv ==
    ASSUME IInv, StopOnCancel
    PROVE  IInv'
<1> DEFINE a == IF agent.status \in {"Cancelled", "Failed"} THEN agent ELSE cancel(agent)
<1>1. agent \in AgentStates /\ approved' = approved
  BY DEF IInv, TypeOK, StopOnCancel
<1>2. Reduced(a, approved')
  BY <1>1, CancelSteps, StepsReflexive, StepsReduced
<1>3. Dispatch(a, a, Tasks, Ended(loop.fatal), Ended(TRUE))
  BY DEF StopOnCancel
<1> HIDE DEF a
<1>4. After /\ loop' \in {Ended(loop.fatal), Ended(TRUE), Doomed}
  BY <1>1, <1>2, <1>3, TasksAreGood, DispatchAfter
<1> QED BY <1>4, LoopTypes, LoopFatal, AfterIInv DEF StopOnCancel, IInv, TypeOK

-----------------------------------------------------------------------------
LEMMA BackendEventKeepsIInv ==
    ASSUME IInv, NEW q \in requests, NEW react, NEW rest, NEW o, rest \subseteq RequestTasks,
           Reduced(react, approved), BackendEvent(q, react, rest, o)
    PROVE  IInv'
<1> DEFINE r == IF agent.active_run = q.run THEN react ELSE agent
           R == (requests \ {q}) \cup rest
           w == [Tasks EXCEPT !.requests = R]
<1>1. agent \in AgentStates /\ approved' = approved /\ R \in SUBSET RequestTasks
  BY DEF IInv, TypeOK, BackendEvent
<1>2. Reduced(r, approved')
  BY <1>1, StepsReflexive, StepsReduced
<1>3. handle_command(r, w, o)
  BY DEF BackendEvent, Tasks
<1>4. GoodTasks(w)
  BY <1>1, TasksAreGood
<1> HIDE DEF r, R, w
<1>5. After /\ loop' \in LoopStates
  BY <1>1, <1>2, <1>3, <1>4, HandleCommandAfter
<1> QED BY <1>5, AfterIInv DEF BackendEvent, IInv, TypeOK

LEMMA ToolRequestedReduces ==
    ASSUME IInv, NEW c \in ToolCalls, NEW o, c \notin CallsIn(agent.messages)
    PROVE  Reduced(tool_requested(agent, c, o), approved)
<1> DEFINE r == tool_requested(agent, c, o)
<1>1. agent \in AgentStates /\ c \notin agent.pending_permissions
  BY DEF IInv, TypeOK, PendingInv
<1>2. \/ Steps(agent, r, {c})
      \/ MayRun(c) /\ Starts(agent, r, c)
      \/ SessionMode[c] \in {"Allow", "Ask"} /\ Asks(agent, r, c)
  BY <1>1, ToolRequestedSteps
<1> HIDE DEF r
<1>3. MayRun(c) => Granted(c, approved)
  BY DEF MayRun, Granted
<1>4. Reduced(r, approved)
  BY <1>2, <1>3, StepsReduced, StartsReduced, AsksReduced
<1> QED BY <1>4 DEF r

LEMMA RequestStepsKeepIInv ==
    ASSUME IInv, NEW q \in requests, NEW o, RequestStreams(q, o) \/ RequestEnds(q, o)
    PROVE  IInv'
<1>1. agent \in AgentStates /\ q \in RequestTasks
  BY DEF IInv, TypeOK
<1>2. CASE TextDelta(q, o)
  BY <1>1, <1>2, TextDeltaSteps, StepsReduced, BackendEventKeepsIInv DEF TextDelta
<1>3. CASE ReasoningDelta(q, o)
  BY <1>1, <1>3, ReasoningDeltaSteps, StepsReduced, BackendEventKeepsIInv DEF ReasoningDelta
<1>4. ASSUME NEW c \in ToolCalls, ToolCallRequested(q, c, o) PROVE IInv'
  <2> DEFINE r == tool_requested(agent, c, o)
             called == [q EXCEPT !.called = TRUE]
  <2>1. c \notin CallsIn(agent.messages) /\ BackendEvent(q, r, {called}, o)
    BY <1>4 DEF ToolCallRequested
  <2>2. called \in RequestTasks
    BY <1>1, Zenon DEF RequestTasks
  <2>3. Reduced(r, approved)
    BY <2>1, ToolRequestedReduces
  <2> HIDE DEF r, called
  <2> QED BY <2>1, <2>2, <2>3, BackendEventKeepsIInv
<1>5. ASSUME NEW reason, NEW failures, Completed(q, reason, failures, o) PROVE IInv'
  BY <1>1, <1>5, CompletedSteps, StepsReduced, BackendEventKeepsIInv DEF Completed
<1>6. CASE BackendError(q, o)
  BY <1>1, <1>6, FailSteps, StepsReduced, BackendEventKeepsIInv DEF BackendError
<1> QED BY <1>2, <1>3, <1>4, <1>5, <1>6 DEF RequestStreams, RequestEnds

LEMMA ToolEndsKeepsIInv ==
    ASSUME IInv, NEW c \in ToolCalls, NEW o, ToolEnds(c, o)
    PROVE  IInv'
<1>1. PICK outcome : ToolReports(c, outcome, o)
  BY DEF ToolEnds
<1> DEFINE r == IF outcome = "Completed" THEN tool_completed(agent, c, o)
                ELSE tool_failed(agent, c, outcome, o)
           T == [tools EXCEPT ![c] = "ended"]
           w == [Tasks EXCEPT !.tools = T]
<1>2. agent \in AgentStates /\ approved' = approved
  BY <1>1 DEF IInv, TypeOK, ToolReports
<1>3. Reduced(r, approved')
  BY <1>2, ToolCompletedSteps, ToolFailedSteps, StepsReduced
<1>4. handle_command(r, w, o)
  <2>1. w = [Tasks EXCEPT !.tools[c] = "ended"]
    BY DEF Tasks
  <2> QED BY <1>1, <2>1 DEF ToolReports
<1>5. tools[c] # "none"
  BY <1>1 DEF ToolReports, ToolLives
<1>6. GoodTasks(w)
  BY <1>5, TasksAreGood
<1> HIDE DEF r, T, w
<1>7. After /\ loop' \in LoopStates
  BY <1>2, <1>3, <1>4, <1>6, HandleCommandAfter
<1> QED BY <1>1, <1>7, AfterIInv DEF ToolReports, IInv, TypeOK

LEMMA EvaluationEndsKeepsIInv ==
    ASSUME IInv, NEW v \in evaluations, NEW o, EvaluationEnds(v, o)
    PROVE  IInv'
<1>1. PICK failures : EvaluationReports(v, failures, o)
  BY DEF EvaluationEnds
<1> DEFINE r == completion_evaluated(agent, v.run, v.attempt, failures, o)
           V == evaluations \ {v}
           w == [Tasks EXCEPT !.evaluations = V]
<1>2. agent \in AgentStates /\ approved' = approved /\ V \in SUBSET EvaluationTasks
  BY <1>1 DEF IInv, TypeOK, EvaluationReports
<1>3. Reduced(r, approved')
  BY <1>2, CompletionEvaluatedSteps, StepsReduced
<1>4. handle_command(r, w, o)
  BY <1>1 DEF EvaluationReports, Tasks
<1>5. GoodTasks(w)
  BY <1>2, TasksAreGood
<1> HIDE DEF r, V, w
<1>6. After /\ loop' \in LoopStates
  BY <1>2, <1>3, <1>4, <1>5, HandleCommandAfter
<1> QED BY <1>1, <1>6, AfterIInv DEF EvaluationReports, IInv, TypeOK

LEMMA VanishingKeepsIInv ==
    ASSUME IInv, \/ \E q \in requests : RequestVanishes(q)
                 \/ \E c \in ToolCalls : ToolVanishes(c)
                 \/ \E v \in evaluations : EvaluationVanishes(v)
                 \/ \E k \in Children : ChildEnds(k) \/ ChildDies(k)
    PROVE  IInv'
<1>1. UNCHANGED <<agent, history, loop, shutdown, unsent, controls>>
  BY DEF RequestVanishes, ToolVanishes, EvaluationVanishes, ChildEnds, ChildDies
<1>2. requests' \subseteq RequestTasks /\ evaluations' \subseteq EvaluationTasks
  BY DEF RequestVanishes, ToolVanishes, EvaluationVanishes, ChildEnds, ChildDies, IInv, TypeOK
<1>3. kids' \in [Children -> KidStates]
  BY DEF RequestVanishes, ToolVanishes, EvaluationVanishes, ChildEnds, ChildDies, IInv, TypeOK,
         KidStates
<1>4. /\ tools' \in [ToolCalls -> ToolStates]
      /\ \A c \in ToolCalls : tools'[c] # "refused" /\ (tools'[c] = "none" <=> tools[c] = "none")
  <2>1. \A c \in ToolCalls : tools[c] # "refused"
    BY DEF IInv, StartedInv
  <2>2. tools' = tools \/ \E c \in ToolCalls : ToolVanishes(c)
    BY DEF RequestVanishes, EvaluationVanishes, ChildEnds, ChildDies
  <2> QED BY <2>1, <2>2 DEF ToolVanishes, IInv, TypeOK, ToolStates
<1> QED BY <1>1, <1>2, <1>3, <1>4, TasksOnlyKeepsIInv DEF IInv, TypeOK

-----------------------------------------------------------------------------
LEMMA AnswerSpawnCallReduced ==
    ASSUME IInv, NEW a, NEW o, NEW answered, Steps(agent, a, {})
    PROVE  /\ Reduced(AnswerSpawnCall(a, o), answered)
           /\ Executed(EffectsIn(AnswerSpawnCall(a, o).fx)) = Executed(EffectsIn(a.fx))
<1> DEFINE b == AnswerSpawnCall(a, o)
<1>1. a \in AgentStates /\ loop.call \in ToolCalls \cup {NoCall}
  <2>1. loop \in LoopStates
    BY DEF IInv, TypeOK
  <2>2. loop.call \in ToolCalls \cup {NoCall}
    BY <2>1, Zenon DEF LoopStates
  <2> QED BY <2>2, StepsType
<1>2. Steps(a, b, {}) \/ \E c \in ToolCalls : Steps(a, b, {c})
  BY <1>1, ToolCompletedSteps, StepsReflexive DEF AnswerSpawnCall
<1> HIDE DEF b
<1>3. Executed(EffectsIn(b.fx)) = Executed(EffectsIn(a.fx))
  BY <1>2 DEF Steps
<1>4. Reduced(b, answered)
  <2>1. Steps(agent, b, {}) \/ \E c \in ToolCalls : Steps(agent, b, {} \cup {c})
    BY <1>2, KeepsTransitive, StepsTransitive
  <2> QED BY <2>1, StepsReduced
<1> QED BY <1>3, <1>4 DEF b

LEMMA SpawnStepsKeepIInv ==
    ASSUME IInv, NEW o,
           \/ SpawnRefused(o) \/ await_child(o)
           \/ \E k \in Children, awaiting \in BOOLEAN : SpawnAdmitted(k, awaiting, o)
           \/ \E k \in Children : ChildReported(k, o)
    PROVE  IInv'
<1>1. /\ agent \in AgentStates /\ kids \in [Children -> KidStates] /\ loop \in LoopStates
  BY DEF IInv, TypeOK
<1>2. approved' = approved /\ shutdown' = shutdown /\ unsent' = unsent /\ controls' = controls
  BY DEF SpawnRefused, await_child, SpawnAdmitted, ChildReported
<1>3. AfterSpawn \in LoopStates
  BY LoopFatal
<1>4. SUFFICES After /\ loop' \in LoopStates
  BY <1>2, <1>4, AfterIInv DEF IInv, TypeOK
<1>5. CASE SpawnRefused(o)
  <2> DEFINE a == AnswerSpawnCall(agent, o)
  <2>1. Reduced(a, approved')
    BY <1>1, StepsReflexive, AnswerSpawnCallReduced
  <2>2. Dispatch(a, a, Tasks, AfterSpawn, Ended(TRUE))
    BY <1>5 DEF SpawnRefused
  <2> HIDE DEF a
  <2>3. After /\ loop' \in {AfterSpawn, Ended(TRUE), Doomed}
    BY <1>2, <2>1, <2>2, TasksAreGood, DispatchAfter
  <2> QED BY <1>3, <2>3, LoopTypes
<1>6. CASE await_child(o)
  <2> DEFINE a == IF kids[loop.child] = "lost" THEN child_ended(agent, loop.child) ELSE agent
             b == AnswerSpawnCall(a, o)
  <2>1. Steps(agent, a, {})
    BY <1>1, StepsReflexive, ChildEndedSteps
  <2>2. Dispatch(a, b, Tasks, AfterSpawn, Ended(TRUE))
    BY <1>6 DEF await_child
  <2> HIDE DEF a
  <2>3. /\ Reduced(a, approved') /\ Reduced(b, approved')
        /\ Executed(EffectsIn(b.fx)) = Executed(EffectsIn(a.fx))
    BY <2>1, StepsReduced, AnswerSpawnCallReduced
  <2> HIDE DEF b
  <2>4. After /\ loop' \in {AfterSpawn, Ended(TRUE), Doomed}
    BY <1>2, <2>2, <2>3, TasksAreGood, DispatchAfter
  <2> QED BY <1>3, <2>4, LoopTypes
<1>7. ASSUME NEW k \in Children, NEW awaiting \in BOOLEAN, SpawnAdmitted(k, awaiting, o)
      PROVE  After /\ loop' \in LoopStates
  <2> DEFINE a == child_spawned(agent, k, awaiting)
             K == [kids EXCEPT ![k] = IF shutdown THEN "cancelled" ELSE "running"]
             w == [Tasks EXCEPT !.kids = K]
             b == AnswerSpawnCall(a, o)
             A(fatal) == Loop("awaiting", loop.call, k, fatal)
  <2>1. Steps(agent, a, {})
    BY <1>1, ChildSpawnedSteps
  <2>2. \/ Dispatch(a, a, w, A(loop.fatal), A(TRUE))
        \/ Dispatch(a, b, w, AfterSpawn, Ended(TRUE))
    <3>1. w = [Tasks EXCEPT !.kids[k] = IF shutdown THEN "cancelled" ELSE "running"]
      BY DEF Tasks
    <3> QED BY <1>7, <3>1 DEF SpawnAdmitted
  <2>3. K \in [Children -> KidStates]
    BY <1>1 DEF KidStates
  <2>4. GoodTasks(w)
    BY <2>3, TasksAreGood
  <2>5. A(loop.fatal) \in LoopStates /\ A(TRUE) \in LoopStates
    <3>1. loop.call \in ToolCalls \cup {NoCall}
      BY <1>1, Zenon DEF LoopStates
    <3> QED BY <3>1, LoopTypes, LoopFatal
  <2> HIDE DEF a, w, A
  <2>6. /\ Reduced(a, approved') /\ Reduced(b, approved')
        /\ Executed(EffectsIn(b.fx)) = Executed(EffectsIn(a.fx))
    BY <2>1, StepsReduced, AnswerSpawnCallReduced
  <2> HIDE DEF b
  <2>7. CASE Dispatch(a, a, w, A(loop.fatal), A(TRUE))
    BY <1>2, <2>4, <2>5, <2>6, <2>7, DispatchAfter, LoopTypes
  <2>8. CASE Dispatch(a, b, w, AfterSpawn, Ended(TRUE))
    BY <1>2, <1>3, <2>4, <2>6, <2>8, DispatchAfter, LoopTypes
  <2> QED BY <2>2, <2>7, <2>8
<1>8. ASSUME NEW k \in Children, ChildReported(k, o)
      PROVE  After /\ loop' \in LoopStates
  <2> DEFINE a == child_ended(agent, k)
             K == [kids EXCEPT ![k] = "gone"]
             w == [Tasks EXCEPT !.kids = K]
  <2>1. Reduced(a, approved')
    BY <1>1, ChildEndedSteps, StepsReduced
  <2>2. handle_command(a, w, o)
    <3>1. w = [Tasks EXCEPT !.kids[k] = "gone"]
      BY DEF Tasks
    <3> QED BY <1>8, <3>1 DEF ChildReported
  <2>3. K \in [Children -> KidStates]
    BY <1>1 DEF KidStates
  <2>4. GoodTasks(w)
    BY <2>3, TasksAreGood
  <2> HIDE DEF a, w
  <2> QED BY <1>2, <2>1, <2>2, <2>4, HandleCommandAfter
<1> QED BY <1>5, <1>6, <1>7, <1>8

-----------------------------------------------------------------------------
LEMMA NewAgentType == NewAgent \in AgentStates
<1>1. /\ "Idle" \in Statuses /\ <<>> \in Seq(Messages) /\ NoRun \in Nat /\ <<>> \in Seq(Inputs)
      /\ {} \in SUBSET ToolCalls /\ {} \in SUBSET Children /\ 0 \in Nat /\ 1 \in Nat
      /\ <<>> \in Seq(Effects) /\ DefaultProfile \in Profiles
      /\ NoProfile \in Profiles \cup {NoProfile} /\ FALSE \in BOOLEAN
  BY AgentAssumption DEF Statuses, NoRun
<1> QED BY <1>1, Zenon DEF NewAgent, AgentStates

LEMMA InitIInv ==
    ASSUME Init
    PROVE  IInv
<1>1. /\ agent \in AgentStates /\ agent.fx = <<>> /\ agent.pending_tools = {}
      /\ agent.pending_permissions = {}
  BY NewAgentType DEF Init, NewAgent
<1>2. tools = [c \in ToolCalls |-> "none"] /\ starts = [c \in ToolCalls |-> 0]
  BY DEF Init
<1>3. TypeOK
  <2>1. tools \in [ToolCalls -> ToolStates] /\ starts \in [ToolCalls -> Nat]
    BY <1>2 DEF ToolStates
  <2>2. kids \in [Children -> KidStates]
    BY DEF Init, KidStates
  <2>3. loop \in LoopStates
    BY LoopTypes DEF Init
  <2>4. shutdown \in BOOLEAN /\ unsent \subseteq Inputs
    BY Zenon DEF Init
  <2>5. controls \in 0..MaxControls
    BY RunnerAssumption DEF Init
  <2> QED BY <1>1, <2>1, <2>2, <2>3, <2>4, <2>5 DEF Init, TypeOK
<1>4. PendingInv /\ PromptInv
  BY <1>1 DEF PendingInv, PromptInv
<1>5. StartedInv
  BY <1>2 DEF StartedInv
<1> QED BY <1>3, <1>4, <1>5 DEF IInv

LEMMA StepKeepsIInv ==
    ASSUME IInv, [Next]_vars
    PROVE  IInv'
<1>1. CASE UNCHANGED vars
  <2>1. UNCHANGED <<agent, history, requests, tools, evaluations, kids, loop, shutdown, unsent, controls>>
    BY <1>1 DEF vars, tasks
  <2>2. \A c \in ToolCalls : tools[c] # "refused"
    BY DEF IInv, StartedInv
  <2> QED BY <2>1, <2>2, TasksOnlyKeepsIInv DEF IInv, TypeOK
<1>2. ASSUME NEW o \in Oracles, HostStep(o) PROVE IInv'
  <2>1. unsent \subseteq Inputs
    BY DEF IInv, TypeOK
  <2>2. DefaultProfile \in Profiles
    BY AgentAssumption
  <2> QED BY <1>2, <2>1, <2>2, SubmitKeepsIInv, HostCommandsKeepIInv DEF HostStep
<1>3. ASSUME NEW o \in Oracles, NEW c \in ToolCalls, NEW yes \in BOOLEAN, ResolvePermission(c, yes, o)
      PROVE  IInv'
  BY <1>3, ResolvePermissionKeepsIInv
<1>4. ASSUME NEW o \in Oracles, NEW q \in requests, RequestStreams(q, o) \/ RequestEnds(q, o)
      PROVE  IInv'
  BY <1>4, RequestStepsKeepIInv
<1>5. ASSUME NEW o \in Oracles, NEW c \in ToolCalls, ToolEnds(c, o) PROVE IInv'
  BY <1>5, ToolEndsKeepsIInv
<1>6. ASSUME NEW o \in Oracles, NEW v \in evaluations, EvaluationEnds(v, o) PROVE IInv'
  BY <1>6, EvaluationEndsKeepsIInv
<1>7. ASSUME NEW o \in Oracles,
             \/ SpawnRefused(o) \/ await_child(o)
             \/ \E k \in Children, awaiting \in BOOLEAN : SpawnAdmitted(k, awaiting, o)
             \/ \E k \in Children : ChildReported(k, o)
      PROVE  IInv'
  BY <1>7, SpawnStepsKeepIInv
<1>8. CASE \/ \E q \in requests : RequestVanishes(q)
           \/ \E c \in ToolCalls : ToolVanishes(c)
           \/ \E v \in evaluations : EvaluationVanishes(v)
           \/ \E k \in Children : ChildEnds(k) \/ ChildDies(k)
  BY <1>8, VanishingKeepsIInv
<1>9. CASE CancelSession \/ StopOnCancel \/ CloseMailbox
  BY <1>9, CancelSessionKeepsIInv, StopOnCancelKeepsIInv, CloseMailboxKeepsIInv
<1> QED BY <1>1, <1>2, <1>3, <1>4, <1>5, <1>6, <1>7, <1>8, <1>9 DEF Next

(***************************************************************************)
(* The invariant holds in every reachable state.                           *)
(***************************************************************************)
THEOREM InvariantHolds == Spec => []IInv
BY InitIInv, StepKeepsIInv, PTL DEF Spec

(***************************************************************************)
(* Reducing a command and carrying out its effects keeps every field of    *)
(* the agent and every task of the runner well typed.                      *)
(***************************************************************************)
THEOREM TypeCorrect == Spec => []TypeOK
<1>1. IInv => TypeOK
  BY DEF IInv
<1> QED BY <1>1, InvariantHolds, PTL

(***************************************************************************)
(* permission_resolved never starts a call twice and never one that is     *)
(* over: an open prompt is for a pending call that has not started.        *)
(***************************************************************************)
THEOREM PromptsWait == Spec => []PromptsAreForWaitingCalls
<1>1. IInv => PromptsAreForWaitingCalls
  <2>1. IInv => agent.pending_permissions \subseteq ToolCalls
    BY FieldTypes DEF IInv, TypeOK
  <2> QED BY <2>1 DEF IInv, PendingInv, PromptInv, StartedInv, PromptsAreForWaitingCalls
<1> QED BY <1>1, InvariantHolds, PTL

(***************************************************************************)
(* Every call execute_tool runs was granted: by the session, by the user's *)
(* answer or by a rule, and it runs once, however answers, cancellations,  *)
(* refused commits and late reports interleave.                            *)
(***************************************************************************)
THEOREM GrantsRespected == Spec => []CallsRunAsGranted
<1>1. IInv => CallsRunAsGranted
  BY DEF IInv, StartedInv, Granted, CallsRunAsGranted
<1> QED BY <1>1, InvariantHolds, PTL

-----------------------------------------------------------------------------
(***************************************************************************)
(* The calls of the transcript and the queue of inputs.                    *)
(***************************************************************************)
\* Every call of s is answered, pending, or dropped, and only one of these.
Balanced(s) ==
    /\ s \in AgentStates
    /\ Answers(s.messages) \subseteq CallsIn(s.messages)
    /\ CallsIn(s.messages) \ Answers(s.messages) = s.pending_tools \cup (stranded \cup Drops(s))
    /\ s.pending_tools \cap (stranded \cup Drops(s)) = {}

LEMMA KeepsBalanced ==
    ASSUME NEW s, NEW t, Balanced(s), Keeps(s, t)
    PROVE  Balanced(t)
BY DEF Balanced, Keeps

LEMMA OpensBalanced ==
    ASSUME NEW s, NEW t, Balanced(s), Opens(s, t)
    PROVE  Balanced(t)
BY DEF Balanced, Opens

LEMMA RequeuesBalanced ==
    ASSUME NEW s, NEW t, Balanced(s), Requeues(s, t)
    PROVE  Balanced(t)
<1>1. Drops(t) = Drops(s)
  BY DEF Requeues, Drops
<1> QED BY <1>1 DEF Balanced, Requeues

LEMMA AnsweredBalanced ==
    ASSUME NEW s, NEW t, NEW c, Balanced(s), Answered(s, t, c), c \in s.pending_tools
    PROVE  Balanced(t)
BY DEF Balanced, Answered

LEMMA DeclaresBalanced ==
    ASSUME NEW s, NEW t, NEW c, Balanced(s), Declares(s, t, c), c \notin CallsIn(s.messages)
    PROVE  Balanced(t)
BY DEF Balanced, Declares

LEMMA CancelsBalanced ==
    ASSUME NEW s, NEW t, Balanced(s), Cancels(s, t)
    PROVE  Balanced(t)
BY DEF Balanced, Cancels

LEMMA MovesKeeps ==
    ASSUME NEW s, NEW t, Moves(s, t)
    PROVE  Keeps(s, t) /\ t \in AgentStates
BY DEF Moves, Idles, Inquires, Keeps

LEMMA BeginsBalanced ==
    ASSUME NEW s, NEW t, Balanced(s), Begins(s, t)
    PROVE  Balanced(t)
<1>1. CASE Idles(s, t)
  BY <1>1, KeepsBalanced DEF Idles
<1>2. ASSUME NEW u, Opens(s, u), Idles(u, t) \/ Inquires(u, t) PROVE Balanced(t)
  BY <1>2, OpensBalanced, KeepsBalanced DEF Idles, Inquires
<1> QED BY <1>1, <1>2 DEF Begins

LEMMA RepliesBalanced ==
    ASSUME NEW s, NEW t, NEW c, Balanced(s), Replies(s, t, c), c \in s.pending_tools
    PROVE  Balanced(t)
BY AnsweredBalanced, MovesKeeps, KeepsBalanced DEF Replies

LEMMA HandlesBalanced ==
    ASSUME NEW s, NEW t, NEW c, Balanced(s), Handles(s, t, c), c \in s.pending_tools
    PROVE  Balanced(t)
BY RepliesBalanced, KeepsBalanced DEF Handles, Idles

LEMMA UnresolvedIs ==
    ASSUME NEW m \in Seq(Messages)
    PROVE  Unresolved(m) = (CallsIn(m) \ Answers(m)) \cap ToolCalls
BY CallsInOf DEF Unresolved, Answers, CallsOf

\* The calls, whatever happens to them, are accounted for.
CallsInv == Balanced(agent)

LEMMA CallsInvSound == IInv /\ CallsInv => CallsAccountedFor
<1> SUFFICES ASSUME IInv, CallsInv PROVE CallsAccountedFor
  OBVIOUS
<1>1. /\ agent.messages \in Seq(Messages) /\ agent.pending_tools \subseteq ToolCalls
      /\ stranded \subseteq ToolCalls /\ agent.fx = <<>>
  BY FieldTypes DEF IInv, TypeOK
<1>2. Drops(agent) = {}
  BY <1>1 DEF Drops, Dropped, OfKind, EffectsIn
<1>3. CallsIn(agent.messages) \ Answers(agent.messages) = agent.pending_tools \cup stranded
  BY <1>2 DEF CallsInv, Balanced
<1> QED BY <1>1, <1>3, UnresolvedIs DEF CallsAccountedFor

-----------------------------------------------------------------------------
\* The order of the queue, when the agent becomes t.
InOrder(t) ==
    LET queue == agent.queued_inputs
        served == queue # <<>> /\ t.queued_inputs = Tail(queue)
    IN /\ \/ t.queued_inputs = queue \/ served
          \/ \E i \in unsent \ unsent' : t.queued_inputs = Append(queue, i)
       /\ t.next_run > agent.next_run /\ Active => served

\* What a command reduces the agent to, before the next queued run starts.
Flows(t) ==
    /\ Balanced(t)
    /\ Finishes(t) => t.active_run = NoRun
    /\ \/ t.queued_inputs = agent.queued_inputs
       \/ /\ ~Finishes(t)
          /\ \E i \in unsent \ unsent' : t.queued_inputs = Append(agent.queued_inputs, i)
    /\ Active => t.next_run = agent.next_run

LEMMA FlowsInOrder ==
    ASSUME IInv, NEW t, Flows(t)
    PROVE  InOrder(t)
<1>1. agent.next_run \in Nat
  BY FieldTypes DEF IInv, TypeOK
<1> QED BY <1>1 DEF Flows, InOrder

LEMMA NothingYet ==
    ASSUME IInv
    PROVE  /\ agent \in AgentStates /\ ~Finishes(agent) /\ Drops(agent) = {}
           /\ Queries(agent) = {} /\ Hangups(agent) = {}
<1>1. agent \in AgentStates /\ agent.fx = <<>>
  BY DEF IInv, TypeOK
<1>2. EffectsIn(agent.fx) = {}
  BY <1>1 DEF EffectsIn
<1> QED BY <1>1, <1>2 DEF Finishes, Drops, Queries, Hangups, Dropped, OfKind

\* The next queued run starts.
LEMMA NextRunFlows ==
    ASSUME IInv, NEW a, NEW o, Flows(a), Finishes(a)
    PROVE  LET b == start_next_queued_run(a, o) IN Balanced(b) /\ InOrder(b)
<1> DEFINE b == start_next_queued_run(a, o)
<1>1. a \in AgentStates /\ a.active_run = NoRun /\ a.queued_inputs = agent.queued_inputs
  BY DEF Flows, Balanced
<1>2. \/ b = a
      \/ /\ a.queued_inputs # <<>>
         /\ \E u : Requeues(a, u) /\ u.queued_inputs = Tail(a.queued_inputs) /\ Begins(u, b)
  BY <1>1, StartNextQueuedRunBegins
<1> HIDE DEF b
<1>3. ASSUME b = a PROVE Balanced(b) /\ InOrder(b)
  BY <1>3, FlowsInOrder DEF Flows
<1>4. ASSUME a.queued_inputs # <<>>, NEW u, Requeues(a, u), u.queued_inputs = Tail(a.queued_inputs),
             Begins(u, b)
      PROVE  Balanced(b) /\ InOrder(b)
  <2>1. Balanced(b)
    BY <1>4, RequeuesBalanced, BeginsBalanced DEF Flows
  <2>2. b.queued_inputs = u.queued_inputs
    BY <1>4 DEF Begins, Opens, Idles, Inquires, Keeps
  <2> QED BY <1>1, <1>4, <2>1, <2>2 DEF InOrder
<1> QED BY <1>2, <1>3, <1>4 DEF b

-----------------------------------------------------------------------------
\* What dispatching does to the fields and the history looked at here.
LEMMA FieldsOfDispatched ==
    ASSUME NEW a \in AgentStates
    PROVE  LET b == [a EXCEPT !.fx = <<>>]
               f == [a EXCEPT !.fx = <<>>, !.status = "Failed", !.active_run = NoRun,
                              !.pending_tools = {}, !.pending_permissions = {}]
           IN /\ b \in AgentStates /\ b.fx = <<>> /\ b.messages = a.messages
              /\ b.pending_tools = a.pending_tools /\ b.queued_inputs = a.queued_inputs
              /\ b.next_run = a.next_run /\ b.active_run = a.active_run /\ b.status = a.status
              /\ b.backend_in_flight = a.backend_in_flight /\ b.profile = a.profile
              /\ b.switches = a.switches /\ b.turns = a.turns /\ b.final_turn = a.final_turn
              /\ b.final_grace_used = a.final_grace_used
              /\ f \in AgentStates /\ f.fx = <<>> /\ f.messages = a.messages
              /\ f.pending_tools = {} /\ f.queued_inputs = a.queued_inputs
              /\ f.next_run = a.next_run /\ f.active_run = NoRun /\ f.status = "Failed"
              /\ f.profile = a.profile
              /\ f.switches = a.switches /\ f.turns = a.turns /\ f.final_turn = a.final_turn
              /\ f.final_grace_used = a.final_grace_used
<1>1. <<>> \in Seq(Effects) /\ "Failed" \in Statuses /\ NoRun \in Nat /\ {} \in SUBSET ToolCalls
  BY DEF Statuses, NoRun
<1> QED BY <1>1, Zenon DEF AgentStates

LEMMA DroppedNothing == \A s : s.fx = <<>> => Drops(s) = {}
BY DEF Drops, Dropped, OfKind, EffectsIn

LEMMA DispatchFlows ==
    ASSUME NEW a, NEW b, NEW w, NEW l, NEW broken, Balanced(a), Balanced(b),
           InOrder(a), InOrder(b), Dispatch(a, b, w, l, broken)
    PROVE  CallsInv' /\ InOrder(agent')
<1>1. CASE dispatch_effects(b, w, EffectsIn(b.fx))
  <2>1. b \in AgentStates
    BY DEF Balanced
  <2>2. agent' = [b EXCEPT !.fx = <<>>] /\ stranded' = stranded \cup Drops(b)
    BY <1>1 DEF dispatch_effects, Drops
  <2>3. /\ agent' \in AgentStates /\ agent'.fx = <<>> /\ agent'.messages = b.messages
        /\ agent'.pending_tools = b.pending_tools /\ agent'.queued_inputs = b.queued_inputs
        /\ agent'.next_run = b.next_run
    BY <2>1, <2>2, FieldsOfDispatched
  <2>4. Drops(agent') = {}
    BY <2>3, DroppedNothing
  <2>5. CallsInv'
    BY <2>2, <2>3, <2>4 DEF Balanced, CallsInv
  <2> QED BY <2>3, <2>5 DEF InOrder
<1>2. ASSUME NEW x \in {a, b}, NEW E, fail_fatally(x, w, E)
      PROVE  CallsInv' /\ InOrder(agent')
  <2>1. x \in AgentStates /\ Balanced(x) /\ InOrder(x)
    BY <1>2 DEF Balanced
  <2>2. /\ agent' = [x EXCEPT !.fx = <<>>, !.status = "Failed", !.active_run = NoRun,
                              !.pending_tools = {}, !.pending_permissions = {}]
        /\ stranded' = stranded \cup Drops(x) \cup x.pending_tools
    BY <1>2 DEF fail_fatally, Drops
  <2>3. /\ agent' \in AgentStates /\ agent'.fx = <<>> /\ agent'.messages = x.messages
        /\ agent'.pending_tools = {} /\ agent'.queued_inputs = x.queued_inputs
        /\ agent'.next_run = x.next_run
    BY <2>1, <2>2, FieldsOfDispatched
  <2>4. Drops(agent') = {}
    BY <2>3, DroppedNothing
  <2>5. CallsInv'
    BY <2>1, <2>2, <2>3, <2>4 DEF Balanced, CallsInv
  <2> QED BY <2>1, <2>3, <2>5 DEF InOrder
<1>3. \/ dispatch_effects(b, w, EffectsIn(b.fx))
      \/ \E n \in 1..Len(b.fx) : fail_fatally(IF n <= Len(a.fx) THEN a ELSE b, w,
                                              EffectsIn(SubSeq(b.fx, 1, n - 1)))
  BY DEF Dispatch
<1> QED BY <1>1, <1>2, <1>3

LEMMA HandleCommandFlows ==
    ASSUME IInv, NEW a, NEW w, NEW o, Flows(a), handle_command(a, w, o)
    PROVE  CallsInv' /\ InOrder(agent')
<1> DEFINE b == IF LongLived /\ ~loop.fatal /\ FinishRun \in EffectsIn(a.fx)
                THEN start_next_queued_run(a, o) ELSE a
<1>1. Dispatch(a, b, w, NextLoop(EffectsIn(b.fx)), Ended(TRUE))
  BY DEF handle_command
<1>2. Balanced(a) /\ InOrder(a)
  BY FlowsInOrder DEF Flows
<1>3. Balanced(b) /\ InOrder(b)
  BY <1>2, NextRunFlows DEF Finishes
<1> HIDE DEF b
<1> QED BY <1>1, <1>2, <1>3, DispatchFlows

LEMMA KeepsFlows ==
    ASSUME IInv, CallsInv, NEW t, Keeps(agent, t), Finishes(t) => t.active_run = NoRun
    PROVE  Flows(t)
BY KeepsBalanced DEF CallsInv, Flows, Keeps

LEMMA IdlesFlows ==
    ASSUME IInv, CallsInv, NEW t, Idles(agent, t)
    PROVE  Flows(t)
BY KeepsFlows, NothingYet DEF Idles

LEMMA MovesFlows ==
    ASSUME IInv, CallsInv, NEW t, Idles(agent, t) \/ Inquires(agent, t)
    PROVE  Flows(t)
BY IdlesFlows, KeepsFlows, NothingYet DEF Inquires

LEMMA SubmitFlows ==
    ASSUME IInv, CallsInv, NEW i \in Inputs, NEW o, i \in unsent \ unsent'
    PROVE  Flows(start_or_queue(agent, i, o))
<1> DEFINE t == start_or_queue(agent, i, o)
<1>1. agent \in AgentStates /\ ~Finishes(agent) /\ Balanced(agent)
  BY NothingYet DEF CallsInv
<1>2. \/ /\ Active
         /\ Requeues(agent, t) /\ t.queued_inputs = Append(agent.queued_inputs, i)
      \/ ~Active /\ Begins(agent, t)
  BY <1>1, StartOrQueueBegins DEF Active
<1> HIDE DEF t
<1>3. ASSUME Active, Requeues(agent, t), t.queued_inputs = Append(agent.queued_inputs, i)
      PROVE  Flows(t)
  <2>1. ~Finishes(t) /\ t.next_run = agent.next_run
    BY <1>1, <1>3 DEF Requeues, Finishes
  <2>2. Balanced(t)
    BY <1>1, <1>3, RequeuesBalanced
  <2> QED BY <1>3, <2>1, <2>2 DEF Flows
<1>4. ASSUME ~Active, Begins(agent, t) PROVE Flows(t)
  <2>1. Balanced(t) /\ t.queued_inputs = agent.queued_inputs
    BY <1>1, <1>4, BeginsBalanced DEF Begins, Opens, Idles, Inquires, Keeps
  <2>2. Finishes(t) => t.active_run = NoRun
    BY <1>1, <1>4 DEF Begins, Opens, Inquires
  <2> QED BY <1>4, <2>1, <2>2 DEF Flows
<1> QED BY <1>2, <1>3, <1>4 DEF t

\* What of the queue and the run a result leaves as it was.
LEMMA RepliesKeep ==
    ASSUME NEW s, NEW t, NEW c, Replies(s, t, c)
    PROVE  /\ t.queued_inputs = s.queued_inputs /\ t.next_run = s.next_run
           /\ Finishes(t) => Finishes(s) \/ t.active_run = NoRun
           /\ s.active_run = NoRun => t.active_run = NoRun
           /\ t \in AgentStates
<1>1. PICK u : Answered(s, u, c) /\ Moves(u, t)
  BY DEF Replies
<1>2. Finishes(u) => Finishes(s) \/ u.active_run = NoRun
  BY <1>1 DEF Answered
<1>3. CASE Idles(u, t)
  <2>1. Finishes(t) => Finishes(u) \/ t.active_run = NoRun
    BY <1>3 DEF Idles
  <2>2. t.active_run \in {u.active_run, NoRun}
    BY <1>3 DEF Idles
  <2> QED BY <1>1, <1>2, <1>3, <2>1, <2>2 DEF Answered, Idles, Keeps
<1>4. CASE Inquires(u, t)
  <2>1. u.active_run # NoRun /\ (Finishes(t) => Finishes(u))
    BY <1>4 DEF Inquires
  <2> QED BY <1>1, <1>2, <1>4, <2>1 DEF Answered, Inquires, Keeps
<1> QED BY <1>1, <1>3, <1>4 DEF Moves

LEMMA HandlesKeep ==
    ASSUME NEW s, NEW t, NEW c, Handles(s, t, c)
    PROVE  /\ t.queued_inputs = s.queued_inputs /\ t.next_run = s.next_run
           /\ Finishes(t) => Finishes(s) \/ t.active_run = NoRun
           /\ s.active_run = NoRun => t.active_run = NoRun
<1>1. CASE Idles(s, t)
  BY <1>1 DEF Idles, Keeps
<1>2. CASE Replies(s, t, c)
  BY <1>2, RepliesKeep
<1>3. ASSUME NEW v, Replies(s, v, c), Idles(v, t)
      PROVE  /\ t.queued_inputs = s.queued_inputs /\ t.next_run = s.next_run
             /\ Finishes(t) => Finishes(s) \/ t.active_run = NoRun
             /\ s.active_run = NoRun => t.active_run = NoRun
  <2>1. /\ v.queued_inputs = s.queued_inputs /\ v.next_run = s.next_run
        /\ Finishes(v) => Finishes(s) \/ v.active_run = NoRun
        /\ s.active_run = NoRun => v.active_run = NoRun
    BY <1>3, RepliesKeep
  <2>2. Finishes(t) => Finishes(v) \/ t.active_run = NoRun
    BY <1>3 DEF Idles
  <2>3. /\ t.active_run \in {v.active_run, NoRun} /\ t.queued_inputs = v.queued_inputs
        /\ t.next_run = v.next_run
    BY <1>3 DEF Idles, Keeps
  <2> QED BY <2>1, <2>2, <2>3
<1> QED BY <1>1, <1>2, <1>3 DEF Handles

LEMMA RepliesFlows ==
    ASSUME IInv, CallsInv, NEW t, NEW c, Replies(agent, t, c), c \in agent.pending_tools
    PROVE  Flows(t)
BY NothingYet, RepliesBalanced, RepliesKeep DEF Flows, CallsInv

LEMMA ToolResultFlows ==
    ASSUME IInv, CallsInv, NEW c \in ToolCalls, NEW error, NEW o
    PROVE  Flows(tool_completed(agent, c, o)) /\ Flows(tool_failed(agent, c, error, o))
BY NothingYet, ToolCompletedReplies, ToolFailedReplies, RepliesFlows, IdlesReflexive, IdlesFlows

LEMMA PermissionResolvedFlows ==
    ASSUME IInv, CallsInv, NEW c \in ToolCalls, NEW yes, NEW o
    PROVE  Flows(permission_resolved(agent, c, yes, o))
<1> DEFINE t == permission_resolved(agent, c, yes, o)
<1>1. PICK v : Idles(agent, v) /\ (t = v \/ (c \in v.pending_tools /\ Handles(v, t, c)))
  BY NothingYet, PermissionResolvedHandles DEF Handles
<1> HIDE DEF t
<1>2. Flows(v)
  BY <1>1, IdlesFlows
<1>3. ASSUME c \in v.pending_tools, Handles(v, t, c) PROVE Flows(t)
  <2>1. Balanced(t)
    BY <1>2, <1>3, HandlesBalanced DEF Flows
  <2>2. /\ t.queued_inputs = v.queued_inputs /\ t.next_run = v.next_run
        /\ Finishes(t) => Finishes(v) \/ t.active_run = NoRun
        /\ v.active_run = NoRun => t.active_run = NoRun
    BY <1>3, HandlesKeep
  <2>3. v.queued_inputs = agent.queued_inputs /\ v.next_run = agent.next_run
    BY <1>1 DEF Idles, Keeps
  <2>4. Finishes(t) => t.active_run = NoRun
    BY <1>2, <2>2 DEF Flows
  <2> QED BY <2>1, <2>2, <2>3, <2>4 DEF Flows
<1> QED BY <1>1, <1>2, <1>3 DEF t

LEMMA ToolRequestedFlows ==
    ASSUME IInv, CallsInv, NEW c \in ToolCalls, NEW o, c \notin CallsIn(agent.messages)
    PROVE  Flows(tool_requested(agent, c, o))
<1> DEFINE t == tool_requested(agent, c, o)
<1>1. PICK u, v : /\ Declares(agent, u, c) /\ Idles(u, v)
                  /\ c \in v.pending_tools /\ Handles(v, t, c)
  BY NothingYet, ToolRequestedHandles
<1> HIDE DEF t
<1>2. Balanced(u) /\ ~Finishes(u)
  BY <1>1, NothingYet, DeclaresBalanced DEF CallsInv, Declares
<1>3. Balanced(v) /\ (Finishes(v) => v.active_run = NoRun)
  BY <1>1, <1>2, KeepsBalanced DEF Idles
<1>4. /\ t.queued_inputs = v.queued_inputs /\ t.next_run = v.next_run
      /\ Finishes(t) => Finishes(v) \/ t.active_run = NoRun
      /\ v.active_run = NoRun => t.active_run = NoRun
  BY <1>1, HandlesKeep
<1>5. v.queued_inputs = agent.queued_inputs /\ v.next_run = agent.next_run
  BY <1>1 DEF Idles, Keeps, Declares
<1>6. Balanced(t) /\ (Finishes(t) => t.active_run = NoRun)
  BY <1>1, <1>3, <1>4, HandlesBalanced
<1>7. Flows(t)
  BY <1>4, <1>5, <1>6 DEF Flows
<1> QED BY <1>7 DEF t

LEMMA CompletedFlows ==
    ASSUME IInv, CallsInv, NEW reason, NEW failures, NEW o
    PROVE  Flows(completed(agent, reason, failures, o))
<1> DEFINE t == completed(agent, reason, failures, o)
<1>1. PICK u : Closes(agent, u) /\ (Moves(u, t) \/ Verifies(u, t))
  BY NothingYet, CompletedCloses
<1> HIDE DEF t
<1>2. Keeps(agent, u) /\ ~Finishes(u)
  BY <1>1, NothingYet DEF Closes
<1>3. Keeps(u, t) /\ (Finishes(t) => t.active_run = NoRun)
  BY <1>1, <1>2, MovesKeeps DEF Moves, Idles, Inquires, Verifies
<1>4. Flows(t)
  BY <1>2, <1>3, KeepsComposes, KeepsFlows
<1> QED BY <1>4 DEF t

LEMMA CancelFlows ==
    ASSUME IInv, CallsInv
    PROVE  Flows(cancel(agent))
<1> DEFINE t == cancel(agent)
<1>1. t = agent \/ Cancels(agent, t)
  BY NothingYet, CancelCancels
<1> HIDE DEF t
<1>2. ASSUME Cancels(agent, t) PROVE Flows(t)
  <2>1. Balanced(t)
    BY <1>2, CancelsBalanced DEF CallsInv
  <2> QED BY <1>2, <2>1 DEF Flows, Cancels
<1>3. Flows(agent)
  BY NothingYet, IdlesReflexive, IdlesFlows
<1> QED BY <1>1, <1>2, <1>3 DEF t

-----------------------------------------------------------------------------
\* The actions that reduce a command.
LEMMA CommandsFlow ==
    ASSUME IInv, CallsInv, NEW o,
           \/ HostStep(o)
           \/ \E c \in ToolCalls, yes \in BOOLEAN : ResolvePermission(c, yes, o)
           \/ \E q \in requests : RequestStreams(q, o) \/ RequestEnds(q, o)
           \/ \E c \in ToolCalls : ToolEnds(c, o)
           \/ \E v \in evaluations : EvaluationEnds(v, o)
           \/ \E k \in Children : ChildReported(k, o)
    PROVE  \E a, w : Flows(a) /\ handle_command(a, w, o)
<1>1. agent \in AgentStates /\ unsent \subseteq Inputs
  BY DEF IInv, TypeOK
<1>2. Flows(agent)
  BY <1>1, IdlesReflexive, IdlesFlows
<1>3. ASSUME NEW i \in unsent, Submit(i, o) PROVE \E a, w : Flows(a) /\ handle_command(a, w, o)
  <2>1. i \in Inputs /\ i \in unsent \ unsent' /\ handle_command(start_or_queue(agent, i, o), Tasks, o)
    BY <1>1, <1>3 DEF Submit
  <2> QED BY <2>1, SubmitFlows
<1>4. CASE Cancel(o)
  BY <1>4, CancelFlows DEF Cancel, HostCommand
<1>5. CASE Pause(o)
  <2>1. Flows(pause(agent))
    BY <1>1, PauseIdles, IdlesFlows
  <2> QED BY <1>5, <2>1 DEF Pause, HostCommand
<1>6. CASE Resume(o)
  <2>1. Flows(resume(agent))
    BY <1>1, ResumeKeeps, NothingYet, KeepsFlows
  <2> QED BY <1>6, <2>1 DEF Resume, HostCommand
<1>7. CASE SpawnChild(o)
  <2> DEFINE a == With(agent, <<SpawnAgent>>)
  <2>1. Flows(a)
    BY <1>1, SpawnCommandIdles, IdlesFlows
  <2>2. handle_command(a, Tasks, o)
    BY <1>7 DEF SpawnChild, HostCommand
  <2> QED BY <2>1, <2>2
<1>8. ASSUME NEW p \in Profiles, SetBehaviorProfile(p, o)
      PROVE  \E a, w : Flows(a) /\ handle_command(a, w, o)
  <2>1. Flows(set_behavior_profile(agent, p))
    BY <1>1, SetBehaviorProfileIdles, IdlesFlows
  <2> QED BY <1>8, <2>1 DEF SetBehaviorProfile, HostCommand
<1>9. ASSUME NEW c \in ToolCalls, NEW yes \in BOOLEAN, ResolvePermission(c, yes, o)
      PROVE  \E a, w : Flows(a) /\ handle_command(a, w, o)
  BY <1>9, PermissionResolvedFlows DEF ResolvePermission
<1>10. ASSUME NEW q, NEW react, NEW rest, Flows(react), BackendEvent(q, react, rest, o)
       PROVE  \E a, w : Flows(a) /\ handle_command(a, w, o)
  <2> DEFINE a == IF agent.active_run = q.run THEN react ELSE agent
             w == [Tasks EXCEPT !.requests = (@ \ {q}) \cup rest]
  <2>1. handle_command(a, w, o)
    BY <1>10 DEF BackendEvent
  <2>2. Flows(a)
    BY <1>2, <1>10
  <2> HIDE DEF a, w
  <2> QED BY <2>1, <2>2
<1>11. ASSUME NEW q \in requests, RequestStreams(q, o)
       PROVE  \E a, w : Flows(a) /\ handle_command(a, w, o)
  <2>1. Flows(text_delta(agent)) /\ Flows(reasoning_delta(agent))
    BY <1>1, TextDeltaIdles, ReasoningDeltaIdles, IdlesFlows
  <2> QED BY <1>10, <1>11, <2>1, ToolRequestedFlows
          DEF RequestStreams, TextDelta, ReasoningDelta, ToolCallRequested
<1>12. ASSUME NEW q \in requests, RequestEnds(q, o)
       PROVE  \E a, w : Flows(a) /\ handle_command(a, w, o)
  <2>1. Flows(fail(agent))
    BY <1>1, FailIdles, IdlesFlows
  <2>2. ASSUME BackendError(q, o) PROVE \E a, w : Flows(a) /\ handle_command(a, w, o)
    BY <1>10, <2>1, <2>2 DEF BackendError
  <2>3. ASSUME NEW reason, NEW failures, Completed(q, reason, failures, o)
        PROVE  \E a, w : Flows(a) /\ handle_command(a, w, o)
    BY <1>10, <2>3, CompletedFlows DEF Completed
  <2> QED BY <1>12, <2>2, <2>3 DEF RequestEnds
<1>13. ASSUME NEW c \in ToolCalls, ToolEnds(c, o)
       PROVE  \E a, w : Flows(a) /\ handle_command(a, w, o)
  <2>1. PICK outcome : ToolReports(c, outcome, o)
    BY <1>13 DEF ToolEnds
  <2> DEFINE a == IF outcome = "Completed" THEN tool_completed(agent, c, o)
                  ELSE tool_failed(agent, c, outcome, o)
             w == [Tasks EXCEPT !.tools[c] = "ended"]
  <2>2. handle_command(a, w, o)
    BY <2>1 DEF ToolReports
  <2>3. Flows(a)
    BY ToolResultFlows
  <2> HIDE DEF a, w
  <2> QED BY <2>2, <2>3
<1>14. ASSUME NEW v \in evaluations, EvaluationEnds(v, o)
       PROVE  \E a, w : Flows(a) /\ handle_command(a, w, o)
  <2>1. PICK failures : EvaluationReports(v, failures, o)
    BY <1>14 DEF EvaluationEnds
  <2> DEFINE a == completion_evaluated(agent, v.run, v.attempt, failures, o)
             w == [Tasks EXCEPT !.evaluations = @ \ {v}]
  <2>2. handle_command(a, w, o)
    BY <2>1 DEF EvaluationReports
  <2>3. Idles(agent, a) \/ Inquires(agent, a)
    BY <1>1, CompletionEvaluatedMoves
  <2> HIDE DEF a, w
  <2>4. Flows(a)
    BY <2>3, MovesFlows
  <2> QED BY <2>2, <2>4
<1>15. ASSUME NEW k \in Children, ChildReported(k, o)
       PROVE  \E a, w : Flows(a) /\ handle_command(a, w, o)
  <2>1. Flows(child_ended(agent, k))
    BY <1>1, ChildEndedIdles, IdlesFlows
  <2> QED BY <1>15, <2>1 DEF ChildReported
<1> QED BY <1>3, <1>4, <1>5, <1>6, <1>7, <1>8, <1>9, <1>11, <1>12, <1>13, <1>14, <1>15 DEF HostStep

\* The call the loop answers itself, after the agent has gone to s.
LEMMA AnswerSpawnCallFlows ==
    ASSUME IInv, CallsInv, NEW s, NEW o, Idles(agent, s)
    PROVE  Flows(AnswerSpawnCall(s, o))
<1> DEFINE t == AnswerSpawnCall(s, o)
<1>1. loop.call \in ToolCalls \cup {NoCall}
  <2>1. loop \in LoopStates
    BY DEF IInv, TypeOK
  <2> QED BY <2>1, Zenon DEF LoopStates
<1>2. s \in AgentStates /\ Flows(s)
  BY IdlesType, IdlesFlows
<1>3. t = s \/ \E c \in ToolCalls : t = tool_completed(s, c, o)
  BY <1>1 DEF AnswerSpawnCall
<1>4. t = s \/ \E c \in ToolCalls : c \in s.pending_tools /\ Replies(s, t, c)
  BY <1>2, <1>3, ToolCompletedReplies
<1> HIDE DEF t
<1>5. ASSUME NEW c \in ToolCalls, c \in s.pending_tools, Replies(s, t, c) PROVE Flows(t)
  <2>1. Balanced(t)
    BY <1>2, <1>5, RepliesBalanced DEF Flows
  <2>2. /\ t.queued_inputs = s.queued_inputs /\ t.next_run = s.next_run
        /\ Finishes(t) => Finishes(s) \/ t.active_run = NoRun
        /\ s.active_run = NoRun => t.active_run = NoRun
    BY <1>5, RepliesKeep
  <2>3. s.queued_inputs = agent.queued_inputs /\ s.next_run = agent.next_run
    BY DEF Idles, Keeps
  <2>4. Finishes(t) => t.active_run = NoRun
    BY <1>2, <2>2 DEF Flows
  <2> QED BY <2>1, <2>2, <2>3, <2>4 DEF Flows
<1> QED BY <1>2, <1>4, <1>5 DEF t

LEMMA SpawnStepsFlow ==
    ASSUME IInv, CallsInv, NEW o,
           \/ SpawnRefused(o) \/ await_child(o)
           \/ \E k \in Children, awaiting \in BOOLEAN : SpawnAdmitted(k, awaiting, o)
    PROVE  \E a, b, w, l, broken : Flows(a) /\ Flows(b) /\ Dispatch(a, b, w, l, broken)
<1>1. agent \in AgentStates
  BY DEF IInv, TypeOK
<1>2. CASE SpawnRefused(o)
  <2> DEFINE a == AnswerSpawnCall(agent, o)
  <2>1. Flows(a) /\ Dispatch(a, a, Tasks, AfterSpawn, Ended(TRUE))
    BY <1>1, <1>2, IdlesReflexive, AnswerSpawnCallFlows DEF SpawnRefused
  <2> HIDE DEF a
  <2> QED BY <2>1
<1>3. CASE await_child(o)
  <2> DEFINE a == IF kids[loop.child] = "lost" THEN child_ended(agent, loop.child) ELSE agent
             b == AnswerSpawnCall(a, o)
  <2>1. Idles(agent, a)
    BY <1>1, IdlesReflexive, ChildEndedIdles
  <2>2. Dispatch(a, b, Tasks, AfterSpawn, Ended(TRUE))
    BY <1>3 DEF await_child
  <2> HIDE DEF a
  <2>3. Flows(a) /\ Flows(b)
    BY <2>1, IdlesFlows, AnswerSpawnCallFlows
  <2> HIDE DEF b
  <2> QED BY <2>2, <2>3
<1>4. ASSUME NEW k \in Children, NEW awaiting \in BOOLEAN, SpawnAdmitted(k, awaiting, o)
      PROVE  \E a, b, w, l, broken : Flows(a) /\ Flows(b) /\ Dispatch(a, b, w, l, broken)
  <2> DEFINE a == child_spawned(agent, k, awaiting)
             w == [Tasks EXCEPT !.kids[k] = IF shutdown THEN "cancelled" ELSE "running"]
             b == AnswerSpawnCall(a, o)
             A(fatal) == Loop("awaiting", loop.call, k, fatal)
  <2>1. \/ Dispatch(a, a, w, A(loop.fatal), A(TRUE))
        \/ Dispatch(a, b, w, AfterSpawn, Ended(TRUE))
    BY <1>4 DEF SpawnAdmitted
  <2>2. Idles(agent, a)
    BY <1>1, ChildSpawnedIdles
  <2> HIDE DEF a, w, A
  <2>3. Flows(a) /\ Flows(b)
    BY <2>2, IdlesFlows, AnswerSpawnCallFlows
  <2> HIDE DEF b
  <2> QED BY <2>1, <2>3
<1> QED BY <1>2, <1>3, <1>4

LEMMA StopOnCancelFlows ==
    ASSUME IInv, CallsInv, StopOnCancel
    PROVE  \E a, b, w, l, broken : Flows(a) /\ Flows(b) /\ Dispatch(a, b, w, l, broken)
<1> DEFINE a == IF agent.status \in {"Cancelled", "Failed"} THEN agent ELSE cancel(agent)
<1>1. Flows(a)
  BY NothingYet, IdlesReflexive, IdlesFlows, CancelFlows
<1>2. Dispatch(a, a, Tasks, Ended(loop.fatal), Ended(TRUE))
  BY DEF StopOnCancel
<1> HIDE DEF a
<1> QED BY <1>1, <1>2

\* The steps of the tasks and of the host that leave the agent and the history alone.
Aside ==
    \/ \E q \in requests : RequestVanishes(q)
    \/ \E c \in ToolCalls : ToolVanishes(c)
    \/ \E v \in evaluations : EvaluationVanishes(v)
    \/ \E k \in Children : ChildEnds(k) \/ ChildDies(k)
    \/ CancelSession \/ CloseMailbox
    \/ UNCHANGED vars

LEMMA AsideLeaves ==
    ASSUME Aside
    PROVE  agent' = agent /\ stranded' = stranded /\ asked' = asked
BY DEF Aside, RequestVanishes, ToolVanishes, EvaluationVanishes, ChildEnds, ChildDies,
       CancelSession, CloseMailbox, vars, history

\* A step reduces a command, lets the loop end a spawn or a session, or leaves all aside.
LEMMA StepsAre ==
    ASSUME [Next]_vars
    PROVE  \/ \E o : \/ HostStep(o)
                     \/ \E c \in ToolCalls, yes \in BOOLEAN : ResolvePermission(c, yes, o)
                     \/ \E q \in requests : RequestStreams(q, o) \/ RequestEnds(q, o)
                     \/ \E c \in ToolCalls : ToolEnds(c, o)
                     \/ \E v \in evaluations : EvaluationEnds(v, o)
                     \/ \E k \in Children : ChildReported(k, o)
           \/ \E o : \/ SpawnRefused(o) \/ await_child(o)
                     \/ \E k \in Children, awaiting \in BOOLEAN : SpawnAdmitted(k, awaiting, o)
           \/ StopOnCancel
           \/ Aside
BY DEF Next, Aside

LEMMA StepFlows ==
    ASSUME IInv, CallsInv, [Next]_vars
    PROVE  CallsInv' /\ InOrder(agent')
<1>1. ASSUME NEW a, NEW b, NEW w, NEW l, NEW broken, Flows(a), Flows(b), Dispatch(a, b, w, l, broken)
      PROVE  CallsInv' /\ InOrder(agent')
  BY <1>1, FlowsInOrder, DispatchFlows DEF Flows
<1>2. CASE Aside
  <2>1. agent.next_run \in Nat
    BY FieldTypes DEF IInv, TypeOK
  <2> QED BY <1>2, <2>1, AsideLeaves DEF CallsInv, Balanced, InOrder
<1> QED BY <1>1, <1>2, StepsAre, CommandsFlow, HandleCommandFlows, SpawnStepsFlow, StopOnCancelFlows

LEMMA InitCalls ==
    ASSUME Init
    PROVE  CallsInv
<1>1. agent \in AgentStates /\ agent.messages = <<>> /\ agent.pending_tools = {} /\ agent.fx = <<>>
  BY NewAgentType DEF Init, NewAgent
<1>2. CallsIn(agent.messages) = {} /\ Answers(agent.messages) = {}
  BY <1>1 DEF CallsIn, Declarations, Answers, CallsOf
<1>3. stranded = {} /\ Drops(agent) = {}
  BY <1>1, DroppedNothing DEF Init
<1> QED BY <1>1, <1>2, <1>3 DEF CallsInv, Balanced

(***************************************************************************)
(* No result, refusal, cancellation or refused commit loses a call of the  *)
(* transcript: it is answered, still pending, or known to have been        *)
(* dropped.                                                                *)
(***************************************************************************)
THEOREM CallsKeptTrackOf == Spec => []CallsAccountedFor
<1>1. IInv /\ CallsInv /\ [Next]_vars => CallsInv'
  BY StepFlows
<1> QED BY <1>1, InitCalls, InvariantHolds, CallsInvSound, PTL DEF Spec

(***************************************************************************)
(* start_or_queue and start_next_queued_run serve the inputs that wait in  *)
(* the order they were given, and lose none, whatever finishes the runs    *)
(* between them.                                                           *)
(***************************************************************************)
THEOREM InputsInOrder == Spec => InputsServedInOrder
<1> DEFINE Step == LET queue == agent.queued_inputs
                       served == queue # <<>> /\ agent'.queued_inputs = Tail(queue)
                   IN /\ \/ agent'.queued_inputs = queue \/ served
                         \/ \E i \in unsent \ unsent' : agent'.queued_inputs = Append(queue, i)
                      /\ RunStarts /\ Active => served
<1>1. IInv /\ CallsInv /\ [Next]_vars => CallsInv' /\ [Step]_vars
  BY StepFlows DEF InOrder, RunStarts
<1> QED BY <1>1, InitCalls, InvariantHolds, PTL DEF Spec, InputsServedInOrder

-----------------------------------------------------------------------------
(***************************************************************************)
(* The requests of the run and their tokens.                               *)
(***************************************************************************)
\* r is a run that has been started, or no run.
Known(r, s) == r \in Nat /\ r < s.next_run

\* With the requests R out: at most one is for the run, one is out or about to be sent
\* exactly if backend_in_flight says so, and nothing hangs up on it.
FlightOK(s, R) ==
    /\ \A q \in R : q.run # NoRun /\ Known(q.run, s)
    /\ Known(s.active_run, s)
    /\ \A h \in Hangups(s) : Known(h.run, s) /\ (h.run # s.active_run \/ s.active_run = NoRun)
    /\ \A e \in Queries(s) : e.run = s.active_run /\ s.active_run # NoRun
    /\ s.active_run # NoRun =>
         /\ s.backend_in_flight <=> (Queries(s) # {} \/ \E q \in R : q.run = s.active_run)
         /\ Queries(s) # {} => \A q \in R : q.run # s.active_run
         /\ \A q1, q2 \in R : q1.run = s.active_run /\ q2.run = s.active_run => q1 = q2
         /\ \A e1, e2 \in Queries(s) : e1 = e2
    /\ s.status = "Verifying" => ~s.backend_in_flight
    /\ \A q \in R : q.run = s.active_run => q.token = "held"

Calm(s, R) == s \in AgentStates /\ FlightOK(s, R) /\ Queries(s) = {}

LEMMA IdlesCalm ==
    ASSUME NEW s, NEW t, NEW R, Calm(s, R), Idles(s, t)
    PROVE  Calm(t, R)
<1>1. /\ t \in AgentStates /\ t.next_run = s.next_run /\ Queries(t) = {} /\ Hangups(t) = Hangups(s)
      /\ t.active_run \in {s.active_run, NoRun}
      /\ t.active_run = NoRun \/ t.backend_in_flight = s.backend_in_flight
      /\ t.status = "Verifying" => s.status = "Verifying"
  BY DEF Idles, Keeps, Calm
<1>2. t.backend_in_flight \in {s.backend_in_flight, FALSE}
  BY DEF Idles
<1>3. s.next_run \in Nat /\ s.active_run \in Nat /\ NoRun = 0
  BY FieldTypes DEF Calm, NoRun
<1>4. t.status = "Verifying" => ~t.backend_in_flight
  BY <1>1, <1>2 DEF Calm, FlightOK
<1>5. Known(t.active_run, t)
  BY <1>1, <1>3 DEF Calm, FlightOK, Known
<1>6. \A h \in Hangups(t) : Known(h.run, t) /\ (h.run # t.active_run \/ t.active_run = NoRun)
  BY <1>1 DEF Calm, FlightOK, Known
<1>7. \A q \in R : /\ q.run # NoRun /\ Known(q.run, t)
                   /\ q.run = t.active_run => q.token = "held"
  BY <1>1 DEF Calm, FlightOK, Known
<1>8. t.active_run # NoRun =>
        /\ t.backend_in_flight <=> \E q \in R : q.run = t.active_run
        /\ \A q1, q2 \in R : q1.run = t.active_run /\ q2.run = t.active_run => q1 = q2
  BY <1>1 DEF Calm, FlightOK
<1> QED BY <1>1, <1>4, <1>5, <1>6, <1>7, <1>8 DEF Calm, FlightOK

\* The same for a step that changes neither the run nor its requests.
LEMMA SameCalm ==
    ASSUME NEW s, NEW t, NEW R, Calm(s, R), t \in AgentStates, t.next_run = s.next_run,
           Queries(t) = Queries(s), Hangups(t) = Hangups(s), t.active_run = s.active_run,
           t.backend_in_flight = s.backend_in_flight, t.status = "Verifying" => s.status = "Verifying"
    PROVE  Calm(t, R)
BY DEF Calm, FlightOK, Known

LEMMA InquiresFlight ==
    ASSUME NEW s, NEW t, NEW R, Calm(s, R), Inquires(s, t), ~s.backend_in_flight
    PROVE  FlightOK(t, R)
<1>1. /\ t.next_run = s.next_run /\ Hangups(t) = Hangups(s) /\ t.active_run = s.active_run
      /\ s.active_run # NoRun /\ t.status # "Verifying"
  BY DEF Inquires, Keeps
<1>2. PICK id \in Nat : Queries(t) = {ExecuteBackend(id, s.active_run)}
  BY DEF Inquires, Calm
<1>3. t.backend_in_flight = TRUE
  BY DEF Inquires
<1>4. \A q \in R : q.run # s.active_run
  BY <1>1 DEF Calm, FlightOK
<1>5. ExecuteBackend(id, s.active_run).run = s.active_run
  BY DEF ExecuteBackend
<1> QED BY <1>1, <1>2, <1>3, <1>4, <1>5 DEF Calm, FlightOK, Known

LEMMA MovesFlight ==
    ASSUME NEW s, NEW t, NEW R, Calm(s, R), Moves(s, t)
    PROVE  FlightOK(t, R)
BY IdlesCalm, InquiresFlight DEF Moves, Calm

LEMMA BeginsFlight ==
    ASSUME NEW s, NEW t, NEW R, Calm(s, R), s.active_run = NoRun, Begins(s, t)
    PROVE  FlightOK(t, R)
<1>1. s.next_run \in Nat /\ NoRun = 0 /\ s.next_run > 0
  BY FieldTypes DEF Calm, NoRun, FlightOK, Known
<1>2. CASE Idles(s, t)
  BY <1>2, IdlesCalm DEF Calm
<1>3. ASSUME NEW u, Opens(s, u), (Idles(u, t) /\ t.active_run = NoRun) \/ Inquires(u, t)
      PROVE  FlightOK(t, R)
  <2>1. /\ u.next_run = s.next_run + 1 /\ u.active_run = s.next_run /\ Hangups(u) = Hangups(s)
        /\ Queries(u) = {} /\ u.status # "Verifying"
    BY <1>3 DEF Opens, Calm
  <2>2. t.next_run = s.next_run + 1 /\ Hangups(t) = Hangups(s)
    BY <1>3, <2>1 DEF Idles, Inquires, Keeps
  <2>3. /\ \A q \in R : q.run # NoRun /\ q.run # s.next_run /\ Known(q.run, t)
        /\ \A h \in Hangups(t) : h.run # s.next_run /\ Known(h.run, t)
    BY <1>1, <2>2 DEF Calm, FlightOK, Known
  <2>4. CASE Idles(u, t) /\ t.active_run = NoRun
    <3>1. Queries(t) = {} /\ t.status # "Verifying"
      BY <2>1, <2>4 DEF Idles
    <3>2. Known(t.active_run, t)
      BY <1>1, <2>2, <2>4 DEF Known
    <3> QED BY <2>3, <2>4, <3>1, <3>2 DEF FlightOK
  <2>5. CASE Inquires(u, t)
    <3>1. t.active_run = s.next_run /\ t.status # "Verifying"
      BY <2>1, <2>5 DEF Inquires
    <3>2. PICK id \in Nat : Queries(t) = {ExecuteBackend(id, s.next_run)}
      BY <2>1, <2>5 DEF Inquires
    <3>3. t.backend_in_flight = TRUE
      BY <2>5 DEF Inquires
    <3>4. ExecuteBackend(id, s.next_run).run = s.next_run
      BY DEF ExecuteBackend
    <3>5. Known(t.active_run, t)
      BY <1>1, <2>2, <3>1 DEF Known
    <3> QED BY <1>1, <2>3, <3>1, <3>2, <3>3, <3>4, <3>5 DEF FlightOK
  <2> QED BY <1>3, <2>4, <2>5
<1> QED BY <1>2, <1>3 DEF Begins

\* The request q is over, or goes on as p.
LEMMA ReplacedFlight ==
    ASSUME NEW s, NEW R, NEW q \in R, NEW p, Calm(s, R), p.run = q.run, p.token = q.token
    PROVE  Calm(s, (R \ {q}) \cup {p})
<1> DEFINE S == (R \ {q}) \cup {p}
<1>1. \A x \in S : \E y \in R : x.run = y.run /\ x.token = y.token
  OBVIOUS
<1>2. \A y \in R : \E x \in S : x.run = y.run
  OBVIOUS
<1>3. s.active_run # NoRun =>
        \A q1, q2 \in S : q1.run = s.active_run /\ q2.run = s.active_run => q1 = q2
  BY DEF Calm, FlightOK
<1> HIDE DEF S
<1>4. Calm(s, S)
  BY <1>1, <1>2, <1>3 DEF Calm, FlightOK
<1> QED BY <1>4 DEF S

LEMMA StrayEndsFlight ==
    ASSUME NEW s, NEW R, NEW q \in R, Calm(s, R), q.run # s.active_run
    PROVE  Calm(s, R \ {q})
BY DEF Calm, FlightOK

LEMMA StoppedFlight ==
    ASSUME NEW s, NEW R, NEW S, S \subseteq R, Calm(s, R), s.active_run = NoRun
    PROVE  Calm(s, S)
BY DEF Calm, FlightOK

LEMMA ClosesCalm ==
    ASSUME NEW s, NEW u, NEW R, NEW q \in R, Calm(s, R), q.run = s.active_run, Closes(s, u)
    PROVE  Calm(u, R \ {q}) /\ ~u.backend_in_flight
<1>1. /\ u \in AgentStates /\ u.next_run = s.next_run /\ Hangups(u) = Hangups(s) /\ Queries(u) = {}
      /\ u.active_run = s.active_run
  BY DEF Closes, Keeps, Calm
<1>2. u.backend_in_flight = FALSE
  BY DEF Closes
<1>3. \A p \in R \ {q} : p.run # s.active_run
  BY DEF Calm, FlightOK
<1> QED BY <1>1, <1>2, <1>3 DEF Calm, FlightOK, Known

LEMMA VerifiesCalm ==
    ASSUME NEW s, NEW t, NEW R, Calm(s, R), ~s.backend_in_flight, Verifies(s, t)
    PROVE  Calm(t, R)
<1>1. /\ t \in AgentStates /\ t.next_run = s.next_run /\ Hangups(t) = Hangups(s) /\ Queries(t) = {}
      /\ t.active_run = s.active_run
  BY DEF Verifies, Keeps, Calm
<1>2. t.backend_in_flight = s.backend_in_flight
  BY DEF Verifies
<1> QED BY <1>1, <1>2 DEF Calm, FlightOK, Known

LEMMA CancelsCalm ==
    ASSUME NEW s, NEW t, NEW R, Calm(s, R), Cancels(s, t)
    PROVE  Calm(t, R)
<1>1. /\ t \in AgentStates /\ t.next_run = s.next_run /\ Queries(t) = {} /\ t.active_run = NoRun
      /\ t.status # "Verifying"
      /\ \A h \in Hangups(t) : h \in Hangups(s) \/ h.run = s.active_run
  BY DEF Cancels, Calm
<1>2. s.next_run \in Nat /\ NoRun = 0 /\ Known(NoRun, t)
  BY <1>1, FieldTypes DEF Calm, NoRun, FlightOK, Known
<1>3. \A h \in Hangups(t) : Known(h.run, t)
  BY <1>1 DEF Calm, FlightOK, Known
<1>4. \A q \in R : q.run # NoRun /\ Known(q.run, t)
  BY <1>1 DEF Calm, FlightOK, Known
<1> QED BY <1>1, <1>2, <1>3, <1>4 DEF Calm, FlightOK

LEMMA AnsweredCalm ==
    ASSUME NEW s, NEW t, NEW R, NEW c, Calm(s, R), Answered(s, t, c)
    PROVE  Calm(t, R)
BY SameCalm DEF Answered

LEMMA DeclaresCalm ==
    ASSUME NEW s, NEW t, NEW R, NEW c, Calm(s, R), Declares(s, t, c)
    PROVE  Calm(t, R)
BY SameCalm DEF Declares

LEMMA RequeuesCalm ==
    ASSUME NEW s, NEW t, NEW R, Calm(s, R), Requeues(s, t)
    PROVE  Calm(t, R)
BY SameCalm DEF Requeues, Queries, Hangups

LEMMA RepliesFlight ==
    ASSUME NEW s, NEW t, NEW R, NEW c, Calm(s, R), Replies(s, t, c)
    PROVE  FlightOK(t, R)
BY AnsweredCalm, MovesFlight DEF Replies

\* While the request is out, a result asks nothing.
LEMMA HandlesInFlight ==
    ASSUME NEW s, NEW t, NEW R, NEW c, Calm(s, R), s.backend_in_flight, Handles(s, t, c)
    PROVE  Calm(t, R)
<1>1. ASSUME NEW v, Replies(s, v, c) PROVE Calm(v, R)
  <2>1. PICK u : Answered(s, u, c) /\ Moves(u, v)
    BY <1>1 DEF Replies
  <2>2. u.backend_in_flight = s.backend_in_flight
    BY <2>1 DEF Answered
  <2>3. Idles(u, v)
    BY <2>1, <2>2 DEF Moves
  <2> QED BY <2>1, <2>3, AnsweredCalm, IdlesCalm
<1> QED BY <1>1, IdlesCalm DEF Handles

-----------------------------------------------------------------------------
(***************************************************************************)
(* The budget of the run.                                                  *)
(***************************************************************************)
\* What had been asked for the run of s before this step.
Base(s) == IF s.next_run = agent.next_run THEN asked ELSE 0

Rest(s) ==
    /\ s \in AgentStates /\ Queries(s) = {} /\ s.next_run >= agent.next_run
    /\ Budget(s, Base(s))

Priced(s) == s \in AgentStates /\ Budget(s, Base(s) + Cardinality(Queries(s)))

LEMMA BaseType == IInv => \A s : Base(s) \in Nat
BY DEF IInv, TypeOK, Base

LEMMA SameRest ==
    ASSUME IInv, NEW s, NEW t, Rest(s), t \in AgentStates, Queries(t) = Queries(s),
           t.next_run = s.next_run, \A n \in Nat : Budget(s, n) => Budget(t, n)
    PROVE  Rest(t)
<1>1. Base(t) = Base(s) /\ Base(s) \in Nat
  BY BaseType DEF Base
<1> QED BY <1>1 DEF Rest

LEMMA RestPriced ==
    ASSUME IInv, NEW s, Rest(s)
    PROVE  Priced(s)
<1>1. Base(s) \in Nat /\ Cardinality({}) = 0
  BY BaseType, FS_EmptySet
<1>2. Base(s) + 0 = Base(s)
  BY <1>1
<1> QED BY <1>1, <1>2 DEF Rest, Priced

\* One request more, which t has paid for.
LEMMA InquiresPriced ==
    ASSUME IInv, NEW s, NEW t, Rest(s), Inquires(s, t)
    PROVE  Priced(t)
<1>1. Base(s) \in Nat /\ Base(t) = Base(s)
  BY BaseType DEF Base, Inquires, Keeps
<1>2. PICK id \in Nat : Queries(t) = {ExecuteBackend(id, s.active_run)}
  BY DEF Inquires, Rest
<1>3. Cardinality(Queries(t)) = 1
  BY <1>2, FS_Singleton
<1>4. Budget(t, Base(s) + 1)
  BY <1>1 DEF Inquires, Rest
<1> QED BY <1>1, <1>3, <1>4 DEF Priced, Inquires, Keeps

LEMMA OpensRest ==
    ASSUME IInv, NEW s, NEW u, Rest(s), Opens(s, u)
    PROVE  Rest(u)
<1>1. agent.next_run \in Nat /\ s.next_run \in Nat /\ s.next_run >= agent.next_run
  BY FieldTypes DEF IInv, TypeOK, Rest
<1>2. u.next_run = s.next_run + 1
  BY DEF Opens
<1>3. Base(u) = 0 /\ u.next_run >= agent.next_run
  BY <1>1, <1>2 DEF Base
<1> QED BY <1>3 DEF Opens, Rest

-----------------------------------------------------------------------------
\* A reduction under way, and at its end.
Steady(s, R) == Rest(s) /\ (~shutdown => Calm(s, R))
Flies(s, R) == Priced(s) /\ (~shutdown => FlightOK(s, R))

LEMMA SteadyFlies ==
    ASSUME IInv, NEW s, NEW R, Steady(s, R)
    PROVE  Flies(s, R)
BY RestPriced DEF Steady, Flies, Calm

LEMMA IdlesSteady ==
    ASSUME IInv, NEW s, NEW t, NEW R, Steady(s, R), Idles(s, t)
    PROVE  Steady(t, R)
BY SameRest, IdlesCalm DEF Steady, Idles, Keeps

LEMMA RequeuesSteady ==
    ASSUME IInv, NEW s, NEW t, NEW R, Steady(s, R), Requeues(s, t)
    PROVE  Steady(t, R)
<1>1. \A n \in Nat : Budget(s, n) => Budget(t, n)
  BY SameBudget DEF Requeues
<1>2. Queries(t) = Queries(s)
  BY DEF Requeues, Queries
<1> QED BY <1>1, <1>2, SameRest, RequeuesCalm DEF Steady, Requeues

LEMMA AnsweredSteady ==
    ASSUME IInv, NEW s, NEW t, NEW R, NEW c, Steady(s, R), Answered(s, t, c)
    PROVE  Steady(t, R)
BY SameRest, AnsweredCalm DEF Steady, Answered

LEMMA DeclaresSteady ==
    ASSUME IInv, NEW s, NEW t, NEW R, NEW c, Steady(s, R), Declares(s, t, c)
    PROVE  Steady(t, R)
BY SameRest, DeclaresCalm DEF Steady, Declares

LEMMA CancelsSteady ==
    ASSUME IInv, NEW s, NEW t, NEW R, Steady(s, R), Cancels(s, t)
    PROVE  Steady(t, R)
BY SameRest, CancelsCalm DEF Steady, Cancels

LEMMA MovesFlies ==
    ASSUME IInv, NEW s, NEW t, NEW R, Steady(s, R), Moves(s, t)
    PROVE  Flies(t, R)
<1>1. CASE Idles(s, t)
  BY <1>1, IdlesSteady, SteadyFlies
<1>2. CASE Inquires(s, t)
  BY <1>2, InquiresPriced, MovesFlight DEF Steady, Flies
<1> QED BY <1>1, <1>2 DEF Moves

LEMMA RepliesFlies ==
    ASSUME IInv, NEW s, NEW t, NEW R, NEW c, Steady(s, R), Replies(s, t, c)
    PROVE  Flies(t, R)
BY AnsweredSteady, MovesFlies DEF Replies

LEMMA BeginsFlies ==
    ASSUME IInv, NEW s, NEW t, NEW R, Steady(s, R), s.active_run = NoRun, Begins(s, t)
    PROVE  Flies(t, R)
<1>1. ~shutdown => FlightOK(t, R)
  BY BeginsFlight DEF Steady
<1>2. ASSUME NEW u, Rest(u), Idles(u, t) \/ Inquires(u, t) PROVE Priced(t)
  BY <1>2, SameRest, RestPriced, InquiresPriced DEF Idles, Keeps
<1>3. Priced(t)
  BY <1>2, OpensRest DEF Begins, Steady
<1> QED BY <1>1, <1>3 DEF Flies

\* While the request is out, a result asks nothing.
LEMMA HandlesSteady ==
    ASSUME IInv, NEW s, NEW t, NEW R, NEW c, Steady(s, R), s.backend_in_flight, Handles(s, t, c)
    PROVE  Steady(t, R)
<1>1. ASSUME NEW v, Replies(s, v, c) PROVE Steady(v, R)
  <2>1. PICK u : Answered(s, u, c) /\ Moves(u, v)
    BY <1>1 DEF Replies
  <2>2. u.backend_in_flight = s.backend_in_flight
    BY <2>1 DEF Answered
  <2>3. Idles(u, v)
    BY <2>1, <2>2 DEF Moves
  <2> QED BY <2>1, <2>3, AnsweredSteady, IdlesSteady
<1> QED BY <1>1, IdlesSteady DEF Handles

\* The next queued run, after a has finished the last one.
LEMMA NextRunFlies ==
    ASSUME IInv, NEW a, NEW R, NEW o, Flies(a, R), ~shutdown, Finishes(a), a.active_run = NoRun,
           a.next_run >= agent.next_run
    PROVE  LET b == start_next_queued_run(a, o) IN Flies(b, R) /\ Extends(a, b)
<1> DEFINE b == start_next_queued_run(a, o)
<1>1. a \in AgentStates
  BY DEF Flies, Priced
<1>2. Queries(a) = {}
  BY DEF Flies, FlightOK
<1>3. Steady(a, R)
  <2>1. Base(a) + Cardinality({}) = Base(a)
    BY BaseType, FS_EmptySet
  <2> QED BY <1>1, <1>2, <2>1 DEF Flies, Priced, Steady, Rest, Calm
<1>4. b = a \/ \E u : Requeues(a, u) /\ Begins(u, b)
  BY <1>1, StartNextQueuedRunBegins
<1> HIDE DEF b
<1>5. ASSUME NEW u, Requeues(a, u), Begins(u, b) PROVE Flies(b, R) /\ Extends(a, b)
  <2>1. Steady(u, R) /\ u.active_run = NoRun
    BY <1>3, <1>5, RequeuesSteady DEF Requeues
  <2>2. Extends(a, u)
    BY <1>5 DEF Requeues, Extends
  <2>3. Extends(u, b)
    BY <1>5 DEF Begins, Opens, Idles, Inquires, Keeps, Extends
  <2> QED BY <1>5, <2>1, <2>2, <2>3, BeginsFlies DEF Extends
<1>6. Extends(a, a)
  BY DEF Extends
<1> QED BY <1>4, <1>5, <1>6 DEF b

-----------------------------------------------------------------------------
(***************************************************************************)
(* The invariant, and what carrying out effects does to it.                *)
(***************************************************************************)
FlightInv == ~shutdown /\ loop.at # "stopped" => FlightOK(agent, requests)

\* The tasks w once the runner's token has fired, and the tokens at any time.
Tidy(w) ==
    /\ shutdown => /\ \A q \in w.requests : q.token = "cancelled"
                   /\ \A c \in ToolCalls : w.tools[c] # "running"
    /\ \A q \in w.requests : q.token # "lost"

TokenInv == Tidy(Tasks)

\* Only the active run may have work that is not cancelled.
Clean ==
    /\ agent.pending_tools = {}
    /\ \A c \in ToolCalls : tools[c] # "running"
    /\ \A q \in requests : q.token = "cancelled" \/ q.run = agent.active_run

FatalInv == loop.fatal => Clean /\ (loop.at = "ready" => agent.active_run = NoRun)

StoppedInv ==
    LongLived /\ loop.at = "stopped" /\ ~loop.fatal =>
        /\ \A q \in requests : q.token = "cancelled"
        /\ \A c \in ToolCalls : tools[c] # "running"

BudgetInv == Budget(agent, asked)

JInv == FlightInv /\ TokenInv /\ FatalInv /\ StoppedInv /\ BudgetInv

TokenOf(q, E) ==
    IF CancelBackend(q.run) \in E THEN Cancelled(q.token)
    ELSE IF q.token = "held" /\ (\E e \in OfKind(E, "ExecuteBackend") : e.run = q.run)
    THEN "lost" ELSE q.token

NewTask(e) == [id |-> e.id, run |-> e.run, called |-> FALSE, token |-> NewToken]

LEMMA RequestsAfter ==
    ASSUME NEW w, NEW E, w.requests \subseteq RequestTasks
    PROVE  /\ \A p \in execute_backend(w, E) :
                \/ \E q \in w.requests : /\ p = [q EXCEPT !.token = TokenOf(q, E)]
                                         /\ p.run = q.run /\ p.token = TokenOf(q, E)
                \/ \E e \in OfKind(E, "ExecuteBackend") :
                     p = NewTask(e) /\ p.run = e.run /\ p.token = NewToken
           /\ \A q \in w.requests : \E p \in execute_backend(w, E) : p.run = q.run
           /\ \A e \in OfKind(E, "ExecuteBackend") : \E p \in execute_backend(w, E) : p.run = e.run
<1>1. \A q \in RequestTasks : \A token : LET p == [q EXCEPT !.token = token]
                                          IN p.run = q.run /\ p.token = token
  BY Zenon DEF RequestTasks
<1>2. \A e : NewTask(e).run = e.run /\ NewTask(e).token = NewToken
  BY DEF NewTask
<1>3. execute_backend(w, E) = {[q EXCEPT !.token = TokenOf(q, E)] : q \in w.requests}
                              \cup {NewTask(e) : e \in OfKind(E, "ExecuteBackend")}
  BY DEF execute_backend, TokenOf, NewTask
<1> HIDE DEF NewTask, TokenOf
<1>4. ASSUME NEW q \in w.requests
      PROVE  LET p == [q EXCEPT !.token = TokenOf(q, E)] IN p.run = q.run /\ p.token = TokenOf(q, E)
  <2>1. q \in RequestTasks
    BY <1>4
  <2> QED BY <1>1, <2>1
<1>5. ASSUME NEW p \in execute_backend(w, E)
      PROVE  \/ \E q \in w.requests : /\ p = [q EXCEPT !.token = TokenOf(q, E)]
                                      /\ p.run = q.run /\ p.token = TokenOf(q, E)
             \/ \E e \in OfKind(E, "ExecuteBackend") :
                  p = NewTask(e) /\ p.run = e.run /\ p.token = NewToken
  <2>1. \/ \E q \in w.requests : p = [q EXCEPT !.token = TokenOf(q, E)]
        \/ \E e \in OfKind(E, "ExecuteBackend") : p = NewTask(e)
    BY <1>3, <1>5, Zenon
  <2> QED BY <1>2, <1>4, <2>1, Zenon
<1>6. \A q \in w.requests : \E p \in execute_backend(w, E) : p.run = q.run
  <2> TAKE q \in w.requests
  <2>1. [q EXCEPT !.token = TokenOf(q, E)] \in execute_backend(w, E)
    BY <1>3, Zenon
  <2> QED BY <1>4, <2>1, Zenon
<1>7. \A e \in OfKind(E, "ExecuteBackend") : \E p \in execute_backend(w, E) : p.run = e.run
  <2> TAKE e \in OfKind(E, "ExecuteBackend")
  <2>1. NewTask(e) \in execute_backend(w, E)
    BY <1>3, Zenon
  <2> QED BY <1>2, <2>1, Zenon
<1> QED BY <1>5, <1>6, <1>7

\* A token is cancelled or stays as it is, and the run's own stays.
LEMMA TokensAfter ==
    ASSUME NEW w, NEW x, NEW E, w.requests \subseteq RequestTasks, E \subseteq EffectsIn(x.fx),
           ~shutdown => FlightOK(x, w.requests), Tidy(w), NEW q \in w.requests
    PROVE  /\ TokenOf(q, E) \in {q.token, "cancelled"} /\ TokenOf(q, E) \in {"held", "cancelled"}
           /\ shutdown => TokenOf(q, E) = "cancelled"
           /\ ~shutdown /\ q.run = x.active_run => TokenOf(q, E) = "held"
<1>1. q.token \in {"held", "cancelled"} /\ (shutdown => q.token = "cancelled")
  <2>1. q.token \in Tokens
    BY Zenon DEF RequestTasks
  <2> QED BY <2>1 DEF Tokens, Tidy
<1>2. ASSUME ~shutdown PROVE ~\E e \in OfKind(E, "ExecuteBackend") : e.run = q.run
  <2>1. \A e \in OfKind(E, "ExecuteBackend") : e \in Queries(x)
    BY DEF OfKind, Queries
  <2> QED BY <1>2, <2>1 DEF FlightOK
<1>3. ASSUME ~shutdown, q.run = x.active_run PROVE CancelBackend(q.run) \notin E
  <2>1. CancelBackend(q.run).kind = "CancelBackend" /\ CancelBackend(q.run).run = q.run
    BY DEF CancelBackend
  <2>2. CancelBackend(q.run) \in E => CancelBackend(q.run) \in Hangups(x)
    BY <2>1 DEF Hangups, OfKind
  <2> QED BY <1>3, <2>1, <2>2 DEF FlightOK
<1>4. ~shutdown /\ q.run = x.active_run => q.token = "held"
  BY DEF FlightOK
<1> QED BY <1>1, <1>2, <1>3, <1>4 DEF TokenOf, Cancelled

LEMMA NoEffectsLeft ==
    ASSUME NEW s, s.fx = <<>>
    PROVE  Queries(s) = {} /\ Hangups(s) = {} /\ ~Finishes(s)
BY DEF Queries, Hangups, Finishes, OfKind, EffectsIn

LEMMA FlightAfter ==
    ASSUME NEW b, NEW w, w.requests \subseteq RequestTasks, ~shutdown,
           FlightOK(b, w.requests), Tidy(w), b \in AgentStates
    PROVE  FlightOK([b EXCEPT !.fx = <<>>], execute_backend(w, EffectsIn(b.fx)))
<1> DEFINE t == [b EXCEPT !.fx = <<>>]
           E == EffectsIn(b.fx)
           R == w.requests
           S == execute_backend(w, E)
<1>1. /\ t.fx = <<>> /\ t.next_run = b.next_run /\ t.active_run = b.active_run
      /\ t.status = b.status /\ t.backend_in_flight = b.backend_in_flight
  BY FieldsOfDispatched
<1> HIDE DEF t
<1>2. Queries(t) = {} /\ Hangups(t) = {}
  BY <1>1, NoEffectsLeft
<1>3. \A p \in S : \/ \E q \in R : /\ p = [q EXCEPT !.token = TokenOf(q, E)] /\ p.run = q.run
                                   /\ p.run = b.active_run => p.token = "held"
                   \/ \E e \in Queries(b) : p = NewTask(e) /\ p.run = e.run /\ p.token = "held"
  <2> TAKE p \in S
  <2>1. NewToken = "held" /\ OfKind(E, "ExecuteBackend") = Queries(b)
    BY DEF NewToken, Queries
  <2>2. \A q \in R : q.run = b.active_run => TokenOf(q, E) = "held"
    BY TokensAfter
  <2>3. \/ \E q \in R : /\ p = [q EXCEPT !.token = TokenOf(q, E)]
                        /\ p.run = q.run /\ p.token = TokenOf(q, E)
        \/ \E e \in OfKind(E, "ExecuteBackend") :
             p = NewTask(e) /\ p.run = e.run /\ p.token = NewToken
    <3> HIDE DEF E
    <3>1. \A x \in execute_backend(w, E) :
            \/ \E q \in w.requests : /\ x = [q EXCEPT !.token = TokenOf(q, E)]
                                     /\ x.run = q.run /\ x.token = TokenOf(q, E)
            \/ \E e \in OfKind(E, "ExecuteBackend") :
                 x = NewTask(e) /\ x.run = e.run /\ x.token = NewToken
      BY RequestsAfter
    <3> QED BY <3>1, Zenon
  <2> HIDE DEF S, R, E
  <2>4. ASSUME NEW e \in OfKind(E, "ExecuteBackend") PROVE e \in Queries(b)
    BY <2>1, <2>4
  <2> QED BY <2>1, <2>2, <2>3, <2>4, Zenon
<1>4. /\ \A q \in R : \E p \in S : p.run = q.run
      /\ \A e \in Queries(b) : \E p \in S : p.run = e.run
  BY RequestsAfter DEF Queries
<1> HIDE DEF S, R, E
<1>5. \A p \in S : /\ p.run # NoRun /\ Known(p.run, t)
                   /\ p.run = t.active_run => p.token = "held"
  <2>1. \A q \in R : q.run # NoRun /\ Known(q.run, b)
    BY DEF FlightOK, R
  <2>2. \A e \in Queries(b) : e.run # NoRun /\ Known(e.run, b)
    BY DEF FlightOK
  <2> QED BY <1>1, <1>3, <2>1, <2>2 DEF Known
<1>6. ASSUME t.active_run # NoRun
      PROVE  /\ t.backend_in_flight <=> \E p \in S : p.run = t.active_run
             /\ \A p1, p2 \in S : p1.run = t.active_run /\ p2.run = t.active_run => p1 = p2
  <2>1. /\ b.backend_in_flight <=> (Queries(b) # {} \/ \E q \in R : q.run = b.active_run)
        /\ Queries(b) # {} => \A q \in R : q.run # b.active_run
        /\ \A q1, q2 \in R : q1.run = b.active_run /\ q2.run = b.active_run => q1 = q2
        /\ \A e1, e2 \in Queries(b) : e1 = e2
        /\ \A e \in Queries(b) : e.run = b.active_run
    BY <1>1, <1>6 DEF FlightOK, R
  <2>2. (\E p \in S : p.run = b.active_run) <=> (Queries(b) # {} \/ \E q \in R : q.run = b.active_run)
    BY <1>3, <1>4, <2>1
  <2>3. ASSUME NEW p1 \in S, NEW p2 \in S, p1.run = b.active_run, p2.run = b.active_run PROVE p1 = p2
    BY <1>3, <2>1, <2>3
  <2> QED BY <1>1, <2>1, <2>2, <2>3
<1>7. Known(t.active_run, t) /\ (t.status = "Verifying" => ~t.backend_in_flight)
  BY <1>1 DEF FlightOK, Known
<1>8. FlightOK(t, S)
  BY <1>2, <1>5, <1>6, <1>7 DEF FlightOK
<1> QED BY <1>8 DEF t, S, E

LEMMA DispatchEffectsKeeps ==
    ASSUME IInv, NEW b, NEW w, Reduced(b, approved'), GoodTasks(w), Flies(b, w.requests), Tidy(w),
           shutdown' = shutdown, dispatch_effects(b, w, EffectsIn(b.fx))
    PROVE  /\ ~shutdown => FlightOK(agent', requests')
           /\ TokenInv' /\ BudgetInv' /\ agent'.active_run = b.active_run
           /\ (/\ b.pending_tools = {} /\ \A c \in ToolCalls : w.tools[c] # "running"
               /\ \A q \in w.requests : q.token = "cancelled" \/ q.run = b.active_run) => Clean'
<1> DEFINE E == EffectsIn(b.fx)
<1>1. /\ agent' = [b EXCEPT !.fx = <<>>] /\ requests' = execute_backend(w, E)
      /\ tools' = execute_tool(b, w, E)
      /\ asked' = Base(b) + Cardinality(Queries(b))
  BY DEF dispatch_effects, Base, Queries
<1>2. b \in AgentStates /\ w.requests \subseteq RequestTasks /\ w.tools \in [ToolCalls -> ToolStates]
  BY DEF Reduced, GoodTasks
<1>3. /\ agent'.active_run = b.active_run /\ agent'.pending_tools = b.pending_tools
      /\ agent'.profile = b.profile /\ agent'.switches = b.switches /\ agent'.turns = b.turns
      /\ agent'.final_turn = b.final_turn /\ agent'.final_grace_used = b.final_grace_used
  BY <1>1, <1>2, FieldsOfDispatched
<1>4. ~shutdown => FlightOK(agent', requests')
  BY <1>1, <1>2, FlightAfter DEF Flies
<1>5. BudgetInv'
  <2>1. Budget(b, asked')
    BY <1>1 DEF Flies, Priced
  <2>2. Budget(agent', asked')
    BY <1>3, <2>1, SameBudget
  <2> QED BY <2>2 DEF BudgetInv
<1>6. \A p \in requests' :
        \/ \E q \in w.requests : p.run = q.run /\ p.token = TokenOf(q, E)
        \/ \E e \in OfKind(E, "ExecuteBackend") : p.run = e.run /\ p.token = NewToken
  <2> HIDE DEF E
  <2> QED BY <1>1, <1>2, RequestsAfter
<1>7. \A q \in w.requests : /\ TokenOf(q, E) \in {q.token, "cancelled"}
                            /\ TokenOf(q, E) \in {"held", "cancelled"}
                            /\ shutdown => TokenOf(q, E) = "cancelled"
  BY <1>2, TokensAfter DEF Flies
<1>8. NewToken \in {"held", "cancelled"} /\ (shutdown => NewToken = "cancelled")
  BY DEF NewToken
<1>9. ~shutdown => \A e \in OfKind(E, "ExecuteBackend") : e.run = b.active_run
  BY DEF Flies, FlightOK, Queries
<1>10. \A c \in ToolCalls :
          tools'[c] = "running" => (~shutdown /\ c \in Executed(E)) \/ w.tools[c] = "running"
  BY <1>1 DEF execute_tool
<1>11. Executed(E) \subseteq b.pending_tools
  BY DEF Reduced
<1> HIDE DEF E
<1>12. TokenInv'
  <2>1. \A p \in requests' : p.token # "lost" /\ (shutdown => p.token = "cancelled")
    BY <1>6, <1>7, <1>8
  <2>2. shutdown => \A c \in ToolCalls : tools'[c] # "running"
    BY <1>10 DEF Tidy
  <2>3. Tasks'.requests = requests' /\ Tasks'.tools = tools'
    BY DEF Tasks
  <2> QED BY <2>1, <2>2, <2>3 DEF TokenInv, Tidy
<1>13. ASSUME b.pending_tools = {}, \A c \in ToolCalls : w.tools[c] # "running",
              \A q \in w.requests : q.token = "cancelled" \/ q.run = b.active_run
       PROVE  Clean'
  <2>1. \A p \in requests' : p.token = "cancelled" \/ p.run = agent'.active_run
    BY <1>3, <1>6, <1>7, <1>8, <1>9, <1>13
  <2>2. \A c \in ToolCalls : tools'[c] # "running"
    BY <1>10, <1>11, <1>13
  <2> QED BY <1>3, <1>13, <2>1, <2>2 DEF Clean
<1> QED BY <1>3, <1>4, <1>5, <1>12, <1>13

LEMMA FailFatallyKeeps ==
    ASSUME IInv, NEW x, NEW w, NEW E, Reduced(x, approved'), GoodTasks(w), Flies(x, w.requests),
           Tidy(w), shutdown' = shutdown, E \subseteq EffectsIn(x.fx), fail_fatally(x, w, E)
    PROVE  /\ ~shutdown => FlightOK(agent', requests')
           /\ TokenInv' /\ BudgetInv' /\ Clean' /\ agent'.active_run = NoRun
<1> DEFINE S == execute_backend(w, E)
<1>1. /\ agent' = [x EXCEPT !.fx = <<>>, !.status = "Failed", !.active_run = NoRun,
                            !.pending_tools = {}, !.pending_permissions = {}]
      /\ requests' = {[q EXCEPT !.token = Cancelled(@)] : q \in S}
      /\ asked' = Base(x) + Cardinality(OfKind(E, "ExecuteBackend"))
  BY DEF fail_fatally, Base
<1>2. \A c \in ToolCalls : tools'[c] # "running"
  BY DEF fail_fatally
<1>3. x \in AgentStates /\ w.requests \subseteq RequestTasks
  BY DEF Reduced, GoodTasks
<1>4. EffectsIn(x.fx) \subseteq Effects /\ IsFiniteSet(EffectsIn(x.fx))
  BY <1>3, FieldTypes, EffectsInType
<1>5. /\ agent'.fx = <<>> /\ agent'.status = "Failed" /\ agent'.active_run = NoRun
      /\ agent'.pending_tools = {} /\ agent'.next_run = x.next_run
      /\ agent'.profile = x.profile /\ agent'.switches = x.switches /\ agent'.turns = x.turns
      /\ agent'.final_turn = x.final_turn /\ agent'.final_grace_used = x.final_grace_used
  BY <1>1, <1>3, FieldsOfDispatched
<1>6. S \subseteq RequestTasks
  BY <1>3, <1>4, ExecuteBackendType
<1>7. \A p \in S : \/ \E q \in w.requests : p.run = q.run /\ p.token = TokenOf(q, E)
                   \/ \E e \in OfKind(E, "ExecuteBackend") : p.run = e.run /\ p.token = NewToken
  BY <1>3, RequestsAfter
<1>8. \A q \in w.requests : TokenOf(q, E) \in {"held", "cancelled"}
  BY <1>3, TokensAfter DEF Flies
<1> HIDE DEF S
<1>9. \A p \in S : Cancelled(p.token) = "cancelled"
  BY <1>7, <1>8 DEF NewToken, Cancelled
<1>10. \A r \in requests' : r.token = "cancelled" /\ \E p \in S : r.run = p.run
  <2>1. ASSUME NEW p \in S
        PROVE  LET r == [p EXCEPT !.token = Cancelled(@)] IN r.token = "cancelled" /\ r.run = p.run
    <3>1. p \in RequestTasks /\ Cancelled(p.token) = "cancelled"
      BY <1>6, <1>9, <2>1
    <3> QED BY <3>1, Zenon DEF RequestTasks
  <2> QED BY <1>1, <2>1
<1>11. ASSUME ~shutdown PROVE FlightOK(agent', requests')
  <2>1. /\ \A q \in w.requests : q.run # NoRun /\ Known(q.run, x)
        /\ \A e \in Queries(x) : e.run # NoRun /\ Known(e.run, x)
        /\ Known(x.active_run, x)
    BY <1>11 DEF Flies, FlightOK
  <2>2. OfKind(E, "ExecuteBackend") \subseteq Queries(x)
    BY DEF OfKind, Queries
  <2>3. \A r \in requests' : r.run # NoRun /\ Known(r.run, x)
    BY <1>7, <1>10, <2>1, <2>2
  <2>4. Queries(agent') = {} /\ Hangups(agent') = {}
    BY <1>5, NoEffectsLeft
  <2>5. Known(NoRun, x)
    <3>1. x.next_run \in Nat
      BY <1>3, FieldTypes
    <3> QED BY <2>1, <3>1 DEF Known, NoRun
  <2> QED BY <1>5, <2>3, <2>4, <2>5 DEF FlightOK, Known
<1>12. BudgetInv'
  <2> DEFINE Q == OfKind(E, "ExecuteBackend")
  <2>1. Q \subseteq Queries(x) /\ Queries(x) \subseteq EffectsIn(x.fx)
    BY DEF OfKind, Queries
  <2>2. IsFiniteSet(Queries(x))
    BY <1>4, <2>1, FS_Subset
  <2>3. /\ Cardinality(Q) \in Nat /\ Cardinality(Queries(x)) \in Nat
        /\ Cardinality(Q) <= Cardinality(Queries(x))
    BY <2>1, <2>2, FS_Subset, FS_CardinalityType
  <2> HIDE DEF Q
  <2>4. Base(x) \in Nat
    BY BaseType
  <2>5. Budget(x, Base(x) + Cardinality(Queries(x)))
    BY DEF Flies, Priced
  <2>6. Budget(x, Base(x) + Cardinality(Q))
    <3> DEFINE m == Base(x) + Cardinality(Q)
               n == Base(x) + Cardinality(Queries(x))
    <3>1. m \in Nat /\ n \in Nat /\ m <= n
      BY <2>3, <2>4
    <3>2. Budget(x, n)
      BY <2>5
    <3> HIDE DEF m, n
    <3>3. Budget(x, m)
      BY <1>3, <3>1, <3>2, LessBudget
    <3> QED BY <3>3 DEF m
  <2>7. Budget(x, asked')
    BY <1>1, <2>6 DEF Q
  <2>8. Budget(agent', asked')
    BY <1>5, <2>7, SameBudget
  <2> QED BY <2>8 DEF BudgetInv
<1>13. TokenInv'
  <2>1. Tasks'.requests = requests' /\ Tasks'.tools = tools'
    BY DEF Tasks
  <2> QED BY <1>2, <1>10, <2>1 DEF TokenInv, Tidy
<1>14. Clean'
  BY <1>2, <1>5, <1>10 DEF Clean
<1> QED BY <1>5, <1>11, <1>12, <1>13, <1>14

\* No work is left but that of the run of a.
Bare(a, w) ==
    /\ a.pending_tools = {}
    /\ \A c \in ToolCalls : w.tools[c] # "running"
    /\ \A q \in w.requests : q.token = "cancelled" \/ q.run = a.active_run

\* A reduction of a command to a, with the tasks w, that may be dispatched.
Lands(a, w) ==
    /\ Reduced(a, approved') /\ GoodTasks(w) /\ Flies(a, w.requests) /\ Tidy(w)
    /\ loop.fatal => Bare(a, w)

LEMMA DispatchKeeps ==
    ASSUME IInv, NEW a, NEW b, NEW w, NEW l, NEW broken, Reduced(a, approved'), Reduced(b, approved'),
           GoodTasks(w), Flies(a, w.requests), Flies(b, w.requests), Extends(a, b), Tidy(w),
           shutdown' = shutdown, broken.fatal, Dispatch(a, b, w, l, broken)
    PROVE  \/ JInv'
           \/ /\ loop' = l /\ TokenInv' /\ BudgetInv' /\ agent'.active_run = b.active_run
              /\ ~shutdown => FlightOK(agent', requests')
              /\ Bare(b, w) => Clean'
<1>1. ASSUME dispatch_effects(b, w, EffectsIn(b.fx)), loop' = l
      PROVE  /\ loop' = l /\ TokenInv' /\ BudgetInv' /\ agent'.active_run = b.active_run
             /\ ~shutdown => FlightOK(agent', requests')
             /\ Bare(b, w) => Clean'
  BY <1>1, DispatchEffectsKeeps DEF Bare
<1>2. ASSUME NEW n \in 1..Len(b.fx),
             fail_fatally(IF n <= Len(a.fx) THEN a ELSE b, w, EffectsIn(SubSeq(b.fx, 1, n - 1))),
             loop' \in {Doomed, broken}
      PROVE  JInv'
  <2> DEFINE x == IF n <= Len(a.fx) THEN a ELSE b
             E == EffectsIn(SubSeq(b.fx, 1, n - 1))
  <2>1. a \in AgentStates /\ b \in AgentStates
    BY DEF Reduced
  <2>2. E \subseteq EffectsIn(b.fx) /\ (n <= Len(a.fx) => E \subseteq EffectsIn(a.fx))
    BY <2>1, PrefixEffects
  <2> HIDE DEF E
  <2>3. E \subseteq EffectsIn(x.fx) /\ Reduced(x, approved') /\ Flies(x, w.requests)
    BY <2>2
  <2>4. fail_fatally(x, w, E)
    BY <1>2 DEF E
  <2> HIDE DEF x
  <2>5. /\ ~shutdown => FlightOK(agent', requests')
        /\ TokenInv' /\ BudgetInv' /\ Clean' /\ agent'.active_run = NoRun
    BY <2>3, <2>4, FailFatallyKeeps
  <2>6. loop'.fatal
    BY <1>2 DEF Doomed, Loop
  <2> QED BY <2>5, <2>6 DEF JInv, FlightInv, FatalInv, StoppedInv
<1> QED BY <1>1, <1>2 DEF Dispatch

LEMMA LoopFields ==
    ASSUME NEW at, NEW call, NEW child, NEW fatal
    PROVE  /\ Loop(at, call, child, fatal).at = at /\ Loop(at, call, child, fatal).fatal = fatal
           /\ Ended(fatal).at = "stopped" /\ Ended(fatal).fatal = fatal
           /\ Ready.at = "ready" /\ Ready.fatal = FALSE
BY DEF Loop, Ended, Ready

LEMMA NextLoopIs ==
    ASSUME IInv, NEW E
    PROVE  LET l == NextLoop(E)
           IN /\ l.fatal = loop.fatal /\ (loop.fatal => l.at # "ready")
              /\ ~loop.fatal /\ LongLived => l.at # "stopped"
<1> DEFINE l == NextLoop(E)
           f == loop.fatal
<1>1. \/ \E c : l = Loop("spawning", c, NoChild, f)
      \/ f /\ l = Ended(f)
      \/ ~f /\ ~LongLived /\ l = Ended(f)
      \/ ~f /\ l = Ready
  BY DEF NextLoop
<1>2. f \in BOOLEAN
  BY LoopFatal
<1> HIDE DEF f, l
<1>3. /\ l.fatal = f /\ (f => l.at # "ready")
      /\ ~f /\ LongLived => l.at # "stopped"
  <2>1. ASSUME NEW c, l = Loop("spawning", c, NoChild, f) PROVE l.fatal = f /\ l.at = "spawning"
    BY <2>1, Zenon DEF Loop
  <2>2. ASSUME l = Ended(f) PROVE l.fatal = f /\ l.at = "stopped"
    BY <2>2, LoopFields
  <2>3. ASSUME ~f, l = Ready PROVE l.fatal = f /\ l.at = "ready"
    <3>1. f = FALSE
      BY <1>2, <2>3
    <3> QED BY <2>3, <3>1, LoopFields
  <2> QED BY <1>1, <2>1, <2>2, <2>3
<1> QED BY <1>3 DEF f, l

LEMMA HandleCommandKeeps ==
    ASSUME IInv, Receiving, NEW a, NEW w, NEW o, Lands(a, w), Flows(a), a.next_run >= agent.next_run,
           shutdown' = shutdown, handle_command(a, w, o)
    PROVE  JInv'
<1> DEFINE b == IF LongLived /\ ~loop.fatal /\ FinishRun \in EffectsIn(a.fx)
                THEN start_next_queued_run(a, o) ELSE a
           l == NextLoop(EffectsIn(b.fx))
           broken == Ended(TRUE)
<1>1. Dispatch(a, b, w, l, broken)
  BY DEF handle_command
<1>2. ~shutdown /\ loop.fatal \in BOOLEAN
  BY LoopFatal DEF Receiving
<1>3. Flies(b, w.requests) /\ Extends(a, b)
  BY <1>2, NextRunFlies DEF Lands, Flows, Finishes, Extends
<1>4. Reduced(b, approved')
  <2>1. a \in AgentStates
    BY DEF Lands, Reduced
  <2>2. Steps(a, b, {})
    BY <2>1, StartNextQueuedRunSteps, StepsReflexive
  <2> HIDE DEF b
  <2> QED BY <2>2, ReducedSteps DEF Lands
<1>5. loop.fatal => b = a
  OBVIOUS
<1> HIDE DEF b
<1>6. /\ l.fatal = loop.fatal /\ (loop.fatal => l.at # "ready")
      /\ ~loop.fatal /\ LongLived => l.at # "stopped"
  BY NextLoopIs
<1>7. broken.fatal
  BY LoopFields
<1> HIDE DEF l, broken
<1>8. \/ JInv'
      \/ /\ loop' = l /\ TokenInv' /\ BudgetInv' /\ agent'.active_run = b.active_run
         /\ ~shutdown => FlightOK(agent', requests')
         /\ Bare(b, w) => Clean'
  BY <1>1, <1>3, <1>4, <1>7, DispatchKeeps DEF Lands
<1>9. ASSUME loop' = l, TokenInv', BudgetInv', FlightOK(agent', requests'), Bare(b, w) => Clean'
      PROVE  JInv'
  <2>1. FatalInv'
    BY <1>5, <1>6, <1>9 DEF FatalInv, Lands
  <2>2. StoppedInv'
    BY <1>2, <1>6, <1>9 DEF StoppedInv
  <2> QED BY <1>9, <2>1, <2>2 DEF JInv, FlightInv
<1> QED BY <1>2, <1>8, <1>9

-----------------------------------------------------------------------------
(***************************************************************************)
(* The transcript of a run and the verdict it waits for.                   *)
(***************************************************************************)
\* The evaluation v is that of the run's last answer, and nothing else of the run goes on.
Judges(v, s) ==
    /\ v.attempt = s.gate_attempts /\ v.token = "held"
    /\ ~s.backend_in_flight /\ s.pending_tools = {}

\* An effect that starts the evaluation of the last answer, or ends one of another run.
Settles(e, s, V) ==
    \/ /\ e = EvaluateCompletion(s.active_run, s.gate_attempts, s.profile)
       /\ s.active_run # NoRun /\ ~s.backend_in_flight /\ s.pending_tools = {}
       /\ \A v \in V : v.run # s.active_run
    \/ \E r : /\ e = CancelEvaluation(r) /\ Known(r, s)
              /\ r # s.active_run \/ s.active_run = NoRun

\* With the requests R and the evaluations V out: at most one evaluation is of the run, the
\* one it waits for, and calls are pending only after the response that asked for them.
Gated(s, R, V) ==
    /\ \A v \in V : v.run # NoRun /\ Known(v.run, s)
    /\ \A v \in V : v.run = s.active_run => Judges(v, s)
    /\ \A v1, v2 \in V : v1.run = s.active_run /\ v2.run = s.active_run => v1 = v2
    /\ \A q \in R : q.run = s.active_run /\ ~q.called => s.pending_tools = {}
    /\ Queries(s) # {} => s.pending_tools = {}
    /\ \A e \in Verdicts(s) : Settles(e, s, V)

\* No call of the run was dropped.
Whole(s) == s.active_run # NoRun => stranded \cup Drops(s) = {}

\* A reduction to s, with the requests R and the evaluations V out.
Sits(s, R, V) == Ordered(s.messages) /\ Whole(s) /\ (~shutdown => Gated(s, R, V))

KInv == Sits(agent, requests, evaluations)

LEMMA NoVerdictsYet ==
    ASSUME IInv
    PROVE  Verdicts(agent) = {}
<1>1. EffectsIn(agent.fx) = {}
  BY DEF IInv, TypeOK, EffectsIn
<1> QED BY <1>1 DEF Verdicts

\* The calls that are not answered are those that are pending, once none was dropped.
LEMMA WholeResolved ==
    ASSUME NEW s, Balanced(s), Whole(s), s.active_run # NoRun, s.pending_tools = {}
    PROVE  Resolved(s)
<1>1. CallsIn(s.messages) = CallsOf(s.messages, "ToolUse")
  BY FieldTypes, CallsInOf DEF Balanced
<1> QED BY <1>1 DEF Balanced, Whole, Resolved, Answers

LEMMA ResolvedWhole ==
    ASSUME NEW s, Balanced(s), Resolved(s)
    PROVE  s.pending_tools = {} /\ stranded \cup Drops(s) = {}
<1>1. CallsIn(s.messages) = CallsOf(s.messages, "ToolUse")
  BY FieldTypes, CallsInOf DEF Balanced
<1>2. s.pending_tools \cup (stranded \cup Drops(s)) = {}
  BY <1>1 DEF Balanced, Resolved, Answers
<1> QED BY <1>2

LEMMA PendingOwes ==
    ASSUME NEW s, Balanced(s), NEW c \in s.pending_tools
    PROVE  Owes(s, c)
<1>1. CallsIn(s.messages) = CallsOf(s.messages, "ToolUse")
  BY FieldTypes, CallsInOf DEF Balanced
<1> QED BY <1>1 DEF Balanced, Owes, Answers

\* The run goes on or ends, and what it waits for stays.
LEMMA GatedKept ==
    ASSUME NEW s, NEW t, NEW R, NEW V, Gated(s, R, V), Verdicts(t) = Verdicts(s),
           Verdicts(s) = {} \/ s.active_run = NoRun,
           t.next_run = s.next_run, t.active_run \in {s.active_run, NoRun},
           t.pending_tools \subseteq s.pending_tools, Queries(t) # {} => t.pending_tools = {},
           \A v \in V : v.run = s.active_run /\ t.active_run = s.active_run =>
               t.gate_attempts = s.gate_attempts /\ t.backend_in_flight = s.backend_in_flight,
           \A q \in R : q.run # NoRun
    PROVE  Gated(t, R, V)
<1>1. \A v \in V : v.run # NoRun /\ Known(v.run, t)
  BY DEF Gated, Known
<1>2. \A v \in V : v.run = t.active_run => Judges(v, t)
  BY <1>1 DEF Gated, Judges
<1>3. \A v1, v2 \in V : v1.run = t.active_run /\ v2.run = t.active_run => v1 = v2
  BY <1>1 DEF Gated
<1>4. \A q \in R : q.run = t.active_run /\ ~q.called => t.pending_tools = {}
  BY DEF Gated
<1>5. \A e \in Verdicts(t) : Settles(e, t, V)
  BY DEF Gated, Settles, Known
<1> QED BY <1>1, <1>2, <1>3, <1>4, <1>5 DEF Gated

\* A run begins, with the calls of the earlier ones all answered.
LEMMA GatedBegins ==
    ASSUME NEW s, NEW t, NEW R, NEW V, s \in AgentStates, Gated(s, R, V), FlightOK(s, R),
           Verdicts(t) = Verdicts(s), s.active_run = NoRun,
           t.next_run = s.next_run + 1, t.active_run \in {s.next_run, NoRun},
           t.active_run # NoRun => t.pending_tools = {}, Queries(t) # {} => t.pending_tools = {}
    PROVE  Gated(t, R, V)
<1>1. s.next_run \in Nat
  BY FieldTypes
<1>2. \A v \in V : v.run # NoRun /\ Known(v.run, t) /\ v.run # t.active_run
  BY <1>1 DEF Gated, Known
<1>3. \A q \in R : q.run # t.active_run
  BY <1>1 DEF FlightOK, Known
<1>4. \A e \in Verdicts(t) : Settles(e, t, V)
  <2> TAKE e \in Verdicts(t)
  <2>1. Settles(e, s, V)
    BY DEF Gated
  <2>2. PICK r : e = CancelEvaluation(r) /\ Known(r, s)
    BY <2>1 DEF Settles
  <2>3. Known(r, t) /\ (r # t.active_run \/ t.active_run = NoRun)
    BY <1>1, <2>2 DEF Known
  <2> QED BY <2>2, <2>3 DEF Settles
<1> QED BY <1>2, <1>3, <1>4 DEF Gated

LEMMA GatedCancels ==
    ASSUME NEW s, NEW t, NEW R, NEW V, s \in AgentStates, Gated(s, R, V), FlightOK(s, R),
           Verdicts(s) = {}, Cancels(s, t), Queries(s) = {}
    PROVE  Gated(t, R, V)
<1>1. \A v \in V : v.run # NoRun /\ Known(v.run, t) /\ v.run # t.active_run
  BY DEF Gated, Known, Cancels
<1>2. \A q \in R : q.run # t.active_run
  BY DEF FlightOK, Cancels
<1>3. \A e \in Verdicts(t) : Settles(e, t, V)
  BY DEF Settles, FlightOK, Cancels, Known
<1> QED BY <1>1, <1>2, <1>3 DEF Gated, Cancels

\* The answer goes to the gate: none of the run is there.
LEMMA GatedSubmits ==
    ASSUME NEW s, NEW t, NEW R, NEW V, Gated(s, R, V), Verdicts(s) = {}, Submits(s, t), Queries(s) = {},
           s.active_run # NoRun, ~s.backend_in_flight, s.pending_tools = {},
           \A v \in V : v.run # s.active_run
    PROVE  Gated(t, R, V)
<1>1. /\ t.next_run = s.next_run /\ t.active_run = s.active_run /\ t.pending_tools = {}
      /\ ~t.backend_in_flight /\ Queries(t) = {}
      /\ Verdicts(t) = {EvaluateCompletion(t.active_run, t.gate_attempts, t.profile)}
  BY DEF Submits, Verifies, Keeps
<1>2. \A e \in Verdicts(t) : Settles(e, t, V)
  BY <1>1 DEF Settles
<1> QED BY <1>1, <1>2 DEF Gated, Known

LEMMA FewerGated ==
    ASSUME NEW s, NEW R, NEW V, NEW S, NEW W, Gated(s, R, V), W \subseteq V,
           \A q \in S : q.run = s.active_run /\ ~q.called => \E p \in R : p.run = q.run /\ ~p.called
    PROVE  Gated(s, S, W)
<1>1. \A e \in Verdicts(s) : Settles(e, s, W)
  BY DEF Gated, Settles
<1> QED BY <1>1 DEF Gated

LEMMA GatedIdle ==
    ASSUME NEW s, NEW t, NEW R, NEW V, Gated(s, R, V), FlightOK(s, R), s.active_run = NoRun,
           t.active_run = NoRun, t.next_run = s.next_run, t.pending_tools = s.pending_tools,
           Queries(t) = Queries(s), Verdicts(t) = Verdicts(s)
    PROVE  Gated(t, R, V)
<1>1. /\ \A v \in V : v.run # s.active_run
      /\ Queries(s) # {} => s.pending_tools = {}
  BY DEF Gated
<1>2. \A q \in R : q.run # NoRun
  BY DEF FlightOK
<1> QED BY <1>1, <1>2, GatedKept

LEMMA KeptSits ==
    ASSUME NEW s, NEW t, NEW R, NEW V, Ordered(s.messages), Whole(s), Follows(s, t),
           ~shutdown => Gated(t, R, V), Drops(t) = Drops(s), t.active_run \in {s.active_run, NoRun}
    PROVE  Sits(t, R, V)
<1>1. Ordered(t.messages)
  BY DEF Follows
<1>2. Whole(t)
  BY DEF Whole
<1> QED BY <1>1, <1>2 DEF Sits

\* A run starts, at the host's wish or from the queue.
LEMMA StartSits ==
    ASSUME NEW s, NEW R, NEW V, NEW input, NEW o, Sits(s, R, V), Balanced(s), Calm(s, R),
           ~shutdown, s.active_run = NoRun
    PROVE  Sits(start_run(s, input, o), R, V)
<1> DEFINE t == start_run(s, input, o)
<1>1. /\ s \in AgentStates /\ Ordered(s.messages) /\ Whole(s) /\ Gated(s, R, V) /\ FlightOK(s, R)
      /\ Queries(s) = {}
  BY DEF Sits, Calm
<1>2. Begins(s, t) /\ Follows(s, t) /\ (t.active_run # NoRun => Resolved(s))
  BY <1>1, StartRunBegins, StartRunFollows
<1> HIDE DEF t
<1>3. t.active_run # NoRun => s.pending_tools = {} /\ stranded \cup Drops(s) = {}
  BY <1>2, ResolvedWhole
<1>4. ASSUME Idles(s, t), t.active_run = NoRun PROVE Sits(t, R, V)
  <2>1. /\ t.next_run = s.next_run /\ t.pending_tools = s.pending_tools /\ Drops(t) = Drops(s)
        /\ Queries(t) = Queries(s) /\ Verdicts(t) = Verdicts(s)
    BY <1>2, <1>4 DEF Idles, Keeps, Follows
  <2>2. Gated(t, R, V)
    BY <1>1, <1>4, <2>1, GatedIdle
  <2> QED BY <1>1, <1>2, <1>4, <2>1, <2>2, KeptSits
<1>5. ASSUME NEW u, Opens(s, u), (Idles(u, t) /\ t.active_run = NoRun) \/ Inquires(u, t)
      PROVE  Sits(t, R, V)
  <2>1. /\ u.next_run = s.next_run + 1 /\ u.active_run = s.next_run /\ Queries(u) = {}
        /\ u.pending_tools = s.pending_tools /\ Drops(u) = Drops(s)
    BY <1>1, <1>5 DEF Opens
  <2>2. /\ t.next_run = u.next_run /\ t.active_run \in {u.active_run, NoRun}
        /\ t.pending_tools = u.pending_tools /\ Drops(t) = Drops(u)
        /\ Queries(t) # {} => t.active_run # NoRun
    BY <1>5, <2>1 DEF Idles, Inquires, Keeps
  <2>3. Gated(t, R, V)
    BY <1>1, <1>2, <1>3, <2>1, <2>2, GatedBegins DEF Follows
  <2>4. Whole(t)
    BY <1>3, <2>1, <2>2 DEF Whole
  <2> QED BY <1>1, <1>2, <2>3, <2>4 DEF Sits, Follows
<1> QED BY <1>2, <1>4, <1>5 DEF Begins, t

LEMMA NextRunSits ==
    ASSUME NEW a, NEW R, NEW V, NEW o, Sits(a, R, V), Balanced(a), Flies(a, R), ~shutdown,
           a.active_run = NoRun
    PROVE  Sits(start_next_queued_run(a, o), R, V)
<1>1. /\ a \in AgentStates /\ FlightOK(a, R) /\ Queries(a) = {}
      /\ Ordered(a.messages) /\ Whole(a)
  BY DEF Flies, Priced, FlightOK, Sits
<1>2. CASE a.queued_inputs = <<>>
  BY <1>2 DEF start_next_queued_run
<1>3. CASE a.queued_inputs # <<>>
  <2> DEFINE queue == Tail(a.queued_inputs)
             s == [a EXCEPT !.queued_inputs = queue]
             input == Head(a.queued_inputs)
  <2>1. start_next_queued_run(a, o) = start_run(s, input, o)
    BY <1>3 DEF start_next_queued_run
  <2>2. queue \in Seq(Inputs)
    BY <1>1, <1>3, FieldTypes
  <2>3. Abides(a, s)
    BY <1>1, <2>2, QueueAbides
  <2>4. Requeues(a, s)
    BY <1>1, <2>2, Zenon DEF AgentStates, Requeues
  <2>5. Drops(s) = Drops(a) /\ Queries(s) = {}
    BY <1>1, <2>4 DEF Requeues, Drops, Queries
  <2> HIDE DEF s, queue, input
  <2>6. Calm(s, R) /\ Balanced(s)
    BY <1>1, <2>4, RequeuesCalm, RequeuesBalanced DEF Calm
  <2>7. Gated(s, R, V)
    <3>1. Gated(a, R, V) /\ Verdicts(s) = Verdicts(a)
      BY <2>3 DEF Sits, Abides, Follows
    <3> QED BY <1>1, <2>4, <2>5, <3>1, GatedIdle DEF Requeues
  <2>8. Sits(s, R, V)
    BY <1>1, <2>3, <2>4, <2>5, <2>7, KeptSits DEF Abides, Requeues
  <2>9. s.active_run = NoRun
    BY <2>4 DEF Requeues
  <2> QED BY <2>1, <2>6, <2>8, <2>9, StartSits
<1> QED BY <1>2, <1>3

-----------------------------------------------------------------------------
\* The evaluations that are there after effects E of x.
LEMMA EvaluationsAfter ==
    ASSUME NEW w, NEW x, NEW E, w.evaluations \subseteq EvaluationTasks, E \subseteq EffectsIn(x.fx),
           ~shutdown, Gated(x, w.requests, w.evaluations)
    PROVE  \A p \in evaluate_completion(w, E) :
             \/ \E v \in w.evaluations : p.run = v.run /\ (v.run = x.active_run => p = v)
             \/ /\ x.active_run # NoRun /\ ~x.backend_in_flight /\ x.pending_tools = {}
                /\ \A v \in w.evaluations : v.run # x.active_run
                /\ p = [run |-> x.active_run, attempt |-> x.gate_attempts, profile |-> x.profile,
                        token |-> "held"]
<1> DEFINE new == OfKind(E, "EvaluateCompletion")
           Ends(v) == CancelEvaluation(v.run) \in E \/ \E e \in new : e.run = v.run
           Token(v) == IF Ends(v) THEN Cancelled(v.token) ELSE v.token
           New(e) == [run |-> e.run, attempt |-> e.attempt, profile |-> e.profile, token |-> NewToken]
<1>1. evaluate_completion(w, E) = {[v EXCEPT !.token = Token(v)] : v \in w.evaluations}
                                  \cup {New(e) : e \in new}
  BY DEF evaluate_completion
<1>2. \A e \in E : e.kind \in {"EvaluateCompletion", "CancelEvaluation"} => Settles(e, x, w.evaluations)
  BY DEF Gated, Verdicts
<1>3. \A r, n, p : /\ EvaluateCompletion(r, n, p).kind = "EvaluateCompletion"
                   /\ EvaluateCompletion(r, n, p).run = r /\ EvaluateCompletion(r, n, p).attempt = n
                   /\ EvaluateCompletion(r, n, p).profile = p
                   /\ CancelEvaluation(r).kind = "CancelEvaluation" /\ CancelEvaluation(r).run = r
  BY DEF EvaluateCompletion, CancelEvaluation
<1>4. \A e \in new :
        /\ x.active_run # NoRun /\ ~x.backend_in_flight /\ x.pending_tools = {}
        /\ \A v \in w.evaluations : v.run # x.active_run
        /\ e.run = x.active_run /\ e.attempt = x.gate_attempts /\ e.profile = x.profile
  <2> TAKE e \in new
  <2>1. e \in E /\ e.kind = "EvaluateCompletion"
    BY DEF OfKind
  <2>2. Settles(e, x, w.evaluations)
    BY <1>2, <2>1
  <2> QED BY <1>3, <2>1, <2>2 DEF Settles
<1>5. ASSUME NEW v \in w.evaluations, v.run = x.active_run PROVE ~Ends(v)
  <2>1. \A e \in new : e.run # v.run
    BY <1>4, <1>5
  <2>2. CancelEvaluation(v.run) \notin E
    <3> SUFFICES ASSUME CancelEvaluation(v.run) \in E PROVE FALSE
      OBVIOUS
    <3>1. Settles(CancelEvaluation(v.run), x, w.evaluations)
      BY <1>2, <1>3
    <3>2. v.run # NoRun
      BY DEF Gated
    <3> QED BY <1>3, <1>5, <3>1, <3>2 DEF Settles
  <2> QED BY <2>1, <2>2
<1>6. NewToken = "held"
  BY DEF NewToken
<1> HIDE DEF new, Ends
<1>7. ASSUME NEW v \in w.evaluations
      PROVE  LET p == [v EXCEPT !.token = Token(v)] IN p.run = v.run /\ (v.run = x.active_run => p = v)
  <2>1. v \in EvaluationTasks
    BY <1>7
  <2>2. v.run = x.active_run => Token(v) = v.token
    BY <1>5, <1>7
  <2>3. \A token : [v EXCEPT !.token = token].run = v.run
    BY <2>1, Zenon DEF EvaluationTasks
  <2>4. [v EXCEPT !.token = v.token] = v
    BY <2>1 DEF EvaluationTasks
  <2> HIDE DEF Token
  <2> QED BY <2>2, <2>3, <2>4
<1>8. ASSUME NEW e \in new
      PROVE  /\ x.active_run # NoRun /\ ~x.backend_in_flight /\ x.pending_tools = {}
             /\ \A v \in w.evaluations : v.run # x.active_run
             /\ New(e) = [run |-> x.active_run, attempt |-> x.gate_attempts, profile |-> x.profile,
                          token |-> "held"]
  BY <1>4, <1>6, <1>8
<1> HIDE DEF Token, New
<1> QED BY <1>1, <1>7, <1>8

LEMMA CalledAfter ==
    ASSUME NEW w, NEW x, NEW E, w.requests \subseteq RequestTasks, E \subseteq EffectsIn(x.fx)
    PROVE  \A p \in execute_backend(w, E) :
             \/ \E q \in w.requests : p.run = q.run /\ p.called = q.called
             \/ Queries(x) # {}
<1> TAKE p \in execute_backend(w, E)
<1>1. \/ \E q \in w.requests : p = [q EXCEPT !.token = TokenOf(q, E)]
      \/ \E e \in OfKind(E, "ExecuteBackend") : p = NewTask(e)
  BY RequestsAfter
<1>2. \A q \in RequestTasks : \A token : LET r == [q EXCEPT !.token = token]
                                          IN r.run = q.run /\ r.called = q.called
  BY Zenon DEF RequestTasks
<1>3. OfKind(E, "ExecuteBackend") \subseteq Queries(x)
  BY DEF OfKind, Queries
<1>4. ASSUME NEW q \in w.requests, p = [q EXCEPT !.token = TokenOf(q, E)]
      PROVE  p.run = q.run /\ p.called = q.called
  <2>1. q \in RequestTasks
    BY <1>4
  <2> HIDE DEF TokenOf
  <2> QED BY <1>2, <1>4, <2>1
<1> QED BY <1>1, <1>3, <1>4

\* Carrying out the effects of b.
LEMMA DispatchEffectsSits ==
    ASSUME IInv, NEW b, NEW w, Reduced(b, approved'), GoodTasks(w), Flies(b, w.requests), Tidy(w),
           Sits(b, w.requests, w.evaluations), shutdown' = shutdown,
           dispatch_effects(b, w, EffectsIn(b.fx))
    PROVE  KInv'
<1> DEFINE E == EffectsIn(b.fx)
           R == w.requests
           V == w.evaluations
<1>1. /\ agent' = [b EXCEPT !.fx = <<>>] /\ requests' = execute_backend(w, E)
      /\ evaluations' = evaluate_completion(w, E) /\ stranded' = stranded \cup Drops(b)
  BY DEF dispatch_effects, Drops
<1>2. b \in AgentStates /\ R \subseteq RequestTasks /\ V \subseteq EvaluationTasks
  BY DEF Reduced, GoodTasks
<1>3. /\ agent'.active_run = b.active_run /\ agent'.pending_tools = b.pending_tools
      /\ agent'.messages = b.messages /\ agent'.next_run = b.next_run /\ agent'.fx = <<>>
      /\ agent'.backend_in_flight = b.backend_in_flight /\ agent'.gate_attempts = b.gate_attempts
  <2>1. [b EXCEPT !.fx = <<>>].gate_attempts = b.gate_attempts
    BY <1>2, Zenon DEF AgentStates
  <2> QED BY <1>1, <1>2, <2>1, FieldsOfDispatched
<1>4. Queries(agent') = {} /\ Drops(agent') = {} /\ Verdicts(agent') = {}
  BY <1>3 DEF Queries, Drops, Verdicts, Dropped, OfKind, EffectsIn
<1>5. Ordered(agent'.messages) /\ Whole(agent)'
  BY <1>1, <1>3, <1>4 DEF Sits, Whole
<1>6. ASSUME ~shutdown PROVE Gated(agent', requests', evaluations')
  <2>1. Gated(b, R, V) /\ FlightOK(b, R)
    BY <1>6 DEF Sits, Flies
  <2>2. \A p \in evaluations' :
          \/ \E v \in V : p.run = v.run /\ (v.run = b.active_run => p = v)
          \/ /\ b.active_run # NoRun /\ ~b.backend_in_flight /\ b.pending_tools = {}
             /\ \A v \in V : v.run # b.active_run
             /\ p = [run |-> b.active_run, attempt |-> b.gate_attempts, profile |-> b.profile,
                     token |-> "held"]
    BY <1>1, <1>2, <1>6, <2>1, EvaluationsAfter
  <2>3. \A p \in requests' : (\E q \in R : p.run = q.run /\ p.called = q.called) \/ Queries(b) # {}
    BY <1>1, <1>2, CalledAfter
  <2>4. Known(b.active_run, b)
    BY <2>1 DEF FlightOK
  <2> HIDE DEF R, V, E
  <2>5. \A p \in evaluations' : p.run # NoRun /\ Known(p.run, agent')
    BY <1>3, <2>1, <2>2, <2>4 DEF Gated, Known
  <2>6. \A p \in evaluations' : p.run = b.active_run =>
          \/ p \in V
          \/ /\ ~b.backend_in_flight /\ b.pending_tools = {}
             /\ \A v \in V : v.run # b.active_run
             /\ p = [run |-> b.active_run, attempt |-> b.gate_attempts, profile |-> b.profile,
                     token |-> "held"]
    BY <2>2
  <2>7. \A p \in evaluations' : p.run = agent'.active_run => Judges(p, agent')
    BY <1>3, <2>1, <2>6 DEF Gated, Judges
  <2>8. \A p1, p2 \in evaluations' :
          p1.run = agent'.active_run /\ p2.run = agent'.active_run => p1 = p2
    BY <1>3, <2>1, <2>6 DEF Gated
  <2>9. \A p \in requests' : p.run = agent'.active_run /\ ~p.called => agent'.pending_tools = {}
    BY <1>3, <2>1, <2>3 DEF Gated
  <2> QED BY <1>4, <2>5, <2>7, <2>8, <2>9 DEF Gated
<1> QED BY <1>5, <1>6 DEF KInv, Sits

LEMMA FailFatallySits ==
    ASSUME IInv, NEW x, NEW w, NEW E, Reduced(x, approved'), GoodTasks(w), Flies(x, w.requests),
           Tidy(w), Sits(x, w.requests, w.evaluations), shutdown' = shutdown,
           E \subseteq EffectsIn(x.fx), fail_fatally(x, w, E)
    PROVE  KInv'
<1> DEFINE R == w.requests
           V == w.evaluations
<1>1. /\ agent' = [x EXCEPT !.fx = <<>>, !.status = "Failed", !.active_run = NoRun,
                            !.pending_tools = {}, !.pending_permissions = {}]
      /\ evaluations' = evaluate_completion(w, E)
  BY DEF fail_fatally
<1>2. x \in AgentStates /\ V \subseteq EvaluationTasks
  BY DEF Reduced, GoodTasks
<1>3. /\ agent'.active_run = NoRun /\ agent'.pending_tools = {}
      /\ agent'.messages = x.messages /\ agent'.next_run = x.next_run /\ agent'.fx = <<>>
  BY <1>1, <1>2, FieldsOfDispatched
<1>4. Verdicts(agent') = {}
  BY <1>3 DEF Verdicts, EffectsIn
<1>5. Ordered(agent'.messages) /\ Whole(agent)'
  BY <1>3 DEF Sits, Whole
<1>6. ASSUME ~shutdown PROVE Gated(agent', requests', evaluations')
  <2>1. Gated(x, R, V) /\ FlightOK(x, R)
    BY <1>6 DEF Sits, Flies
  <2>2. \A p \in evaluations' :
          \/ \E v \in V : p.run = v.run
          \/ x.active_run # NoRun /\ p.run = x.active_run
    BY <1>1, <1>2, <1>6, <2>1, EvaluationsAfter
  <2>3. Known(x.active_run, x)
    BY <2>1 DEF FlightOK
  <2> HIDE DEF R, V
  <2>4. \A p \in evaluations' : p.run # NoRun /\ Known(p.run, agent')
    BY <1>3, <2>1, <2>2, <2>3 DEF Gated, Known
  <2> QED BY <1>3, <1>4, <2>4 DEF Gated
<1> QED BY <1>5, <1>6 DEF KInv, Sits

LEMMA DispatchSits ==
    ASSUME IInv, NEW a, NEW b, NEW w, NEW l, NEW broken, Reduced(a, approved'), Reduced(b, approved'),
           GoodTasks(w), Flies(a, w.requests), Flies(b, w.requests), Tidy(w),
           Sits(a, w.requests, w.evaluations), Sits(b, w.requests, w.evaluations), Extends(a, b),
           shutdown' = shutdown, Dispatch(a, b, w, l, broken)
    PROVE  KInv'
<1>1. ASSUME dispatch_effects(b, w, EffectsIn(b.fx)) PROVE KInv'
  BY <1>1, DispatchEffectsSits
<1>2. ASSUME NEW n \in 1..Len(b.fx),
             fail_fatally(IF n <= Len(a.fx) THEN a ELSE b, w, EffectsIn(SubSeq(b.fx, 1, n - 1)))
      PROVE  KInv'
  <2> DEFINE x == IF n <= Len(a.fx) THEN a ELSE b
             E == EffectsIn(SubSeq(b.fx, 1, n - 1))
  <2>1. a \in AgentStates /\ b \in AgentStates
    BY DEF Reduced
  <2>2. E \subseteq EffectsIn(b.fx) /\ (n <= Len(a.fx) => E \subseteq EffectsIn(a.fx))
    BY <2>1, PrefixEffects
  <2> HIDE DEF E
  <2>3. /\ E \subseteq EffectsIn(x.fx) /\ Reduced(x, approved') /\ Flies(x, w.requests)
        /\ Sits(x, w.requests, w.evaluations)
    BY <2>2
  <2>4. fail_fatally(x, w, E)
    BY <1>2 DEF E
  <2> HIDE DEF x
  <2> QED BY <2>3, <2>4, FailFatallySits
<1> QED BY <1>1, <1>2 DEF Dispatch

LEMMA HandleCommandSits ==
    ASSUME IInv, Receiving, NEW a, NEW w, NEW o, Lands(a, w), Flows(a), a.next_run >= agent.next_run,
           Sits(a, w.requests, w.evaluations), shutdown' = shutdown, handle_command(a, w, o)
    PROVE  KInv'
<1> DEFINE b == IF LongLived /\ ~loop.fatal /\ FinishRun \in EffectsIn(a.fx)
                THEN start_next_queued_run(a, o) ELSE a
           l == NextLoop(EffectsIn(b.fx))
           broken == Ended(TRUE)
<1>1. Dispatch(a, b, w, l, broken)
  BY DEF handle_command
<1>2. ~shutdown
  BY DEF Receiving
<1>3. /\ Flies(a, w.requests) /\ Reduced(a, approved') /\ GoodTasks(w) /\ Tidy(w)
      /\ Balanced(a) /\ (Finishes(a) => a.active_run = NoRun)
  BY DEF Lands, Flows
<1>4. Flies(b, w.requests) /\ Extends(a, b)
  BY <1>2, <1>3, NextRunFlies DEF Finishes, Extends
<1>5. Sits(b, w.requests, w.evaluations)
  BY <1>2, <1>3, NextRunSits DEF Finishes
<1>6. Reduced(b, approved')
  <2>1. a \in AgentStates
    BY <1>3 DEF Reduced
  <2>2. Steps(a, b, {})
    BY <2>1, StartNextQueuedRunSteps, StepsReflexive
  <2> HIDE DEF b
  <2> QED BY <1>3, <2>2, ReducedSteps
<1> HIDE DEF b, l, broken
<1> QED BY <1>1, <1>3, <1>4, <1>5, <1>6, DispatchSits

\* A step keeps both invariants.
Kept == JInv' /\ (KInv => KInv')

LEMMA HandleCommandKept ==
    ASSUME IInv, Receiving, NEW a, NEW w, NEW o, Lands(a, w), Flows(a), a.next_run >= agent.next_run,
           KInv => Sits(a, w.requests, w.evaluations), shutdown' = shutdown, handle_command(a, w, o)
    PROVE  Kept
<1>1. JInv'
  BY HandleCommandKeeps
<1>2. KInv => KInv'
  BY HandleCommandSits
<1> QED BY <1>1, <1>2 DEF Kept

-----------------------------------------------------------------------------
(***************************************************************************)
(* What the commands do to the transcript and the verdict.                 *)
(***************************************************************************)
\* Nothing was done for s, with the requests R and the evaluations V out.
Sat(s, R, V) ==
    /\ s \in AgentStates /\ Sits(s, R, V) /\ Verdicts(s) = {} /\ Queries(s) = {}
    /\ ~shutdown => FlightOK(s, R)

LEMMA AgentSat ==
    ASSUME IInv, JInv, KInv, loop.at # "stopped"
    PROVE  Sat(agent, requests, evaluations)
<1>1. ~shutdown => FlightOK(agent, requests)
  BY DEF JInv, FlightInv
<1> QED BY <1>1, NothingYet, NoVerdictsYet DEF Sat, KInv

\* No call is answered and no request made.
LEMMA IdleSits ==
    ASSUME NEW s, NEW t, NEW R, NEW V, Sat(s, R, V), Idles(s, t), Follows(s, t),
           ~shutdown => \A v \in V : v.run = s.active_run => t.gate_attempts = s.gate_attempts
    PROVE  Sits(t, R, V)
<1>1. /\ t.next_run = s.next_run /\ t.active_run \in {s.active_run, NoRun} /\ Drops(t) = Drops(s)
      /\ t.pending_tools = s.pending_tools /\ Queries(t) = {} /\ Verdicts(t) = Verdicts(s)
      /\ Verdicts(s) = {}
  BY DEF Sat, Idles, Keeps, Follows
<1>2. t.active_run = NoRun \/ t.backend_in_flight = s.backend_in_flight
  BY DEF Idles
<1>3. ASSUME ~shutdown PROVE Gated(t, R, V)
  <2>1. Gated(s, R, V) /\ \A q \in R : q.run # NoRun
    BY <1>3 DEF Sat, Sits, FlightOK
  <2>2. ASSUME NEW v \in V, v.run = s.active_run, t.active_run = s.active_run
        PROVE  t.gate_attempts = s.gate_attempts /\ t.backend_in_flight = s.backend_in_flight
    BY <1>2, <1>3, <2>1, <2>2 DEF Gated
  <2> QED BY <1>1, <2>1, <2>2, GatedKept
<1> QED BY <1>1, <1>3, KeptSits DEF Sat, Sits

LEMMA AbideSits ==
    ASSUME NEW s, NEW t, NEW R, NEW V, Sat(s, R, V), Idles(s, t), Abides(s, t)
    PROVE  Sat(t, R, V)
<1>1. Sits(t, R, V)
  BY IdleSits DEF Abides
<1>2. t \in AgentStates /\ Verdicts(t) = {} /\ Queries(t) = {}
  BY DEF Sat, Idles, Keeps, Abides, Follows
<1>3. ~shutdown => FlightOK(t, R)
  BY IdlesCalm DEF Sat, Calm
<1> QED BY <1>1, <1>2, <1>3 DEF Sat

\* While a call is pending no verdict is awaited.
LEMMA BusySits ==
    ASSUME NEW s, NEW t, NEW R, NEW V, Sat(s, R, V), s.pending_tools # {}, Follows(s, t), Paces(s, t),
           t.next_run = s.next_run, t.active_run \in {s.active_run, NoRun}, Drops(t) = Drops(s),
           t.pending_tools \subseteq s.pending_tools
    PROVE  Sits(t, R, V)
<1>1. Verdicts(t) = Verdicts(s) /\ Verdicts(s) = {} /\ (Queries(t) # {} => t.pending_tools = {})
  BY DEF Sat, Follows, Paces
<1>2. ASSUME ~shutdown PROVE Gated(t, R, V)
  <2>1. Gated(s, R, V) /\ \A q \in R : q.run # NoRun
    BY <1>2 DEF Sat, Sits, FlightOK
  <2>2. \A v \in V : v.run # s.active_run
    BY <2>1 DEF Gated, Judges
  <2> QED BY <1>1, <2>1, <2>2, GatedKept
<1> QED BY <1>2, KeptSits DEF Sat, Sits

LEMMA RepliesLeaves ==
    ASSUME NEW s, NEW t, NEW c, Replies(s, t, c)
    PROVE  /\ t.next_run = s.next_run /\ t.active_run \in {s.active_run, NoRun} /\ Drops(t) = Drops(s)
           /\ t.pending_tools = s.pending_tools \ {c}
BY DEF Replies, Answered, Moves, Idles, Inquires, Keeps

LEMMA HandlesLeaves ==
    ASSUME NEW s, NEW t, NEW c, Handles(s, t, c)
    PROVE  /\ t.next_run = s.next_run /\ t.active_run \in {s.active_run, NoRun} /\ Drops(t) = Drops(s)
           /\ t.pending_tools \subseteq s.pending_tools
<1>1. ASSUME NEW u, NEW v, Idles(u, v)
      PROVE  /\ v.next_run = u.next_run /\ v.active_run \in {u.active_run, NoRun}
             /\ Drops(v) = Drops(u) /\ v.pending_tools = u.pending_tools
  BY <1>1 DEF Idles, Keeps
<1>2. CASE Idles(s, t)
  BY <1>1, <1>2
<1>3. CASE Replies(s, t, c)
  BY <1>3, RepliesLeaves
<1>4. ASSUME NEW v, Replies(s, v, c), Idles(v, t)
      PROVE  /\ t.next_run = s.next_run /\ t.active_run \in {s.active_run, NoRun}
             /\ Drops(t) = Drops(s) /\ t.pending_tools \subseteq s.pending_tools
  BY <1>1, <1>4, RepliesLeaves
<1> QED BY <1>2, <1>3, <1>4 DEF Handles

LEMMA ReplySits ==
    ASSUME NEW s, NEW t, NEW R, NEW V, NEW c \in s.pending_tools, Sat(s, R, V), Replies(s, t, c),
           Follows(s, t), Paces(s, t)
    PROVE  Sits(t, R, V)
<1>1. t.pending_tools \subseteq s.pending_tools
  BY RepliesLeaves
<1> QED BY <1>1, RepliesLeaves, BusySits

LEMMA CancelSits ==
    ASSUME NEW s, NEW t, NEW R, NEW V, Sat(s, R, V), Cancels(s, t)
    PROVE  Sits(t, R, V)
<1>1. ~shutdown => Gated(t, R, V)
  BY GatedCancels DEF Sat, Sits
<1> QED BY <1>1 DEF Sat, Sits, Whole, Cancels

LEMMA SubmitSits ==
    ASSUME NEW s, NEW R, NEW V, NEW input \in Inputs, NEW o, Sat(s, R, V), ~shutdown, Balanced(s)
    PROVE  Sits(start_or_queue(s, input, o), R, V)
<1>1. CASE s.active_run = NoRun
  <2>1. Calm(s, R) /\ Sits(s, R, V)
    BY DEF Sat, Calm
  <2> QED BY <1>1, <2>1, StartSits DEF start_or_queue
<1>2. CASE s.active_run # NoRun
  <2> DEFINE queue == Append(s.queued_inputs, input)
             t == [s EXCEPT !.queued_inputs = queue]
  <2>1. start_or_queue(s, input, o) = t
    BY <1>2 DEF start_or_queue
  <2>2. s \in AgentStates /\ queue \in Seq(Inputs)
    BY FieldTypes DEF Sat
  <2>3. Abides(s, t)
    BY <2>2, QueueAbides
  <2>4. Requeues(s, t)
    BY <2>2, Zenon DEF AgentStates, Requeues
  <2> HIDE DEF t, queue
  <2>5. Drops(t) = Drops(s) /\ Queries(t) = {}
    BY <2>4 DEF Requeues, Drops, Queries, Sat
  <2>6. Gated(s, R, V) /\ \A q \in R : q.run # NoRun
    BY DEF Sat, Sits, FlightOK
  <2>7. Verdicts(t) = Verdicts(s) /\ Verdicts(s) = {} /\ t.gate_attempts = s.gate_attempts
    BY <2>3 DEF Sat, Abides, Follows
  <2>8. Gated(t, R, V)
    BY <2>4, <2>5, <2>6, <2>7, GatedKept DEF Requeues
  <2> QED BY <2>1, <2>3, <2>4, <2>5, <2>8, KeptSits DEF Sat, Sits, Abides, Requeues
<1> QED BY <1>1, <1>2

-----------------------------------------------------------------------------
(***************************************************************************)
(* The commands of the host.                                               *)
(***************************************************************************)
LEMMA AgentSteady ==
    ASSUME IInv, JInv, loop.at # "stopped"
    PROVE  Steady(agent, requests)
<1>1. agent \in AgentStates /\ Queries(agent) = {} /\ agent.next_run \in Nat
  BY NothingYet, FieldTypes
<1>2. Rest(agent)
  BY <1>1 DEF Rest, Base, JInv, BudgetInv
<1> QED BY <1>1, <1>2 DEF Steady, Calm, JInv, FlightInv

\* Tasks that came from the present ones, with no token restored.
LEMMA LandsHere ==
    ASSUME IInv, JInv, Receiving, NEW a, NEW w, Reduced(a, approved'), GoodTasks(w),
           Flies(a, w.requests), \A r \in w.requests : \E q \in requests : r.token = q.token,
           \A c \in ToolCalls : w.tools[c] = "running" => tools[c] = "running",
           loop.fatal => a.pending_tools = {}
    PROVE  Lands(a, w)
<1>1. loop.at = "ready" /\ ~shutdown
  BY DEF Receiving
<1>2. Tasks.requests = requests /\ Tasks.tools = tools
  BY DEF Tasks
<1>3. Tidy(w)
  BY <1>1, <1>2 DEF JInv, TokenInv, Tidy
<1>4. ASSUME loop.fatal PROVE Bare(a, w)
  <2>1. Clean /\ agent.active_run = NoRun
    BY <1>1, <1>4 DEF JInv, FatalInv
  <2>2. \A q \in requests : q.run # NoRun
    BY <1>1 DEF JInv, FlightInv, FlightOK
  <2> QED BY <1>4, <2>1, <2>2 DEF Clean, Bare
<1> QED BY <1>3, <1>4 DEF Lands

LEMMA NothingPending ==
    ASSUME JInv, loop.fatal
    PROVE  agent.pending_tools = {}
BY DEF JInv, FatalInv, Clean

\* With the requests and the calls' tasks as they are.
LEMMA LandsAt ==
    ASSUME IInv, JInv, Receiving, NEW a, NEW w, Reduced(a, approved'), Flies(a, requests),
           GoodTasks(w), w.requests = requests,
           \A c \in ToolCalls : w.tools[c] = "running" => tools[c] = "running",
           a.pending_tools \subseteq agent.pending_tools
    PROVE  Lands(a, w)
BY LandsHere, NothingPending

LEMMA TasksAsTheyAre ==
    ASSUME IInv
    PROVE  /\ GoodTasks(Tasks) /\ Tasks.requests = requests /\ Tasks.tools = tools
           /\ Tasks.evaluations = evaluations
BY TasksAreGood DEF Tasks

\* A command that starts no run and makes no request.
LEMMA IdleCommandKeeps ==
    ASSUME IInv, CallsInv, JInv, Receiving, NEW a, NEW w, NEW o, Idles(agent, a),
           Reduced(a, approved'), GoodTasks(w), w.requests = requests, w.evaluations = evaluations,
           \A c \in ToolCalls : w.tools[c] = "running" => tools[c] = "running",
           Follows(agent, a), Active => a.gate_attempts = agent.gate_attempts,
           shutdown' = shutdown, handle_command(a, w, o)
    PROVE  Kept
<1>1. Steady(agent, requests)
  BY AgentSteady DEF Receiving
<1>2. Flies(a, requests)
  BY <1>1, IdlesSteady, SteadyFlies
<1>4. a.pending_tools = agent.pending_tools /\ a.next_run = agent.next_run /\ agent.next_run \in Nat
  BY NothingYet, FieldTypes DEF Idles, Keeps
<1>5. Lands(a, w)
  BY <1>2, <1>4, LandsAt
<1>6. ASSUME KInv PROVE Sits(a, requests, evaluations)
  <2>1. Sat(agent, requests, evaluations)
    BY <1>6, AgentSat DEF Receiving
  <2>2. ~shutdown => \A v \in evaluations : v.run = agent.active_run => Active
    BY <1>6 DEF KInv, Sits, Gated, Active
  <2> QED BY <2>1, <2>2, IdleSits
<1> QED BY <1>4, <1>5, <1>6, IdlesFlows, HandleCommandKept

LEMMA SubmitKeeps ==
    ASSUME IInv, CallsInv, JInv, NEW i \in Inputs, NEW o, Submit(i, o)
    PROVE  Kept
<1> DEFINE t == start_or_queue(agent, i, o)
<1>1. /\ Receiving /\ i \in unsent \ unsent' /\ shutdown' = shutdown /\ handle_command(t, Tasks, o)
      /\ loop.at # "stopped"
  BY DEF Submit, Receiving
<1>2. agent \in AgentStates /\ agent.next_run \in Nat
  BY NothingYet, FieldTypes
<1>3. Reduced(t, approved')
  BY <1>2, StartOrQueueSteps, StepsReduced
<1>4. Flows(t)
  BY <1>1, SubmitFlows
<1>5. Requeues(agent, t) \/ (agent.active_run = NoRun /\ Begins(agent, t))
  BY <1>2, StartOrQueueBegins
<1>10. KInv => Sits(t, requests, evaluations)
  BY <1>1, AgentSat, SubmitSits DEF CallsInv, Receiving
<1> HIDE DEF t
<1>6. Steady(agent, requests)
  BY <1>1, AgentSteady
<1>7. Flies(t, requests)
  BY <1>5, <1>6, RequeuesSteady, SteadyFlies, BeginsFlies
<1>8. t.pending_tools = agent.pending_tools /\ t.next_run >= agent.next_run
  <2>1. t.pending_tools = agent.pending_tools /\ t.next_run \in {agent.next_run, agent.next_run + 1}
    BY <1>5 DEF Requeues, Begins, Opens, Idles, Inquires, Keeps
  <2> QED BY <1>2, <2>1
<1>9. Lands(t, Tasks)
  BY <1>1, <1>3, <1>7, <1>8, LandsAt, TasksAsTheyAre
<1> QED BY <1>1, <1>4, <1>8, <1>9, <1>10, HandleCommandKept, TasksAsTheyAre

LEMMA CancelKeeps ==
    ASSUME IInv, CallsInv, JInv, NEW o, Cancel(o)
    PROVE  Kept
<1> DEFINE t == cancel(agent)
<1>1. Receiving /\ shutdown' = shutdown /\ handle_command(t, Tasks, o) /\ loop.at # "stopped"
  BY DEF Cancel, HostCommand, Receiving
<1>2. agent \in AgentStates /\ agent.next_run \in Nat
  BY NothingYet, FieldTypes
<1>3. Reduced(t, approved')
  BY <1>2, CancelSteps, StepsReduced
<1>4. Flows(t)
  BY CancelFlows
<1>5. t = agent \/ Cancels(agent, t)
  BY <1>2, CancelCancels
<1> HIDE DEF t
<1>6. Flies(t, requests)
  BY <1>1, <1>5, AgentSteady, CancelsSteady, SteadyFlies
<1>7. t.pending_tools \subseteq agent.pending_tools /\ t.next_run >= agent.next_run
  BY <1>2, <1>5 DEF Cancels
<1>8. Lands(t, Tasks)
  BY <1>1, <1>3, <1>6, <1>7, LandsAt, TasksAsTheyAre
<1>9. KInv => Sits(t, requests, evaluations)
  BY <1>1, <1>5, AgentSat, CancelSits DEF KInv
<1> QED BY <1>1, <1>4, <1>7, <1>8, <1>9, HandleCommandKept, TasksAsTheyAre

LEMMA HostStepKeeps ==
    ASSUME IInv, CallsInv, JInv, "Resume" \notin HostCommands, NEW o, HostStep(o)
    PROVE  Kept
<1>1. agent \in AgentStates /\ unsent \subseteq Inputs
  BY DEF IInv, TypeOK
<1>2. \A c \in ToolCalls : Tasks.tools[c] = "running" => tools[c] = "running"
  BY TasksAsTheyAre
<1>3. ASSUME NEW a, Idles(agent, a), Reduced(a, approved'), Follows(agent, a),
             Active => a.gate_attempts = agent.gate_attempts, HostCommand(a, o)
      PROVE  Kept
  <2>1. Receiving /\ shutdown' = shutdown /\ handle_command(a, Tasks, o)
    BY <1>3 DEF HostCommand
  <2> QED BY <1>2, <1>3, <2>1, IdleCommandKeeps, TasksAsTheyAre
<1>4. ASSUME NEW i \in unsent, Submit(i, o) PROVE Kept
  BY <1>1, <1>4, SubmitKeeps
<1>5. CASE Cancel(o)
  BY <1>5, CancelKeeps
<1>6. CASE Pause(o)
  BY <1>1, <1>3, <1>6, PauseIdles, PauseSteps, StepsReduced, PauseAbides DEF Pause, Abides
<1>7. CASE Resume(o)
  BY <1>7 DEF Resume, Control
<1>8. CASE SpawnChild(o)
  BY <1>1, <1>3, <1>8, SpawnCommandIdles, SpawnCommandReduced, SpawnCommandAbides DEF SpawnChild, Abides
<1>9. ASSUME NEW p \in Profiles, SetBehaviorProfile(p, o) PROVE Kept
  BY <1>1, <1>3, <1>9, SetBehaviorProfileIdles, SetBehaviorProfileSteps, StepsReduced,
     SetBehaviorProfileFollows
     DEF SetBehaviorProfile, Active
<1> QED BY <1>4, <1>5, <1>6, <1>7, <1>8, <1>9 DEF HostStep

LEMMA RepliesPending ==
    ASSUME NEW s, NEW t, NEW c, Replies(s, t, c)
    PROVE  t.pending_tools = s.pending_tools \ {c}
BY DEF Replies, Answered, Moves, Idles, Inquires, Keeps

LEMMA ResolvePermissionKeeps ==
    ASSUME IInv, CallsInv, JInv, NEW c \in ToolCalls, NEW yes \in BOOLEAN, NEW o,
           ResolvePermission(c, yes, o)
    PROVE  Kept
<1> DEFINE t == permission_resolved(agent, c, yes, o)
<1>1. Receiving /\ shutdown' = shutdown /\ handle_command(t, Tasks, o) /\ loop.at # "stopped"
  BY DEF ResolvePermission, Receiving
<1>2. agent \in AgentStates /\ agent.next_run \in Nat
  BY NothingYet, FieldTypes
<1>3. Reduced(t, approved')
  BY ResolvePermissionReduces
<1>4. Flows(t)
  BY PermissionResolvedFlows
<1>5. PICK v : /\ Idles(agent, v)
               /\ t = v \/ (c \in v.pending_tools /\ (Idles(v, t) \/ Replies(v, t, c)))
  BY <1>2, PermissionResolvedHandles
<1>10. t = agent \/ c \in agent.pending_tools
  BY DEF permission_resolved, IInv, PendingInv
<1>11. Follows(agent, t) /\ Paces(agent, t)
  BY <1>2, PendingOwes, PermissionResolvedFollows DEF CallsInv
<1> HIDE DEF t
<1>6. Steady(v, requests)
  BY <1>1, <1>5, AgentSteady, IdlesSteady
<1>7. Flies(t, requests)
  BY <1>5, <1>6, IdlesSteady, SteadyFlies, RepliesFlies
<1>8. t.pending_tools \subseteq agent.pending_tools /\ t.next_run = agent.next_run
  <2>1. v.pending_tools = agent.pending_tools /\ v.next_run = agent.next_run
    BY <1>5 DEF Idles, Keeps
  <2>2. ASSUME Idles(v, t) PROVE t.pending_tools = v.pending_tools /\ t.next_run = v.next_run
    BY <2>2 DEF Idles, Keeps
  <2>3. ASSUME Replies(v, t, c) PROVE t.pending_tools \subseteq v.pending_tools /\ t.next_run = v.next_run
    <3>1. t.pending_tools = v.pending_tools \ {c} /\ t.next_run = v.next_run
      BY <2>3, RepliesPending, RepliesKeep
    <3> QED BY <3>1
  <2> QED BY <1>5, <2>1, <2>2, <2>3
<1>9. Lands(t, Tasks)
  BY <1>1, <1>3, <1>7, <1>8, LandsAt, TasksAsTheyAre
<1>12. ASSUME KInv PROVE Sits(t, requests, evaluations)
  <2>1. Sat(agent, requests, evaluations)
    BY <1>1, <1>12, AgentSat
  <2>2. t.active_run \in {agent.active_run, NoRun} /\ Drops(t) = Drops(agent)
    <3>1. v.active_run \in {agent.active_run, NoRun} /\ Drops(v) = Drops(agent)
      BY <1>5 DEF Idles, Keeps
    <3>2. ASSUME Handles(v, t, c) PROVE t.active_run \in {v.active_run, NoRun} /\ Drops(t) = Drops(v)
      BY <3>2, HandlesLeaves
    <3> QED BY <1>5, <3>1, <3>2 DEF Handles
  <2>3. ASSUME c \in agent.pending_tools PROVE Sits(t, requests, evaluations)
    BY <1>8, <1>11, <2>1, <2>2, <2>3, BusySits
  <2> QED BY <1>10, <2>1, <2>3 DEF Sat
<1> QED BY <1>1, <1>2, <1>4, <1>8, <1>9, <1>12, HandleCommandKept, TasksAsTheyAre

-----------------------------------------------------------------------------
(***************************************************************************)
(* The reports of the tasks.                                               *)
(***************************************************************************)
LEMMA BackendEventKeeps ==
    ASSUME IInv, CallsInv, JInv, NEW q \in requests, NEW react, NEW rest, NEW o,
           rest = {} \/ \E p \in RequestTasks : rest = {p} /\ p.run = q.run /\ p.token = q.token,
           Reduced(react, approved), Flows(react), react.next_run = agent.next_run,
           q.run = agent.active_run =>
               /\ Flies(react, (requests \ {q}) \cup rest)
               /\ KInv => Sits(react, (requests \ {q}) \cup rest, evaluations),
           BackendEvent(q, react, rest, o)
    PROVE  Kept
<1> DEFINE a == IF agent.active_run = q.run THEN react ELSE agent
           R == (requests \ {q}) \cup rest
           w == [Tasks EXCEPT !.requests = R]
<1>1. /\ Receiving /\ shutdown' = shutdown /\ approved' = approved /\ loop.at = "ready" /\ ~shutdown
  BY DEF BackendEvent, Receiving
<1>2. handle_command(a, w, o)
  BY DEF BackendEvent, Tasks
<1>3. /\ agent \in AgentStates /\ agent.next_run \in Nat /\ requests \subseteq RequestTasks
  BY NothingYet, FieldTypes DEF IInv, TypeOK
<1>4. w.requests = R /\ w.tools = tools /\ w.evaluations = evaluations
  BY DEF Tasks
<1>5. GoodTasks(w)
  <2>1. R \in SUBSET RequestTasks
    BY <1>3
  <2> QED BY <2>1, TasksAreGood
<1>6. Steady(agent, requests)
  BY <1>1, AgentSteady
<1>7. q.run # agent.active_run => Steady(agent, R)
  <2>1. Calm(agent, requests) /\ Rest(agent)
    BY <1>1, <1>6 DEF Steady
  <2>2. ASSUME q.run # agent.active_run, rest = {} PROVE Calm(agent, R)
    <3>1. R = requests \ {q}
      BY <2>2
    <3> QED BY <2>1, <2>2, <3>1, StrayEndsFlight
  <2>3. ASSUME NEW p, rest = {p}, p.run = q.run, p.token = q.token PROVE Calm(agent, R)
    <3>1. R = (requests \ {q}) \cup {p}
      BY <2>3
    <3> QED BY <2>1, <2>3, <3>1, ReplacedFlight
  <2> HIDE DEF R
  <2> QED BY <2>1, <2>2, <2>3 DEF Steady
<1>8. Reduced(a, approved') /\ Flows(a) /\ a.next_run >= agent.next_run
  <2>1. Reduced(agent, approved') /\ Flows(agent)
    BY <1>3, StepsReflexive, StepsReduced, IdlesReflexive, IdlesFlows
  <2>2. Reduced(react, approved')
    BY <1>1
  <2> QED BY <1>3, <2>1, <2>2
<1>9. Flies(a, R)
  <2> HIDE DEF R
  <2> QED BY <1>7, SteadyFlies DEF R
<1>10. loop.fatal => a.pending_tools = {}
  <2>1. ASSUME loop.fatal PROVE a = agent
    <3>1. agent.active_run = NoRun /\ q.run # NoRun
      BY <1>1, <2>1 DEF JInv, FatalInv, FlightInv, FlightOK
    <3> QED BY <3>1
  <2> HIDE DEF a
  <2> QED BY <2>1, NothingPending
<1>11. \A r \in w.requests : \E p \in requests : r.token = p.token
  BY <1>4
<1>13. ASSUME KInv PROVE Sits(a, R, evaluations)
  <2>1. ASSUME q.run # agent.active_run PROVE Sits(agent, R, evaluations)
    <3>1. Sits(agent, requests, evaluations) /\ Gated(agent, requests, evaluations)
      BY <1>1, <1>13 DEF KInv, Sits
    <3>2. \A p \in R : p.run = agent.active_run /\ ~p.called =>
            \E r \in requests : r.run = p.run /\ ~r.called
      BY <2>1
    <3> HIDE DEF R
    <3>3. Gated(agent, R, evaluations)
      BY <3>1, <3>2, FewerGated
    <3> QED BY <3>1, <3>3 DEF Sits
  <2> HIDE DEF R
  <2> QED BY <1>13, <2>1 DEF R
<1> HIDE DEF a, w, R
<1>12. Lands(a, w)
  BY <1>1, <1>4, <1>5, <1>8, <1>9, <1>10, <1>11, LandsHere
<1> QED BY <1>1, <1>2, <1>4, <1>8, <1>12, <1>13, HandleCommandKept

\* While its request q is out, the run of the agent knows it.
LEMMA StreamSteady ==
    ASSUME IInv, JInv, Receiving, NEW q \in requests, NEW p, p.run = q.run, p.token = q.token
    PROVE  /\ Steady(agent, (requests \ {q}) \cup {p})
           /\ q.run = agent.active_run => agent.backend_in_flight
<1>1. Steady(agent, requests) /\ ~shutdown
  BY AgentSteady DEF Receiving
<1>2. Calm(agent, (requests \ {q}) \cup {p})
  BY <1>1, ReplacedFlight DEF Steady
<1>3. ASSUME q.run = agent.active_run PROVE agent.backend_in_flight
  BY <1>1, <1>3 DEF Steady, Calm, FlightOK
<1> QED BY <1>1, <1>2, <1>3 DEF Steady

\* Nor is a verdict on it awaited.
LEMMA StreamAlone ==
    ASSUME IInv, JInv, KInv, Receiving, NEW q \in requests, q.run = agent.active_run
    PROVE  \A v \in evaluations : v.run # agent.active_run
<1>1. agent.backend_in_flight
  BY StreamSteady
<1>2. Gated(agent, requests, evaluations)
  BY DEF KInv, Sits, Receiving
<1> QED BY <1>1, <1>2 DEF Gated, Judges

LEMMA RequestStreamsKeeps ==
    ASSUME IInv, CallsInv, JInv, NEW q \in requests, NEW o, RequestStreams(q, o)
    PROVE  Kept
<1>1. agent \in AgentStates /\ q \in RequestTasks /\ agent.backend_in_flight \in BOOLEAN
  BY FieldTypes DEF IInv, TypeOK
<1>2. Receiving
  BY DEF RequestStreams, TextDelta, ReasoningDelta, ToolCallRequested, BackendEvent
<1>3. ASSUME NEW a, Idles(agent, a), Steps(agent, a, {}), Follows(agent, a),
             BackendEvent(q, a, {q}, o)
      PROVE  Kept
  <2> DEFINE R == (requests \ {q}) \cup {q}
  <2>1. Flies(a, R)
    BY <1>2, <1>3, StreamSteady, IdlesSteady, SteadyFlies
  <2>2. Reduced(a, approved) /\ Flows(a) /\ a.next_run = agent.next_run
    BY <1>3, StepsReduced, IdlesFlows DEF Idles, Keeps
  <2>3. ASSUME KInv, q.run = agent.active_run PROVE Sits(a, R, evaluations)
    <3>1. R = requests
      OBVIOUS
    <3>2. \A v \in evaluations : v.run # agent.active_run
      BY <1>2, <2>3, StreamAlone
    <3>3. Sat(agent, requests, evaluations)
      BY <1>2, <2>3, AgentSat DEF Receiving
    <3> QED BY <1>3, <3>1, <3>2, <3>3, IdleSits
  <2> QED BY <1>1, <1>3, <2>1, <2>2, <2>3, BackendEventKeeps
<1>4. CASE TextDelta(q, o)
  BY <1>1, <1>3, <1>4, TextDeltaIdles, TextDeltaSteps, TextDeltaFollows DEF TextDelta
<1>5. CASE ReasoningDelta(q, o)
  BY <1>1, <1>3, <1>5, ReasoningDeltaIdles, ReasoningDeltaSteps, ReasoningDeltaFollows
     DEF ReasoningDelta
<1>6. ASSUME NEW c \in ToolCalls, ToolCallRequested(q, c, o) PROVE Kept
  <2> DEFINE t == tool_requested(agent, c, o)
             p == [q EXCEPT !.called = TRUE]
             R == (requests \ {q}) \cup {p}
  <2>1. c \notin CallsIn(agent.messages) /\ BackendEvent(q, t, {p}, o)
    BY <1>6 DEF ToolCallRequested
  <2>2. p \in RequestTasks /\ p.run = q.run /\ p.token = q.token /\ p.called = TRUE
    BY <1>1, Zenon DEF RequestTasks
  <2>3. Reduced(t, approved) /\ Flows(t)
    BY <2>1, ToolRequestedReduces, ToolRequestedFlows
  <2>4. PICK u, v : /\ Declares(agent, u, c) /\ Idles(u, v)
                    /\ v.backend_in_flight = u.backend_in_flight
                    /\ Handles(v, t, c)
    BY <1>1, ToolRequestedHandles
  <2>7. Follows(agent, t)
    <3>1. CallsIn(agent.messages) = CallsOf(agent.messages, "ToolUse")
      BY <1>1, FieldTypes, CallsInOf
    <3> QED BY <1>1, <2>1, <3>1, ToolRequestedFollows DEF CallsInv, Balanced, Answers
  <2> HIDE DEF t, p
  <2>5. t.next_run = agent.next_run
    BY <2>4, HandlesKeep DEF Declares, Idles, Keeps
  <2>6. ASSUME q.run = agent.active_run PROVE Flies(t, R) /\ Steady(t, R)
    <3>1. Steady(agent, R) /\ agent.backend_in_flight
      BY <1>2, <2>2, <2>6, StreamSteady
    <3> HIDE DEF R
    <3>2. Steady(v, R)
      BY <2>4, <3>1, DeclaresSteady, IdlesSteady
    <3>3. v.backend_in_flight
      BY <2>4, <3>1 DEF Declares
    <3>4. Steady(t, R)
      BY <2>4, <3>2, <3>3, HandlesSteady
    <3> QED BY <3>4, SteadyFlies
  <2>8. ASSUME KInv, q.run = agent.active_run PROVE Sits(t, R, evaluations)
    <3>1. /\ Ordered(agent.messages) /\ Whole(agent) /\ Gated(agent, requests, evaluations)
          /\ FlightOK(agent, requests) /\ ~shutdown
      BY <1>2, <2>8, AgentSat DEF Sat, Sits, Receiving
    <3>2. \A x \in evaluations : x.run # agent.active_run
      BY <1>2, <2>8, StreamAlone
    <3>3. /\ t.next_run = agent.next_run /\ t.active_run \in {agent.active_run, NoRun}
          /\ Drops(t) = Drops(agent)
      <4>1. u.active_run = agent.active_run /\ Drops(u) = Drops(agent)
        BY <2>4 DEF Declares
      <4>2. v.active_run \in {u.active_run, NoRun} /\ Drops(v) = Drops(u)
        BY <2>4 DEF Idles, Keeps
      <4>3. t.active_run \in {v.active_run, NoRun} /\ Drops(t) = Drops(v)
        BY <2>4, HandlesLeaves
      <4> QED BY <2>5, <4>1, <4>2, <4>3
    <3>4. Queries(t) = {}
      BY <2>6, <2>8, <3>1 DEF Steady, Calm
    <3>5. Verdicts(t) = {}
      BY <2>7, NoVerdictsYet DEF Follows
    <3>6. \A r \in R : r.run = t.active_run => r.called
      <4>1. \A r \in requests : r.run = agent.active_run => r = q
        BY <2>8, <3>1 DEF FlightOK
      <4>2. \A r \in requests : r.run # NoRun
        BY <3>1 DEF FlightOK
      <4> QED BY <2>2, <3>3, <4>1, <4>2
    <3>7. Gated(t, R, evaluations)
      <4>1. \A x \in evaluations : x.run # NoRun /\ Known(x.run, t) /\ x.run # t.active_run
        BY <3>1, <3>2, <3>3 DEF Gated, Known
      <4> HIDE DEF R
      <4> QED BY <3>4, <3>5, <3>6, <4>1 DEF Gated
    <3> HIDE DEF R
    <3> QED BY <2>7, <3>1, <3>3, <3>7, KeptSits
  <2> QED BY <2>1, <2>2, <2>3, <2>5, <2>6, <2>8, BackendEventKeeps
<1> QED BY <1>4, <1>5, <1>6 DEF RequestStreams

\* The last request of the run ends, and it goes on, or its answer goes to the gate.
LEMMA RequestEndsSits ==
    ASSUME IInv, JInv, KInv, Receiving, NEW q \in requests, q.run = agent.active_run, NEW u, NEW t,
           Closes(agent, u), Follows(agent, u),
           \/ Moves(u, t) /\ Follows(u, t) /\ Paces(u, t)
           \/ Submits(u, t) /\ agent.pending_tools = {}
    PROVE  Sits(t, requests \ {q}, evaluations)
<1> DEFINE R == requests \ {q}
<1>1. /\ Ordered(agent.messages) /\ Whole(agent) /\ Gated(agent, requests, evaluations)
      /\ FlightOK(agent, requests) /\ Verdicts(agent) = {} /\ Queries(agent) = {} /\ ~shutdown
  BY AgentSat DEF Sat, Sits, Receiving
<1>2. \A v \in evaluations : v.run # agent.active_run
  BY StreamAlone
<1>3. agent.active_run # NoRun /\ \A r \in R : r.run # NoRun
  BY <1>1 DEF FlightOK
<1>4. Gated(agent, R, evaluations)
  BY <1>1, FewerGated
<1> HIDE DEF R
<1>5. /\ Queries(u) = {} /\ Verdicts(u) = {} /\ u.active_run = agent.active_run /\ ~u.backend_in_flight
      /\ u.next_run = agent.next_run /\ u.pending_tools = agent.pending_tools
      /\ Drops(u) = Drops(agent)
  BY <1>1 DEF Closes, Keeps, Follows
<1>6. Gated(u, R, evaluations)
  BY <1>1, <1>2, <1>3, <1>4, <1>5, GatedKept
<1>7. Ordered(u.messages) /\ Whole(u)
  BY <1>1, <1>5 DEF Follows, Whole
<1>8. ASSUME Moves(u, t), Follows(u, t), Paces(u, t) PROVE Sits(t, R, evaluations)
  <2>1. /\ t.next_run = u.next_run /\ t.active_run \in {u.active_run, NoRun} /\ Drops(t) = Drops(u)
        /\ t.pending_tools = u.pending_tools
    BY <1>8 DEF Moves, Idles, Inquires, Keeps
  <2>2. Verdicts(t) = Verdicts(u) /\ (Queries(t) # {} => t.pending_tools = {})
    BY <1>5, <1>8 DEF Follows, Paces
  <2>3. Gated(t, R, evaluations)
    BY <1>2, <1>3, <1>5, <1>6, <2>1, <2>2, GatedKept
  <2> QED BY <1>7, <1>8, <2>1, <2>3, KeptSits
<1>9. ASSUME Submits(u, t), agent.pending_tools = {} PROVE Sits(t, R, evaluations)
  <2>1. Gated(t, R, evaluations)
    BY <1>2, <1>3, <1>5, <1>6, <1>9, GatedSubmits
  <2>2. t.messages = u.messages /\ Drops(t) = Drops(u) /\ t.active_run = u.active_run
    BY <1>9 DEF Submits, Verifies, Keeps
  <2> QED BY <1>7, <2>1, <2>2 DEF Sits, Whole
<1> QED BY <1>8, <1>9 DEF R

LEMMA RequestEndsKeeps ==
    ASSUME IInv, CallsInv, JInv, NEW q \in requests, NEW o, RequestEnds(q, o)
    PROVE  Kept
<1>1. agent \in AgentStates
  BY DEF IInv, TypeOK
<1>2. Receiving /\ ~shutdown /\ loop.at # "stopped"
  BY DEF RequestEnds, Completed, BackendError, BackendEvent, Receiving
<1>3. Steady(agent, requests) /\ Calm(agent, requests)
  BY <1>2, AgentSteady DEF Steady
<1> DEFINE R == requests \ {q}
<1>4. (requests \ {q}) \cup {} = R
  OBVIOUS
<1>5. CASE BackendError(q, o)
  <2> DEFINE t == fail(agent)
  <2>1. Idles(agent, t) /\ t.active_run = NoRun /\ Steps(agent, t, {})
    BY <1>1, FailIdles, FailSteps
  <2>2. BackendEvent(q, t, {}, o)
    BY <1>5 DEF BackendError
  <2>8. Follows(agent, t)
    BY <1>1, FailFollows
  <2> HIDE DEF t
  <2>3. Steady(t, requests)
    BY <1>3, <2>1, IdlesSteady
  <2>4. Steady(t, R)
    BY <1>2, <2>1, <2>3, StoppedFlight DEF Steady
  <2>5. Reduced(t, approved) /\ Flows(t) /\ t.next_run = agent.next_run
    BY <2>1, StepsReduced, IdlesFlows DEF Idles, Keeps
  <2>6. Flies(t, (requests \ {q}) \cup {})
    BY <1>4, <2>4, SteadyFlies
  <2>7. ASSUME KInv, q.run = agent.active_run PROVE Sits(t, R, evaluations)
    <3>1. Sat(agent, requests, evaluations)
      BY <1>2, <2>7, AgentSat
    <3>2. \A x \in evaluations : x.run # agent.active_run
      BY <1>2, <2>7, StreamAlone
    <3>3. Sits(t, requests, evaluations)
      BY <2>1, <2>8, <3>1, <3>2, IdleSits
    <3>4. Gated(t, R, evaluations)
      BY <1>2, <3>3, FewerGated DEF Sits
    <3> QED BY <3>3, <3>4 DEF Sits
  <2>9. KInv /\ q.run = agent.active_run => Sits(t, (requests \ {q}) \cup {}, evaluations)
    BY <1>4, <2>7
  <2> QED BY <2>2, <2>5, <2>6, <2>9, BackendEventKeeps
<1>6. ASSUME NEW reason \in FinishReasons, NEW failures, Completed(q, reason, failures, o)
      PROVE  Kept
  <2> DEFINE t == completed(agent, reason, failures, o)
  <2>1. Steps(agent, t, {})
    BY <1>1, CompletedSteps
  <2>2. PICK u : Closes(agent, u) /\ (Moves(u, t) \/ Verifies(u, t))
    BY <1>1, CompletedCloses
  <2>3. BackendEvent(q, t, {}, o)
    BY <1>6 DEF Completed
  <2>4. Flows(t)
    BY CompletedFlows
  <2>8. ASSUME KInv, q.run = agent.active_run
        PROVE  \E x : /\ Closes(agent, x) /\ Follows(agent, x)
                      /\ \/ Moves(x, t) /\ Follows(x, t) /\ Paces(x, t)
                         \/ Submits(x, t) /\ agent.pending_tools = {}
    <3>1. q.run # NoRun /\ Gated(agent, requests, evaluations) /\ Whole(agent)
      BY <1>2, <1>3, <2>8 DEF Calm, FlightOK, KInv, Sits
    <3>2. ASSUME reason \notin {"tool_use", "max_tokens"}
          PROVE  Resolved(agent) /\ agent.pending_tools = {}
      <4>1. agent.pending_tools = {}
        BY <1>6, <2>8, <3>1, <3>2 DEF Gated, Completed, FinishReasons
      <4> QED BY <2>8, <3>1, <4>1, WholeResolved DEF CallsInv
    <3> QED BY <1>1, <3>2, CompletedFollows
  <2> HIDE DEF t
  <2>5. Reduced(t, approved) /\ t.next_run = agent.next_run
    BY <2>1, <2>2, StepsReduced, MovesKeeps DEF Closes, Verifies, Keeps
  <2>6. ASSUME q.run = agent.active_run PROVE Flies(t, R)
    <3>1. Calm(u, R) /\ ~u.backend_in_flight
      BY <1>3, <2>2, <2>6, ClosesCalm
    <3>2. Rest(u)
      BY <1>3, <2>2, SameRest DEF Steady, Closes, Keeps
    <3>3. Steady(u, R)
      BY <3>1, <3>2 DEF Steady
    <3>4. ASSUME Verifies(u, t) PROVE Steady(t, R)
      <4>1. Rest(t)
        BY <3>2, <3>4, SameRest DEF Verifies, Keeps
      <4> QED BY <3>1, <3>4, <4>1, VerifiesCalm DEF Steady
    <3> QED BY <2>2, <3>3, <3>4, MovesFlies, SteadyFlies
  <2>7. q.run = agent.active_run => Flies(t, (requests \ {q}) \cup {})
    BY <1>4, <2>6
  <2>9. ASSUME KInv, q.run = agent.active_run PROVE Sits(t, R, evaluations)
    <3>1. PICK x : /\ Closes(agent, x) /\ Follows(agent, x)
                   /\ \/ Moves(x, t) /\ Follows(x, t) /\ Paces(x, t)
                      \/ Submits(x, t) /\ agent.pending_tools = {}
      BY <2>8, <2>9
    <3> QED BY <2>9, <3>1, RequestEndsSits, <1>2
  <2>10. KInv /\ q.run = agent.active_run => Sits(t, (requests \ {q}) \cup {}, evaluations)
    BY <1>4, <2>9
  <2> QED BY <2>3, <2>4, <2>5, <2>7, <2>10, BackendEventKeeps
<1> QED BY <1>5, <1>6 DEF RequestEnds

\* A report that changes neither the requests nor, for the worse, the calls' tasks.
LEMMA ToolEndsKeeps ==
    ASSUME IInv, CallsInv, JInv, NEW c \in ToolCalls, NEW o, ToolEnds(c, o)
    PROVE  Kept
<1>1. PICK outcome : ToolReports(c, outcome, o)
  BY DEF ToolEnds
<1> DEFINE t == IF outcome = "Completed" THEN tool_completed(agent, c, o)
                ELSE tool_failed(agent, c, outcome, o)
           T == [tools EXCEPT ![c] = "ended"]
           w == [Tasks EXCEPT !.tools = T]
<1>2. /\ Receiving /\ shutdown' = shutdown /\ approved' = approved /\ loop.at # "stopped"
      /\ tools[c] # "none"
  BY <1>1 DEF ToolReports, ToolLives, Receiving
<1>3. agent \in AgentStates /\ agent.next_run \in Nat /\ tools \in [ToolCalls -> ToolStates]
  BY NothingYet, FieldTypes DEF IInv, TypeOK
<1>4. handle_command(t, w, o)
  <2>1. w = [Tasks EXCEPT !.tools[c] = "ended"]
    BY DEF Tasks
  <2> QED BY <1>1, <2>1 DEF ToolReports
<1>5. Reduced(t, approved')
  BY <1>3, ToolCompletedSteps, ToolFailedSteps, StepsReduced
<1>6. Flows(t)
  BY ToolResultFlows
<1>7. t = agent \/ (c \in agent.pending_tools /\ Replies(agent, t, c))
  BY <1>3, ToolCompletedReplies, ToolFailedReplies
<1>13. Follows(agent, t) /\ Paces(agent, t)
  <2>1. c \in agent.pending_tools => Owes(agent, c)
    BY PendingOwes DEF CallsInv
  <2> QED BY <1>3, <2>1, ToolCompletedFollows, ToolFailedFollows
<1>8. GoodTasks(w)
  BY <1>2, TasksAreGood
<1>9. /\ w.requests = requests /\ w.evaluations = evaluations
      /\ \A d \in ToolCalls : w.tools[d] = "running" => tools[d] = "running"
  BY <1>3 DEF Tasks
<1> HIDE DEF t, w
<1>10. Flies(t, requests)
  BY <1>2, <1>7, AgentSteady, SteadyFlies, RepliesFlies
<1>11. t.pending_tools \subseteq agent.pending_tools /\ t.next_run = agent.next_run
  <2>1. ASSUME Replies(agent, t, c)
        PROVE  t.pending_tools = agent.pending_tools \ {c} /\ t.next_run = agent.next_run
    BY <2>1, RepliesPending, RepliesKeep
  <2> QED BY <1>7, <2>1
<1>12. Lands(t, w)
  BY <1>2, <1>5, <1>8, <1>9, <1>10, <1>11, LandsAt
<1>14. KInv => Sits(t, requests, evaluations)
  BY <1>2, <1>7, <1>13, AgentSat, ReplySits DEF KInv
<1> QED BY <1>2, <1>3, <1>4, <1>6, <1>9, <1>11, <1>12, <1>14, HandleCommandKept

LEMMA EvaluationEndsKeeps ==
    ASSUME IInv, CallsInv, JInv, NEW v \in evaluations, NEW o, EvaluationEnds(v, o)
    PROVE  Kept
<1>1. PICK failures : EvaluationReports(v, failures, o)
  BY DEF EvaluationEnds
<1> DEFINE t == completion_evaluated(agent, v.run, v.attempt, failures, o)
           V == evaluations \ {v}
           w == [Tasks EXCEPT !.evaluations = V]
<1>2. /\ Receiving /\ ~shutdown /\ shutdown' = shutdown /\ approved' = approved /\ loop.at # "stopped"
      /\ handle_command(t, w, o)
  BY <1>1 DEF EvaluationReports, Receiving, Tasks
<1>3. agent \in AgentStates /\ agent.next_run \in Nat /\ V \in SUBSET EvaluationTasks
  BY NothingYet, FieldTypes DEF IInv, TypeOK
<1>4. Reduced(t, approved')
  BY <1>3, CompletionEvaluatedSteps, StepsReduced
<1>5. Idles(agent, t) \/ (agent.status = "Verifying" /\ Inquires(agent, t))
  BY <1>3, CompletionEvaluatedMoves
<1>6. GoodTasks(w)
  BY <1>3, TasksAreGood
<1>7. /\ w.requests = requests /\ w.evaluations = V
      /\ \A d \in ToolCalls : w.tools[d] = "running" => tools[d] = "running"
  BY DEF Tasks
<1>13. v.run # agent.active_run => t = agent
  BY DEF completion_evaluated, VerdictExpected
<1>14. (VerdictExpected(agent, v.run, v.attempt) => Resolved(agent)) => Follows(agent, t)
  BY <1>3, CompletionEvaluatedFollows
<1> HIDE DEF t, w
<1>8. Flows(t)
  BY <1>5, MovesFlows
<1>9. Moves(agent, t)
  <2>1. agent.status = "Verifying" => ~agent.backend_in_flight
    BY <1>2 DEF JInv, FlightInv, FlightOK
  <2> QED BY <1>5, <2>1 DEF Moves
<1>10. Flies(t, requests)
  BY <1>2, <1>9, AgentSteady, MovesFlies
<1>11. t.pending_tools = agent.pending_tools /\ t.next_run = agent.next_run
  BY <1>9, MovesKeeps DEF Keeps
<1>12. Lands(t, w)
  BY <1>2, <1>4, <1>6, <1>7, <1>10, <1>11, LandsAt
<1>15. ASSUME KInv PROVE Sits(t, requests, V)
  <2>1. /\ Ordered(agent.messages) /\ Whole(agent) /\ Gated(agent, requests, evaluations)
        /\ FlightOK(agent, requests) /\ Verdicts(agent) = {} /\ Queries(agent) = {}
    BY <1>2, <1>15, AgentSat DEF Sat, Sits
  <2>2. Gated(agent, requests, V)
    BY <2>1, FewerGated
  <2>3. ASSUME v.run = agent.active_run PROVE Sits(t, requests, V)
    <3>1. Judges(v, agent) /\ v.run # NoRun /\ \A x \in V : x.run # agent.active_run
      BY <2>1, <2>3 DEF Gated
    <3> HIDE DEF V
    <3>2. Resolved(agent)
      BY <2>1, <2>3, <3>1, WholeResolved DEF CallsInv, Judges
    <3>3. Follows(agent, t)
      BY <1>14, <3>2
    <3>4. /\ t.active_run \in {agent.active_run, NoRun} /\ Drops(t) = Drops(agent)
          /\ t.pending_tools = {} /\ Verdicts(t) = Verdicts(agent)
      BY <1>9, <1>11, <3>1, <3>3 DEF Moves, Idles, Inquires, Keeps, Judges, Follows
    <3>5. Gated(t, requests, V)
      BY <1>11, <2>1, <2>2, <3>1, <3>4, GatedKept DEF FlightOK
    <3> QED BY <2>1, <3>3, <3>4, <3>5, KeptSits
  <2> HIDE DEF V
  <2>4. Sits(agent, requests, V)
    BY <2>1, <2>2 DEF Sits
  <2> QED BY <1>13, <2>3, <2>4
<1> HIDE DEF V
<1> QED BY <1>2, <1>3, <1>7, <1>8, <1>11, <1>12, <1>15, HandleCommandKept

LEMMA ChildReportedKeeps ==
    ASSUME IInv, CallsInv, JInv, NEW k \in Children, NEW o, ChildReported(k, o)
    PROVE  Kept
<1> DEFINE a == child_ended(agent, k)
           K == [kids EXCEPT ![k] = "gone"]
           w == [Tasks EXCEPT !.kids = K]
<1>1. agent \in AgentStates /\ kids \in [Children -> KidStates]
  BY DEF IInv, TypeOK
<1>2. Receiving /\ shutdown' = shutdown
  BY DEF ChildReported
<1>3. handle_command(a, w, o)
  <2>1. w = [Tasks EXCEPT !.kids[k] = "gone"]
    BY DEF Tasks
  <2> QED BY <2>1 DEF ChildReported
<1>4. Idles(agent, a) /\ Reduced(a, approved') /\ Abides(agent, a)
  BY <1>1, ChildEndedIdles, ChildEndedSteps, StepsReduced, ChildEndedAbides
<1>5. GoodTasks(w)
  <2>1. K \in [Children -> KidStates]
    BY <1>1 DEF KidStates
  <2> QED BY <2>1, TasksAreGood
<1>6. /\ w.requests = requests /\ w.evaluations = evaluations
      /\ \A d \in ToolCalls : w.tools[d] = "running" => tools[d] = "running"
  BY DEF Tasks
<1> HIDE DEF a, w
<1> QED BY <1>2, <1>3, <1>4, <1>5, <1>6, IdleCommandKeeps DEF Abides

-----------------------------------------------------------------------------
(***************************************************************************)
(* The loop between commands: spawns, and the end of the session.          *)
(***************************************************************************)
\* The loop waits, and answers the call it runs when it goes on.
LEMMA InlineKeeps ==
    ASSUME IInv, JInv, loop.at \in {"spawning", "awaiting"}, NEW a, NEW b, NEW w, NEW l, NEW broken,
           Reduced(a, approved'), Reduced(b, approved'), GoodTasks(w), w.requests = requests,
           w.tools = tools, w.evaluations = evaluations,
           Idles(agent, a), a.active_run = agent.active_run,
           b = a \/ \E c \in a.pending_tools : Replies(a, b, c),
           KInv => Sits(a, requests, evaluations) /\ Sits(b, requests, evaluations),
           shutdown' = shutdown, broken.fatal, l.fatal = loop.fatal,
           l.at = "stopped" => loop.fatal, l.at = "ready" => ~loop.fatal,
           Dispatch(a, b, w, l, broken)
    PROVE  Kept
<1>1. Steady(a, requests)
  BY AgentSteady, IdlesSteady
<1>2. Flies(a, w.requests) /\ Flies(b, w.requests)
  BY <1>1, SteadyFlies, RepliesFlies
<1>3. Extends(a, b)
  BY DEF Replies, Answered, Moves, Idles, Inquires, Keeps, Extends
<1>4. Tidy(w)
  BY DEF JInv, TokenInv, Tidy, Tasks
<1>5. ASSUME loop.fatal PROVE Bare(b, w)
  <2>1. Clean
    BY <1>5 DEF JInv, FatalInv
  <2>2. a.pending_tools = {}
    BY <2>1 DEF Clean, Idles, Keeps
  <2>3. b = a
    BY <2>2
  <2> QED BY <2>1, <2>2, <2>3 DEF Clean, Bare
<1>6. \/ JInv'
      \/ /\ loop' = l /\ TokenInv' /\ BudgetInv' /\ agent'.active_run = b.active_run
         /\ ~shutdown => FlightOK(agent', requests')
         /\ Bare(b, w) => Clean'
  BY <1>2, <1>3, <1>4, DispatchKeeps
<1>7. ASSUME loop' = l, TokenInv', BudgetInv', ~shutdown => FlightOK(agent', requests'),
             Bare(b, w) => Clean'
      PROVE  JInv'
  <2>1. FatalInv'
    BY <1>5, <1>7 DEF FatalInv
  <2>2. StoppedInv'
    BY <1>7 DEF StoppedInv
  <2> QED BY <1>7, <2>1, <2>2 DEF JInv, FlightInv
<1>8. KInv => KInv'
  BY <1>2, <1>3, <1>4, DispatchSits
<1> QED BY <1>6, <1>7, <1>8 DEF Kept

LEMMA AnswerSpawnCallReplies ==
    ASSUME IInv, NEW s \in AgentStates, NEW o
    PROVE  LET t == AnswerSpawnCall(s, o)
           IN t = s \/ \E c \in s.pending_tools : Replies(s, t, c)
<1>1. loop.call \in ToolCalls \cup {NoCall}
  <2>1. loop \in LoopStates
    BY DEF IInv, TypeOK
  <2> QED BY <2>1, Zenon DEF LoopStates
<1>2. \/ AnswerSpawnCall(s, o) = s
      \/ \E c \in ToolCalls : AnswerSpawnCall(s, o) = tool_completed(s, c, o)
  BY <1>1 DEF AnswerSpawnCall
<1> QED BY <1>2, ToolCompletedReplies

LEMMA AnswerSpawnCallSits ==
    ASSUME IInv, NEW s, NEW o, NEW R, NEW V, Balanced(s), Sat(s, R, V)
    PROVE  Sits(AnswerSpawnCall(s, o), R, V)
<1>1. loop.call \in ToolCalls \cup {NoCall} /\ s \in AgentStates
  <2>1. loop \in LoopStates
    BY DEF IInv, TypeOK
  <2> QED BY <2>1, Zenon DEF LoopStates, Sat
<1>2. \/ AnswerSpawnCall(s, o) = s
      \/ \E c \in ToolCalls : AnswerSpawnCall(s, o) = tool_completed(s, c, o)
  BY <1>1 DEF AnswerSpawnCall
<1>3. ASSUME NEW c \in ToolCalls PROVE Sits(tool_completed(s, c, o), R, V)
  <2> DEFINE t == tool_completed(s, c, o)
  <2>1. t = s \/ (c \in s.pending_tools /\ Replies(s, t, c))
    BY <1>1, ToolCompletedReplies
  <2>2. Follows(s, t) /\ Paces(s, t)
    BY <1>1, PendingOwes, ToolCompletedFollows
  <2> HIDE DEF t
  <2>3. Sits(t, R, V)
    BY <2>1, <2>2, ReplySits DEF Sat
  <2> QED BY <2>3 DEF t
<1> QED BY <1>2, <1>3 DEF Sat

LEMMA AfterSpawnIs ==
    ASSUME IInv
    PROVE  /\ AfterSpawn.fatal = loop.fatal /\ (AfterSpawn.at = "stopped" => loop.fatal)
           /\ AfterSpawn.at = "ready" => ~loop.fatal
<1>1. loop.fatal \in BOOLEAN
  BY LoopFatal
<1>2. CASE loop.fatal = TRUE
  BY <1>2, LoopFields DEF AfterSpawn
<1>3. CASE loop.fatal = FALSE
  BY <1>3, LoopFields DEF AfterSpawn
<1> QED BY <1>1, <1>2, <1>3

LEMMA SpawnStepsKeep ==
    ASSUME IInv, CallsInv, JInv, NEW o,
           \/ SpawnRefused(o) \/ await_child(o)
           \/ \E k \in Children, awaiting \in BOOLEAN : SpawnAdmitted(k, awaiting, o)
    PROVE  Kept
<1>1. agent \in AgentStates /\ kids \in [Children -> KidStates]
  BY DEF IInv, TypeOK
<1>2. shutdown' = shutdown /\ loop.at \in {"spawning", "awaiting"}
  BY DEF SpawnRefused, await_child, SpawnAdmitted
<1> DEFINE broken == Ended(TRUE)
<1>3. broken.fatal
  BY LoopFields
<1> HIDE DEF broken
<1>4. ASSUME NEW a, Idles(agent, a), Steps(agent, a, {})
      PROVE  LET b == AnswerSpawnCall(a, o)
             IN /\ Reduced(a, approved') /\ Reduced(b, approved')
                /\ b = a \/ \E c \in a.pending_tools : Replies(a, b, c)
  BY <1>4, StepsReduced, AnswerSpawnCallReduced, AnswerSpawnCallReplies, IdlesType
<1>9. ASSUME KInv, NEW a, Idles(agent, a), Abides(agent, a)
      PROVE  /\ Sits(a, requests, evaluations)
             /\ Sits(AnswerSpawnCall(a, o), requests, evaluations)
  <2>1. Sat(a, requests, evaluations)
    BY <1>2, <1>9, AgentSat, AbideSits
  <2>2. Balanced(a)
    BY <1>9, IdlesFlows DEF Flows
  <2> QED BY <2>1, <2>2, AnswerSpawnCallSits DEF Sat
<1>5. ASSUME NEW a, NEW w, Idles(agent, a), Steps(agent, a, {}), Abides(agent, a),
             a.active_run = agent.active_run,
             GoodTasks(w), w.requests = requests, w.tools = tools, w.evaluations = evaluations,
             Dispatch(a, AnswerSpawnCall(a, o), w, AfterSpawn, broken)
      PROVE  Kept
  <2> DEFINE b == AnswerSpawnCall(a, o)
             l == AfterSpawn
  <2>1. /\ Reduced(a, approved') /\ Reduced(b, approved')
        /\ b = a \/ \E c \in a.pending_tools : Replies(a, b, c)
    BY <1>4, <1>5
  <2>2. l.fatal = loop.fatal /\ (l.at = "stopped" => loop.fatal) /\ (l.at = "ready" => ~loop.fatal)
    BY AfterSpawnIs
  <2>3. Dispatch(a, b, w, l, broken)
    BY <1>5
  <2>4. KInv => Sits(a, requests, evaluations) /\ Sits(b, requests, evaluations)
    BY <1>5, <1>9
  <2> HIDE DEF b, l
  <2> QED BY <1>2, <1>3, <1>5, <2>1, <2>2, <2>3, <2>4, InlineKeeps
<1>6. CASE SpawnRefused(o)
  <2> DEFINE b == AnswerSpawnCall(agent, o)
             l == AfterSpawn
  <2>1. Idles(agent, agent) /\ Steps(agent, agent, {}) /\ Abides(agent, agent)
    BY <1>1, IdlesReflexive, StepsReflexive DEF Abides, Follows
  <2>2. /\ Reduced(agent, approved') /\ Reduced(b, approved')
        /\ b = agent \/ \E c \in agent.pending_tools : Replies(agent, b, c)
    BY <1>4, <2>1
  <2>3. Dispatch(b, b, Tasks, l, broken)
    BY <1>6 DEF SpawnRefused, broken
  <2>6. KInv => Sits(agent, requests, evaluations) /\ Sits(b, requests, evaluations)
    BY <1>9, <2>1
  <2>4. l.fatal = loop.fatal /\ (l.at = "stopped" => loop.fatal) /\ (l.at = "ready" => ~loop.fatal)
    BY AfterSpawnIs
  <2> HIDE DEF b, l
  <2>5. Dispatch(agent, b, Tasks, l, broken)
    <3>1. Len(agent.fx) = 0 /\ loop.at # "ready"
      BY <1>2 DEF IInv, TypeOK
    <3>2. \A n \in 1..Len(b.fx) : (IF n <= Len(agent.fx) THEN agent ELSE b) = b
      BY <3>1
    <3> QED BY <2>3, <3>1, <3>2 DEF Dispatch
  <2> QED BY <1>2, <1>3, <2>1, <2>2, <2>4, <2>5, <2>6, InlineKeeps, TasksAsTheyAre
<1>7. CASE await_child(o)
  <2> DEFINE a == IF kids[loop.child] = "lost" THEN child_ended(agent, loop.child) ELSE agent
  <2>1. Idles(agent, a) /\ Steps(agent, a, {}) /\ a.active_run = agent.active_run
    BY <1>1, IdlesReflexive, ChildEndedIdles, StepsReflexive, ChildEndedSteps
  <2>3. Abides(agent, a)
    BY <1>1, ChildEndedAbides DEF Abides, Follows
  <2>2. Dispatch(a, AnswerSpawnCall(a, o), Tasks, AfterSpawn, broken)
    BY <1>7 DEF await_child, broken
  <2> HIDE DEF a
  <2> QED BY <1>5, <2>1, <2>2, <2>3, TasksAsTheyAre
<1>8. ASSUME NEW k \in Children, NEW awaiting \in BOOLEAN, SpawnAdmitted(k, awaiting, o) PROVE Kept
  <2> DEFINE a == child_spawned(agent, k, awaiting)
             K == [kids EXCEPT ![k] = IF shutdown THEN "cancelled" ELSE "running"]
             w == [Tasks EXCEPT !.kids = K]
             A(fatal) == Loop("awaiting", loop.call, k, fatal)
             l == A(loop.fatal)
             m == A(TRUE)
  <2>1. Idles(agent, a) /\ Steps(agent, a, {}) /\ a.active_run = agent.active_run
    BY <1>1, ChildSpawnedIdles, ChildSpawnedSteps
  <2>9. Abides(agent, a)
    BY <1>1, ChildSpawnedAbides
  <2>2. Dispatch(a, a, w, l, m) \/ Dispatch(a, AnswerSpawnCall(a, o), w, AfterSpawn, broken)
    <3>1. w = [Tasks EXCEPT !.kids[k] = IF shutdown THEN "cancelled" ELSE "running"]
      BY DEF Tasks
    <3> QED BY <1>8, <3>1 DEF SpawnAdmitted, broken
  <2>3. GoodTasks(w)
    <3>1. K \in [Children -> KidStates]
      BY <1>1 DEF KidStates
    <3> QED BY <3>1, TasksAreGood
  <2>4. w.requests = requests /\ w.tools = tools /\ w.evaluations = evaluations
    BY DEF Tasks
  <2>5. l.at = "awaiting" /\ m.fatal
    BY DEF Loop
  <2>6. l.fatal = loop.fatal
    BY Zenon DEF Loop
  <2> HIDE DEF a, w, l, m
  <2>7. ASSUME Dispatch(a, a, w, l, m) PROVE Kept
    <3>1. Reduced(a, approved')
      BY <2>1, StepsReduced
    <3>2. KInv => Sits(a, requests, evaluations)
      BY <1>9, <2>1, <2>9
    <3> QED BY <1>2, <2>1, <2>3, <2>4, <2>5, <2>6, <2>7, <3>1, <3>2, InlineKeeps
  <2>8. ASSUME Dispatch(a, AnswerSpawnCall(a, o), w, AfterSpawn, broken) PROVE Kept
    BY <1>5, <2>1, <2>3, <2>4, <2>8, <2>9
  <2> QED BY <2>2, <2>7, <2>8
<1> QED BY <1>6, <1>7, <1>8

LEMMA StopOnCancelKeeps ==
    ASSUME IInv, JInv, StopOnCancel
    PROVE  Kept
<1> DEFINE a == IF agent.status \in {"Cancelled", "Failed"} THEN agent ELSE cancel(agent)
           l == Ended(loop.fatal)
           broken == Ended(TRUE)
<1>1. /\ loop.at = "ready" /\ shutdown /\ shutdown' = shutdown
      /\ Dispatch(a, a, Tasks, l, broken)
  BY DEF StopOnCancel
<1>2. agent \in AgentStates
  BY DEF IInv, TypeOK
<1>3. Reduced(a, approved')
  BY <1>2, CancelSteps, StepsReflexive, StepsReduced
<1>4. a = agent \/ Cancels(agent, a)
  BY <1>2, CancelCancels
<1>5. broken.fatal /\ l.at = "stopped"
  BY LoopFields
<1> HIDE DEF a, l, broken
<1>6. Flies(a, requests)
  BY <1>1, <1>4, AgentSteady, CancelsSteady, SteadyFlies
<1>7. Tidy(Tasks) /\ Extends(a, a)
  BY DEF JInv, TokenInv, Extends
<1>8. \/ JInv'
      \/ /\ loop' = l /\ TokenInv' /\ BudgetInv' /\ agent'.active_run = a.active_run
         /\ ~shutdown => FlightOK(agent', requests')
         /\ Bare(a, Tasks) => Clean'
  BY <1>1, <1>3, <1>5, <1>6, <1>7, DispatchKeeps, TasksAsTheyAre
<1>9. ASSUME loop' = l, TokenInv', BudgetInv', Bare(a, Tasks) => Clean' PROVE JInv'
  <2>1. ASSUME loop'.fatal PROVE Bare(a, Tasks)
    <3>1. loop.fatal
      BY <1>9, <2>1 DEF l, Ended, Loop
    <3>2. a.pending_tools = {}
      BY <1>4, <3>1, NothingPending DEF Cancels
    <3> QED BY <1>1, <1>7, <3>2 DEF Bare, Tidy
  <2>2. FatalInv'
    BY <1>5, <1>9, <2>1 DEF FatalInv
  <2>3. Tasks'.requests = requests' /\ Tasks'.tools = tools'
    BY DEF Tasks
  <2>4. StoppedInv'
    BY <1>1, <1>9, <2>3 DEF StoppedInv, TokenInv, Tidy
  <2> QED BY <1>1, <1>9, <2>2, <2>4 DEF JInv, FlightInv
<1>10. ASSUME KInv PROVE KInv'
  <2>1. Sits(a, requests, evaluations)
    BY <1>1, <1>4, <1>10, AgentSat, CancelSits DEF Sat
  <2> QED BY <1>1, <1>3, <1>6, <1>7, <2>1, DispatchSits, TasksAsTheyAre
<1> QED BY <1>8, <1>9, <1>10 DEF Kept

\* A step beside the loop takes work away, or cancels it.
LEMMA LessWorkKeeps ==
    ASSUME IInv, JInv, agent' = agent, asked' = asked, loop' = loop, shutdown' = shutdown,
           requests' \subseteq requests,
           \A c \in ToolCalls : tools'[c] = "running" => tools[c] = "running",
           ~shutdown /\ loop.at # "stopped" => FlightOK(agent, requests')
    PROVE  JInv'
<1>1. /\ Tasks.requests = requests /\ Tasks.tools = tools
      /\ Tasks'.requests = requests' /\ Tasks'.tools = tools'
  BY DEF Tasks
<1>2. FlightInv' /\ BudgetInv'
  BY DEF JInv, FlightInv, BudgetInv
<1>3. TokenInv'
  BY <1>1 DEF JInv, TokenInv, Tidy
<1>4. FatalInv' /\ StoppedInv'
  BY DEF JInv, FatalInv, Clean, StoppedInv
<1> QED BY <1>2, <1>3, <1>4 DEF JInv

\* The work that is left is some of the work that was there, or the session is cancelled.
LEMMA LessWorkSits ==
    ASSUME KInv, agent' = agent, stranded' = stranded,
           ~shutdown' => /\ ~shutdown /\ requests' \subseteq requests
                         /\ evaluations' \subseteq evaluations
    PROVE  KInv'
<1>1. Ordered(agent'.messages) /\ Whole(agent)'
  BY DEF KInv, Sits, Whole
<1>2. ASSUME ~shutdown' PROVE Gated(agent, requests', evaluations')
  <2>1. Gated(agent, requests, evaluations)
    BY <1>2 DEF KInv, Sits
  <2> QED BY <1>2, <2>1, FewerGated
<1> QED BY <1>1, <1>2 DEF KInv, Sits

LEMMA AsideSits ==
    ASSUME KInv, Aside
    PROVE  KInv'
<1>1. agent' = agent /\ stranded' = stranded
  BY AsideLeaves
<1>2. \/ shutdown' = TRUE
      \/ shutdown' = shutdown /\ requests' \subseteq requests /\ evaluations' \subseteq evaluations
  BY DEF Aside, RequestVanishes, ToolVanishes, EvaluationVanishes, ChildEnds, ChildDies,
         CancelSession, CloseMailbox, vars, tasks
<1> QED BY <1>1, <1>2, LessWorkSits

LEMMA AsideKeeps ==
    ASSUME IInv, JInv, Aside
    PROVE  JInv'
<1>1. agent' = agent /\ asked' = asked
  BY AsideLeaves
<1>2. ASSUME requests' = requests, tools' = tools, loop' = loop, shutdown' = shutdown PROVE JInv'
  BY <1>1, <1>2, LessWorkKeeps DEF JInv, FlightInv
<1>3. ASSUME NEW q \in requests, RequestVanishes(q) PROVE JInv'
  <2>1. /\ q.token = "cancelled" \/ loop.at = "stopped"
        /\ requests' = requests \ {q} /\ tools' = tools /\ loop' = loop /\ shutdown' = shutdown
    BY <1>3 DEF RequestVanishes
  <2>2. ASSUME ~shutdown, loop.at # "stopped" PROVE FlightOK(agent, requests \ {q})
    <3>1. Calm(agent, requests)
      BY <2>2, AgentSteady DEF Steady
    <3>2. q.run # agent.active_run
      BY <2>1, <2>2, <3>1 DEF Calm, FlightOK
    <3> QED BY <3>1, <3>2, StrayEndsFlight DEF Calm
  <2> QED BY <1>1, <2>1, <2>2, LessWorkKeeps
<1>4. ASSUME NEW c \in ToolCalls, ToolVanishes(c) PROVE JInv'
  <2>1. /\ tools' = [tools EXCEPT ![c] = "ended"] /\ tools \in [ToolCalls -> ToolStates]
        /\ requests' = requests /\ loop' = loop /\ shutdown' = shutdown
    BY <1>4 DEF ToolVanishes, IInv, TypeOK
  <2>2. \A d \in ToolCalls : tools'[d] = "running" => tools[d] = "running"
    BY <2>1
  <2> QED BY <1>1, <2>1, <2>2, LessWorkKeeps DEF JInv, FlightInv
<1>5. ASSUME NEW v \in evaluations, EvaluationVanishes(v) PROVE JInv'
  BY <1>2, <1>5 DEF EvaluationVanishes
<1>6. ASSUME NEW k \in Children, ChildEnds(k) \/ ChildDies(k) PROVE JInv'
  BY <1>2, <1>6 DEF ChildEnds, ChildDies
<1>7. CASE UNCHANGED vars
  BY <1>2, <1>7 DEF vars, tasks
<1>8. CASE CancelSession
  <2>1. /\ requests' = {[q EXCEPT !.token = "cancelled"] : q \in requests}
        /\ shutdown' = TRUE /\ loop' = loop /\ requests \subseteq RequestTasks
    BY <1>8 DEF CancelSession, IInv, TypeOK
  <2>2. \A c \in ToolCalls : tools'[c] # "running"
    BY <1>8 DEF CancelSession
  <2>3. \A r \in requests' : r.token = "cancelled"
    <3>1. \A q \in RequestTasks : [q EXCEPT !.token = "cancelled"].token = "cancelled"
      BY Zenon DEF RequestTasks
    <3> QED BY <2>1, <3>1
  <2>4. Tasks'.requests = requests' /\ Tasks'.tools = tools'
    BY DEF Tasks
  <2>5. TokenInv'
    BY <2>2, <2>3, <2>4 DEF TokenInv, Tidy
  <2>6. FatalInv' /\ StoppedInv'
    BY <1>1, <2>1, <2>2, <2>3 DEF JInv, FatalInv, Clean, StoppedInv
  <2>7. FlightInv' /\ BudgetInv'
    BY <1>1, <2>1 DEF JInv, FlightInv, BudgetInv
  <2> QED BY <2>5, <2>6, <2>7 DEF JInv
<1>9. CASE CloseMailbox
  <2> DEFINE l == Ended(loop.fatal)
  <2>1. /\ requests = {} /\ \A c \in ToolCalls : tools[c] # "running"
        /\ requests' = requests /\ tools' = tools /\ shutdown' = shutdown /\ loop' = l
        /\ loop.at = "ready"
    BY <1>9 DEF CloseMailbox, tasks
  <2>2. l.at = "stopped"
    BY LoopFields
  <2>3. l.fatal = loop.fatal
    BY Zenon DEF Ended, Loop
  <2> HIDE DEF l
  <2>4. /\ Tasks.requests = requests /\ Tasks.tools = tools
        /\ Tasks'.requests = requests' /\ Tasks'.tools = tools'
    BY DEF Tasks
  <2>5. FlightInv' /\ BudgetInv'
    BY <1>1, <2>1, <2>2 DEF JInv, FlightInv, BudgetInv
  <2>6. TokenInv'
    BY <2>1, <2>4 DEF TokenInv, Tidy
  <2>7. FatalInv'
    BY <1>1, <2>1, <2>2, <2>3 DEF JInv, FatalInv, Clean
  <2>8. StoppedInv'
    BY <2>1 DEF StoppedInv
  <2> QED BY <2>5, <2>6, <2>7, <2>8 DEF JInv
<1> QED BY <1>3, <1>4, <1>5, <1>6, <1>7, <1>8, <1>9 DEF Aside

LEMMA StepKeeps ==
    ASSUME "Resume" \notin HostCommands, IInv, CallsInv, JInv, [Next]_vars
    PROVE  Kept
<1>1. ASSUME Aside PROVE Kept
  BY <1>1, AsideKeeps, AsideSits DEF Kept
<1> QED BY <1>1, StepsAre, HostStepKeeps, ResolvePermissionKeeps, RequestStreamsKeeps,
           RequestEndsKeeps, ToolEndsKeeps, EvaluationEndsKeeps, ChildReportedKeeps,
           SpawnStepsKeep, StopOnCancelKeeps

LEMMA InitJInv ==
    ASSUME Init
    PROVE  JInv
<1>1. /\ agent \in AgentStates /\ agent.fx = <<>> /\ agent.active_run = NoRun /\ agent.next_run = 1
      /\ agent.status = "Idle" /\ agent.turns = 0 /\ agent.final_turn = FALSE
      /\ agent.final_grace_used = 0 /\ agent.switches = 0
  BY NewAgentType DEF Init, NewAgent
<1>2. requests = {} /\ asked = 0 /\ shutdown = FALSE /\ loop = Ready
  BY DEF Init
<1>3. \A c \in ToolCalls : tools[c] # "running"
  BY DEF Init
<1>4. Queries(agent) = {} /\ Hangups(agent) = {}
  BY <1>1, NoEffectsLeft
<1>5. FlightInv
  BY <1>1, <1>2, <1>4 DEF FlightInv, FlightOK, Known, NoRun
<1>6. TokenInv
  BY <1>2, <1>3 DEF TokenInv, Tidy, Tasks
<1>7. FatalInv /\ StoppedInv
  BY <1>2, LoopFields DEF FatalInv, StoppedInv
<1>8. BudgetInv
  BY <1>1, <1>2, FreshBudget DEF BudgetInv
<1> QED BY <1>5, <1>6, <1>7, <1>8 DEF JInv

LEMMA InitKInv ==
    ASSUME Init
    PROVE  KInv
<1>1. /\ agent.messages = <<>> /\ agent.fx = <<>> /\ agent.active_run = NoRun
      /\ agent.pending_tools = {}
  BY DEF Init, NewAgent
<1>2. requests = {} /\ evaluations = {}
  BY DEF Init
<1>3. Ordered(agent.messages)
  BY <1>1 DEF Ordered
<1>4. Verdicts(agent) = {}
  BY <1>1 DEF Verdicts, EffectsIn
<1>5. Gated(agent, requests, evaluations)
  BY <1>1, <1>2, <1>4 DEF Gated
<1> QED BY <1>1, <1>3, <1>5 DEF KInv, Sits, Whole

LEMMA Unresumed ==
    ASSUME "Resume" \notin HostCommands
    PROVE  Spec => [](IInv /\ JInv /\ KInv)
<1>1. IInv /\ CallsInv /\ JInv /\ KInv /\ [Next]_vars => CallsInv' /\ JInv' /\ KInv'
  BY StepFlows, StepKeeps DEF Kept
<1> QED BY <1>1, InitCalls, InitJInv, InitKInv, InvariantHolds, PTL DEF Spec

LEMMA FlightSound ==
    ASSUME IInv, JInv
    PROVE  InFlightIsTruthful
<1> SUFFICES ASSUME Active, ~shutdown, loop.at # "stopped"
             PROVE  /\ agent.backend_in_flight <=> Answering # {}
                    /\ Cardinality(Answering) <= 1
  BY DEF InFlightIsTruthful
<1>1. FlightOK(agent, requests) /\ Queries(agent) = {} /\ agent.active_run # NoRun
  BY NothingYet DEF JInv, FlightInv, Active
<1>2. Answering = {q \in requests : q.run = agent.active_run}
  BY DEF Answering
<1>3. agent.backend_in_flight <=> Answering # {}
  BY <1>1, <1>2 DEF FlightOK
<1>4. Answering = {} \/ \E q : Answering = {q}
  BY <1>1, <1>2 DEF FlightOK
<1>5. Cardinality(Answering) <= 1
  <2>1. ASSUME NEW q, Answering = {q} PROVE Cardinality(Answering) = 1
    <3>1. Cardinality({q}) = 1
      BY FS_Singleton
    <3> QED BY <2>1, <3>1, Zenon
  <2>2. ASSUME Answering = {} PROVE Cardinality(Answering) = 0
    <3>1. Cardinality({}) = 0
      BY FS_EmptySet
    <3> QED BY <2>2, <3>1, Zenon
  <2>3. Cardinality(Answering) \in {0, 1}
    BY <1>4, <2>1, <2>2, Zenon
  <2> QED BY <2>3
<1> QED BY <1>3, <1>5

LEMMA BudgetSound ==
    ASSUME IInv, JInv
    PROVE  RequestsBounded
<1> SUFFICES ASSUME Limited PROVE \E p \in Profiles : asked <= (agent.switches + 1) * MostRequests(p)
  BY DEF RequestsBounded, Limited
<1>1. /\ agent \in AgentStates /\ agent.profile \in Profiles /\ agent.switches \in Nat
      /\ agent.turns \in Nat /\ agent.final_grace_used \in Nat /\ asked \in Nat
  BY FieldTypes DEF IInv, TypeOK
<1>2. Within(agent) /\ Paid(agent, asked)
  BY DEF JInv, BudgetInv, Budget
<1> DEFINE k == agent.switches
           m == agent.turns + agent.final_grace_used
<1>3. m \in Nat /\ k \in Nat /\ m <= MostRequests(agent.profile)
  BY <1>1, <1>2, WithinMost
<1>4. PICK p \in Profiles : asked <= k * MostRequests(p) + m
  BY <1>2 DEF Paid
<1>5. MostRequests(p) \in Nat /\ MostRequests(agent.profile) \in Nat
  BY <1>1, MostType
<1> HIDE DEF k, m
<1> DEFINE a == MostRequests(p)
           b == MostRequests(agent.profile)
<1> HIDE DEF a, b
<1>6. a \in Nat /\ b \in Nat /\ m <= b /\ asked <= k * a + m
  BY <1>3, <1>4, <1>5 DEF a, b
<1>7. \A x \in Nat : (k + 1) * x = k * x + x /\ k * x \in Nat
  BY <1>3
<1>8. ASSUME b <= a PROVE asked <= (k + 1) * a
  <2>1. (k + 1) * a = k * a + a /\ k * a \in Nat
    BY <1>6, <1>7
  <2> DEFINE y == k * a
             z == (k + 1) * a
  <2> HIDE DEF y, z
  <2>2. z = y + a /\ y \in Nat /\ asked <= y + m
    BY <1>6, <2>1 DEF y, z
  <2>3. asked <= z
    BY <1>1, <1>3, <1>6, <1>8, <2>2
  <2> QED BY <2>3 DEF z
<1>9. ASSUME a <= b PROVE asked <= (k + 1) * b
  <2>1. (k + 1) * b = k * b + b /\ k * b \in Nat /\ k * a \in Nat /\ k * a <= k * b
    BY <1>3, <1>6, <1>7, <1>9, TimesMonotonic
  <2> DEFINE x == k * a
             y == k * b
             z == (k + 1) * b
  <2> HIDE DEF x, y, z
  <2>2. z = y + b /\ x \in Nat /\ y \in Nat /\ x <= y /\ asked <= x + m
    BY <1>6, <2>1 DEF x, y, z
  <2>3. asked <= z
    BY <1>1, <1>3, <1>6, <2>2
  <2> QED BY <2>3 DEF z
<1>10. a <= b \/ b <= a
  BY <1>6
<1> QED BY <1>1, <1>8, <1>9, <1>10 DEF a, b, k

(***************************************************************************)
(* continue_after_tools may rely on backend_in_flight: unless the host     *)
(* resumes a run, the flag says whether the run's request is out, and no   *)
(* interleaving of reports, refusals, cancels, profile switches and        *)
(* spawned agents has two of them out at once.                             *)
(***************************************************************************)
THEOREM InFlightHolds ==
    ASSUME "Resume" \notin HostCommands
    PROVE  Spec => []InFlightIsTruthful
BY Unresumed, FlightSound, PTL

(***************************************************************************)
(* Unless the host resumes runs, max_turns bounds the requests of a run,   *)
(* with the grace turns and for each profile it is switched to, whatever   *)
(* the limits are and however many runs, tools and gates there are.        *)
(***************************************************************************)
THEOREM RequestsStayBounded ==
    ASSUME "Resume" \notin HostCommands
    PROVE  Spec => []RequestsBounded
BY Unresumed, BudgetSound, PTL

(***************************************************************************)
(* However a long-lived loop comes to stop, cancel_run, fail_fatally and   *)
(* the closed mailbox leave no call running and no request uncancelled,    *)
(* but for that of a run started after a refused commit.                   *)
(***************************************************************************)
THEOREM NothingOutlivesTheLoop ==
    ASSUME "Resume" \notin HostCommands
    PROVE  Spec => []NoWorkOutlivesTheLoop
<1>1. IInv /\ JInv => NoWorkOutlivesTheLoop
  <2> SUFFICES ASSUME IInv, JInv, LongLived, loop.at = "stopped"
               PROVE  /\ \A q \in requests : \/ q.token = "cancelled"
                                             \/ loop.fatal /\ q.run = agent.active_run
                      /\ \A c \in ToolCalls : tools[c] # "running"
    BY DEF NoWorkOutlivesTheLoop
  <2> QED BY DEF JInv, FatalInv, Clean, StoppedInv
<1> QED BY <1>1, Unresumed, PTL

(***************************************************************************)
(* Unless the host resumes runs, the recorded transcript is one that       *)
(* validate_transcript accepts but for the calls still out: no result      *)
(* without its call, none twice, no user message between a call and its    *)
(* result, whatever the interleaving of replies, cancels and children.     *)
(***************************************************************************)
THEOREM TranscriptStaysSound ==
    ASSUME "Resume" \notin HostCommands
    PROVE  Spec => []TranscriptIsSound
<1>1. IInv /\ KInv => TranscriptIsSound
  <2> SUFFICES ASSUME IInv, KInv PROVE TranscriptIsSound
    OBVIOUS
  <2>1. agent.messages \in Seq(Messages)
    BY FieldTypes DEF IInv, TypeOK
  <2> QED BY <2>1, OrderedIsSound DEF KInv, Sits, TranscriptIsSound
<1> QED BY <1>1, Unresumed, PTL

(***************************************************************************)
(* A verdict that completion_evaluated would act on is that of the one     *)
(* evaluation the run waits for, which nothing cancelled but the end of    *)
(* the session: a cancelled run's late verdict never settles a later run,  *)
(* unless the host resumes runs.                                           *)
(***************************************************************************)
THEOREM OnlyTheWantedVerdict ==
    ASSUME "Resume" \notin HostCommands
    PROVE  Spec => []OnlyCurrentVerdictCounts
<1>1. KInv => OnlyCurrentVerdictCounts
  BY DEF KInv, Sits, Gated, Judges, OnlyCurrentVerdictCounts, VerdictExpected
<1> QED BY <1>1, Unresumed, PTL

-----------------------------------------------------------------------------
(***************************************************************************)
(* What moves the run.                                                     *)
(***************************************************************************)
\* The run waits for a verdict, and an evaluation of V or one about to start gives it.
Judged(s, V) ==
    /\ s.status = "Verifying" /\ GateEvaluators(s.profile) # {}
    /\ \/ EvaluateCompletion(s.active_run, s.gate_attempts, s.profile) \in EffectsIn(s.fx)
       \/ \E v \in V : v.run = s.active_run

Held(s, V) == Pressed(s) \/ Judged(s, V)

\* Each pending call has its prompt, its task in T or one about to start, or is in D.
Staffed(t, T, D) ==
    \A c \in t.pending_tools :
        \/ c \in t.pending_permissions \/ c \in Executed(EffectsIn(t.fx))
        \/ T[c] = "running" \/ c \in D

NoEvaluators == \A p \in Profiles : GateEvaluators(p) = {}

\* The loop is never given two spawns at once; and a host that spawns agents uses no gate
\* that is evaluated beside the loop.
Orderly(t) ==
    /\ \A c, d \in Executed(EffectsIn(t.fx)) : c = d
    /\ SpawnAgent \in EffectsIn(t.fx) => Executed(EffectsIn(t.fx)) = {} /\ NoEvaluators

\* The call the loop runs itself.
InLoop == {c \in ToolCalls : loop.at \in {"spawning", "awaiting"} /\ loop.call = c}

Manned == Staffed(agent, tools, InLoop)

Busy ==
    loop.at \in {"spawning", "awaiting"} =>
        agent.active_run = NoRun \/ loop.call \in agent.pending_tools \/ NoEvaluators

DInv == ~shutdown /\ loop.at # "stopped" => Held(agent, evaluations) /\ Manned /\ Busy

Steered == "SpawnChild" \notin HostCommands \/ NoEvaluators

LEMMA NothingInLoop ==
    ASSUME loop.at \notin {"spawning", "awaiting"}
    PROVE  InLoop = {} /\ Busy
BY DEF InLoop, Busy

LEMMA NoRunHeld ==
    ASSUME NEW s, s.active_run = NoRun, NEW V
    PROVE  Held(s, V)
BY DEF Held, Pressed

LEMMA JudgingHeld ==
    ASSUME NEW s, NEW V, Pressed(s) \/ Judging(s)
    PROVE  Held(s, V)
BY DEF Held, Judging, Judged

\* Carrying out the effects of b.
LEMMA DispatchDriven ==
    ASSUME IInv', shutdown' = shutdown, ~shutdown, NEW a, NEW b, NEW w, NEW l, NEW broken, NEW D,
           a \in AgentStates, Balanced(b), w.evaluations \subseteq EvaluationTasks,
           Held(b, w.evaluations), Staffed(b, w.tools, D), Dispatch(a, b, w, l, broken)
    PROVE  \/ DInv'
           \/ /\ loop' = l /\ Held(agent', evaluations')
              /\ agent'.active_run = b.active_run /\ agent'.pending_tools = b.pending_tools
              /\ Staffed(agent', tools', D \cup (Executed(EffectsIn(b.fx)) \cap SpawnCalls))
<1> DEFINE E == EffectsIn(b.fx)
           V == w.evaluations
<1>1. b \in AgentStates
  BY DEF Balanced
<1>2. ASSUME dispatch_effects(b, w, E)
      PROVE  /\ Held(agent', evaluations')
             /\ agent'.active_run = b.active_run /\ agent'.pending_tools = b.pending_tools
             /\ Staffed(agent', tools', D \cup (Executed(E) \cap SpawnCalls))
  <2>1. /\ agent' = [b EXCEPT !.fx = <<>>] /\ tools' = execute_tool(b, w, E)
        /\ evaluations' = evaluate_completion(w, E)
    BY <1>2 DEF dispatch_effects
  <2>2. /\ agent'.active_run = b.active_run /\ agent'.pending_tools = b.pending_tools
        /\ agent'.status = b.status /\ agent'.profile = b.profile
        /\ agent'.backend_in_flight = b.backend_in_flight
    BY <1>1, <2>1, FieldsOfDispatched
  <2>3. agent'.pending_permissions = b.pending_permissions
    <3>1. [b EXCEPT !.fx = <<>>].pending_permissions = b.pending_permissions
      BY <1>1, Zenon DEF AgentStates
    <3> QED BY <2>1, <3>1
  <2>4. ASSUME NEW v \in V PROVE \E p \in evaluations' : p.run = v.run
    <3> DEFINE Token(x) == IF CancelEvaluation(x.run) \in E \/ \E e \in OfKind(E, "EvaluateCompletion") : e.run = x.run
                           THEN Cancelled(x.token) ELSE x.token
    <3>1. [v EXCEPT !.token = Token(v)] \in evaluations'
      BY <2>1, <2>4 DEF evaluate_completion
    <3>2. \A token : [v EXCEPT !.token = token].run = v.run
      <4>1. v \in EvaluationTasks
        BY <2>4
      <4> QED BY <4>1, Zenon DEF EvaluationTasks
    <3> HIDE DEF Token
    <3> QED BY <3>1, <3>2
  <2>5. ASSUME NEW r, NEW n, NEW p, EvaluateCompletion(r, n, p) \in E
        PROVE  \E v \in evaluations' : v.run = r
    <3> DEFINE e == EvaluateCompletion(r, n, p)
               New(x) == [run |-> x.run, attempt |-> x.attempt, profile |-> x.profile, token |-> NewToken]
    <3>1. e \in OfKind(E, "EvaluateCompletion") /\ e.run = r
      BY <2>5 DEF EvaluateCompletion, OfKind
    <3>2. New(e) \in evaluations'
      <4> HIDE DEF e
      <4> QED BY <2>1, <3>1 DEF evaluate_completion
    <3>3. \A x : New(x).run = x.run
      OBVIOUS
    <3> HIDE DEF New, e
    <3> QED BY <3>1, <3>2, <3>3
  <2>6. Held(agent', evaluations')
    <3>1. CASE Pressed(b)
      BY <2>2, <3>1 DEF Held, Pressed
    <3>2. CASE Judged(b, V)
      <4>1. \E v \in evaluations' : v.run = b.active_run
        BY <2>4, <2>5, <3>2 DEF Judged
      <4> QED BY <2>2, <3>2, <4>1 DEF Held, Judged
    <3> QED BY <3>1, <3>2 DEF Held
  <2>7. ASSUME NEW c \in b.pending_tools
        PROVE  \/ c \in b.pending_permissions \/ tools'[c] = "running"
               \/ c \in D \cup (Executed(E) \cap SpawnCalls)
    <3>1. c \in ToolCalls
      BY <1>1, <2>7, FieldTypes
    <3>2. tools'[c] # "refused"
      BY <3>1 DEF IInv, StartedInv
    <3>3. c \notin Dropped(E)
      BY <2>7 DEF Balanced, Drops
    <3>4. tools'[c] = IF c \in Executed(E)
                      THEN IF ~tool_call_permitted(b, c) THEN "refused"
                           ELSE IF c \in SpawnCalls THEN "ended"
                           ELSE IF shutdown THEN "cancelled" ELSE "running"
                      ELSE IF c \in Dropped(E) /\ w.tools[c] = "running" THEN "cancelled" ELSE w.tools[c]
      BY <2>1, <3>1 DEF execute_tool
    <3> QED BY <2>7, <3>2, <3>3, <3>4 DEF Staffed
  <2> HIDE DEF E
  <2>8. Staffed(agent', tools', D \cup (Executed(E) \cap SpawnCalls))
    BY <2>2, <2>3, <2>7 DEF Staffed
  <2> QED BY <2>2, <2>6, <2>8
<1>3. ASSUME NEW x \in {a, b}, NEW F, fail_fatally(x, w, F) PROVE DInv'
  <2>1. agent' = [x EXCEPT !.fx = <<>>, !.status = "Failed", !.active_run = NoRun,
                           !.pending_tools = {}, !.pending_permissions = {}]
    BY <1>3 DEF fail_fatally
  <2>2. agent'.active_run = NoRun /\ agent'.pending_tools = {}
    BY <1>1, <1>3, <2>1, FieldsOfDispatched
  <2> QED BY <2>2 DEF DInv, Held, Pressed, Manned, Staffed, Busy
<1>4. \/ dispatch_effects(b, w, E) /\ loop' = l
      \/ \E n \in 1..Len(b.fx) : fail_fatally(IF n <= Len(a.fx) THEN a ELSE b, w,
                                              EffectsIn(SubSeq(b.fx, 1, n - 1)))
  BY DEF Dispatch
<1> QED BY <1>2, <1>3, <1>4

-----------------------------------------------------------------------------
\* Where the loop goes, with what the effects of b leave to it.
LEMMA NextLoopDriven ==
    ASSUME NEW b, NEW answered, Reduced(b, answered), Orderly(b), loop' = NextLoop(EffectsIn(b.fx)),
           Held(agent', evaluations'),
           agent'.active_run = b.active_run, agent'.pending_tools = b.pending_tools,
           Staffed(agent', tools', Executed(EffectsIn(b.fx)) \cap SpawnCalls)
    PROVE  DInv'
<1> DEFINE E == EffectsIn(b.fx)
           S == Executed(E) \cap SpawnCalls
           c == CHOOSE d \in S : TRUE
<1>1. \A at, call, child, fatal : /\ Loop(at, call, child, fatal).at = at
                                  /\ Loop(at, call, child, fatal).call = call
  BY DEF Loop
<1>2. ASSUME SpawnAgent \in E PROVE DInv'
  <2>1. S = {} /\ NoEvaluators
    BY <1>2 DEF Orderly
  <2>2. Staffed(agent', tools', InLoop')
    BY <2>1 DEF Staffed
  <2> QED BY <2>1, <2>2 DEF DInv, Manned, Busy, NoEvaluators
<1>3. ASSUME SpawnAgent \notin E, S # {} PROVE DInv'
  <2>1. loop' = Loop("spawning", c, NoChild, loop.fatal)
    BY <1>3 DEF NextLoop
  <2>2. c \in S
    BY <1>3
  <2> HIDE DEF c
  <2>3. loop'.at = "spawning" /\ loop'.call = c
    BY <1>1, <2>1
  <2>4. c \in b.pending_tools /\ c \in ToolCalls /\ \A d \in S : d = c
    <3>1. b.pending_tools \subseteq ToolCalls
      BY FieldTypes DEF Reduced
    <3> QED BY <2>2, <3>1 DEF Reduced, Orderly
  <2>5. InLoop' = {c}
    BY <2>3, <2>4 DEF InLoop
  <2> HIDE DEF S, E
  <2>6. Staffed(agent', tools', InLoop')
    BY <2>4, <2>5 DEF Staffed, S, E
  <2> QED BY <2>3, <2>4, <2>6 DEF DInv, Manned, Busy
<1>4. ASSUME SpawnAgent \notin E, S = {} PROVE DInv'
  <2>1. loop' \in {Ended(loop.fatal), Ready}
    BY <1>4 DEF NextLoop
  <2>2. loop'.at \in {"stopped", "ready"}
    <3>1. Ended(loop.fatal).at = "stopped" /\ Ready.at = "ready"
      BY LoopFields
    <3> QED BY <2>1, <3>1
  <2>3. Staffed(agent', tools', InLoop')
    BY <1>4 DEF Staffed
  <2> QED BY <2>2, <2>3 DEF DInv, Manned, Busy
<1> QED BY <1>2, <1>3, <1>4

\* A run that begins has its request.
LEMMA BeginsHeld ==
    ASSUME NEW s, NEW t, NEW V, Begins(s, t)
    PROVE  Held(t, V)
BY DEF Begins, Inquires, Held, Pressed

LEMMA HandleCommandDriven ==
    ASSUME IInv, IInv', Receiving, shutdown' = shutdown, NEW a, NEW w, NEW o, NEW answered,
           Reduced(a, answered), Flows(a), w.evaluations \subseteq EvaluationTasks,
           Held(a, w.evaluations), Staffed(a, w.tools, {}), Orderly(a), handle_command(a, w, o)
    PROVE  DInv'
<1> DEFINE b == IF LongLived /\ ~loop.fatal /\ FinishRun \in EffectsIn(a.fx)
                THEN start_next_queued_run(a, o) ELSE a
           l == NextLoop(EffectsIn(b.fx))
<1>1. Dispatch(a, b, w, l, Ended(TRUE))
  BY DEF handle_command
<1>2. a \in AgentStates /\ ~shutdown
  BY DEF Reduced, Receiving
<1>3. Steps(a, b, {})
  BY <1>2, StartNextQueuedRunSteps, StepsReflexive
<1>4. b = a \/ (Finishes(a) /\ b = start_next_queued_run(a, o))
  BY DEF Finishes
<1>5. Balanced(b)
  BY <1>4, NextRunFlows DEF Flows
<1>6. Held(b, w.evaluations)
  <2>1. ASSUME Finishes(a), b = start_next_queued_run(a, o) PROVE Held(b, w.evaluations)
    <3>1. a.active_run = NoRun
      BY <2>1 DEF Flows
    <3>2. b = a \/ \E u : Begins(u, b)
      BY <1>2, <2>1, <3>1, StartNextQueuedRunBegins
    <3> HIDE DEF b
    <3> QED BY <3>2, BeginsHeld
  <2> HIDE DEF b
  <2> QED BY <1>4, <2>1
<1> HIDE DEF b
<1>7. Reduced(b, answered)
  BY <1>3, ReducedSteps
<1>8. Staffed(b, w.tools, {}) /\ Orderly(b)
  BY <1>3 DEF Steps, Staffed, Orderly
<1>9. \/ DInv'
      \/ /\ loop' = l /\ Held(agent', evaluations')
         /\ agent'.active_run = b.active_run /\ agent'.pending_tools = b.pending_tools
         /\ Staffed(agent', tools', {} \cup (Executed(EffectsIn(b.fx)) \cap SpawnCalls))
  BY <1>1, <1>2, <1>5, <1>6, <1>8, DispatchDriven
<1>10. {} \cup (Executed(EffectsIn(b.fx)) \cap SpawnCalls) = Executed(EffectsIn(b.fx)) \cap SpawnCalls
  OBVIOUS
<1> QED BY <1>7, <1>8, <1>9, <1>10, NextLoopDriven

-----------------------------------------------------------------------------
(***************************************************************************)
(* What a command leaves the calls with.                                   *)
(***************************************************************************)
LEMMA StepsStaffed ==
    ASSUME IInv, DInv, Receiving, NEW a, NEW D, NEW T, Steps(agent, a, D),
           \A c \in agent.pending_tools \ D : T[c] = tools[c]
    PROVE  Staffed(a, T, {}) /\ Orderly(a)
<1>1. EffectsIn(agent.fx) = {} /\ Executed(EffectsIn(agent.fx)) = {}
  BY NothingExecuted DEF IInv, TypeOK, EffectsIn
<1>2. Staffed(agent, tools, {})
  BY NothingInLoop DEF DInv, Manned, Receiving
<1> QED BY <1>1, <1>2 DEF Steps, Staffed, Orderly

LEMMA StartsStaffed ==
    ASSUME IInv, DInv, Receiving, NEW a, NEW c, Starts(agent, a, c) \/ Asks(agent, a, c)
    PROVE  Staffed(a, tools, {}) /\ Orderly(a)
<1>1. EffectsIn(agent.fx) = {} /\ Executed(EffectsIn(agent.fx)) = {}
  BY NothingExecuted DEF IInv, TypeOK, EffectsIn
<1>2. Staffed(agent, tools, {})
  BY NothingInLoop DEF DInv, Manned, Receiving
<1>3. ASSUME Starts(agent, a, c) PROVE Staffed(a, tools, {}) /\ Orderly(a)
  <2>1. Executed(EffectsIn(a.fx)) = {c} /\ SpawnAgent \notin EffectsIn(a.fx)
    BY <1>1, <1>3 DEF Starts
  <2> QED BY <1>1, <1>2, <1>3, <2>1 DEF Starts, Staffed, Orderly
<1>4. ASSUME Asks(agent, a, c) PROVE Staffed(a, tools, {}) /\ Orderly(a)
  BY <1>1, <1>2, <1>4 DEF Asks, Staffed, Orderly
<1> QED BY <1>3, <1>4

\* The agent as it is.
LEMMA AgentHeld ==
    ASSUME IInv, DInv, Receiving
    PROVE  /\ agent \in AgentStates /\ Held(agent, evaluations)
           /\ evaluations \subseteq EvaluationTasks
BY DEF IInv, TypeOK, DInv, Receiving

\* A verdict that is awaited stays awaited.
Stays(s, t) ==
    s.active_run # NoRun /\ s.status = "Verifying" => t.status = "Verifying" /\ t.profile = s.profile

LEMMA IdlesHeld ==
    ASSUME NEW s, NEW t, NEW V, s.fx = <<>>, Held(s, V), Idles(s, t), Stays(s, t)
    PROVE  Held(t, V)
<1> SUFFICES ASSUME t.active_run # NoRun PROVE Held(t, V)
  BY NoRunHeld
<1>1. /\ t.active_run = s.active_run /\ t.pending_tools = s.pending_tools
      /\ t.backend_in_flight = s.backend_in_flight
  BY DEF Idles, Keeps
<1>2. EffectsIn(s.fx) = {}
  BY DEF EffectsIn
<1> QED BY <1>1, <1>2 DEF Held, Pressed, Judged, Stays

LEMMA PauseStays ==
    ASSUME NEW s \in AgentStates
    PROVE  Stays(s, pause(s))
BY DEF pause, Stays

LEMMA SetBehaviorProfileStays ==
    ASSUME NEW s \in AgentStates, NEW p
    PROVE  Stays(s, set_behavior_profile(s, p))
<1>1. LET t == [s EXCEPT !.pending_profile = p] IN t.status = s.status /\ t.profile = s.profile
  BY Zenon DEF AgentStates
<1> QED BY <1>1 DEF set_behavior_profile, Stays

LEMMA ChildEndedStays ==
    ASSUME NEW s \in AgentStates, NEW k
    PROVE  Stays(s, child_ended(s, k))
<1> DEFINE t == [s EXCEPT !.children = @ \ {k}]
           idle == t.children = {} /\ t.status = "WaitingForChildren"
           status == IF idle THEN "Idle" ELSE t.status
           e == <<Emit("ChildAgentCompleted")>>
           u == [t EXCEPT !.status = status]
<1>1. child_ended(s, k) = With(u, e)
  BY DEF child_ended
<1>2. s.children \ {k} \in SUBSET Children
  BY FieldTypes
<1>3. t \in AgentStates /\ t.status = s.status /\ t.profile = s.profile
  BY <1>2, Zenon DEF AgentStates
<1> HIDE DEF t
<1>4. status \in Statuses /\ (t.status = "Verifying" => status = t.status)
  BY <1>3, FieldTypes DEF Statuses
<1> HIDE DEF status
<1>5. u \in AgentStates /\ u.status = status /\ u.profile = t.profile
  BY <1>3, <1>4, Zenon DEF AgentStates
<1>6. e \in Seq(Effects)
  BY EffectTypes DEF Events
<1> HIDE DEF u, e
<1>7. With(u, e).status = u.status /\ With(u, e).profile = u.profile
  BY <1>5, <1>6, WithFields
<1> QED BY <1>1, <1>3, <1>4, <1>5, <1>7 DEF Stays

LEMMA RequeuesHeld ==
    ASSUME NEW s, NEW t, NEW V, s.fx = <<>>, Held(s, V), Requeues(s, t)
    PROVE  Held(t, V)
<1>1. EffectsIn(s.fx) = {}
  BY DEF EffectsIn
<1> QED BY <1>1 DEF Requeues, Held, Pressed, Judged

-----------------------------------------------------------------------------
(***************************************************************************)
(* Each action leaves the run with something that moves it.                *)
(***************************************************************************)
\* A command that starts no run and makes no request.
LEMMA IdleCommandDriven ==
    ASSUME IInv, IInv', CallsInv, DInv, Receiving, shutdown' = shutdown, NEW a, NEW w, NEW o,
           Idles(agent, a), Stays(agent, a), Steps(agent, a, {}), w.tools = tools,
           w.evaluations = evaluations, handle_command(a, w, o)
    PROVE  DInv'
<1>1. Flows(a) /\ Reduced(a, approved')
  BY IdlesFlows, StepsReduced
<1>2. Held(a, evaluations) /\ evaluations \subseteq EvaluationTasks
  BY AgentHeld, IdlesHeld DEF IInv, TypeOK
<1>3. Staffed(a, tools, {}) /\ Orderly(a)
  BY StepsStaffed
<1> QED BY <1>1, <1>2, <1>3, HandleCommandDriven

LEMMA SpawnChildDriven ==
    ASSUME Steered, IInv, IInv', CallsInv, DInv, NEW o, SpawnChild(o)
    PROVE  DInv'
<1> DEFINE a == With(agent, <<SpawnAgent>>)
<1>1. /\ Receiving /\ shutdown' = shutdown /\ approved' = approved /\ handle_command(a, Tasks, o)
      /\ NoEvaluators
  BY DEF SpawnChild, HostCommand, Control, Steered
<1>2. agent \in AgentStates /\ agent.fx = <<>> /\ Tasks.tools = tools /\ Tasks.evaluations = evaluations
  BY TasksAsTheyAre DEF IInv, TypeOK
<1>3. Reduced(a, approved')
  BY SpawnCommandReduced
<1>4. Idles(agent, a)
  BY <1>2, SpawnCommandIdles
<1>5. /\ a.pending_tools = agent.pending_tools /\ a.pending_permissions = agent.pending_permissions
      /\ a.status = agent.status /\ a.profile = agent.profile
      /\ Executed(EffectsIn(a.fx)) = Executed(EffectsIn(agent.fx))
  BY <1>2, SpawnCommandFields
<1> HIDE DEF a
<1>6. Flows(a)
  BY <1>4, IdlesFlows
<1>7. Held(a, evaluations) /\ evaluations \subseteq EvaluationTasks
  BY <1>1, <1>2, <1>4, <1>5, AgentHeld, IdlesHeld DEF Stays
<1>8. Orderly(a)
  BY <1>1, <1>2, <1>5, NothingExecuted DEF Orderly
<1>9. Staffed(a, tools, {})
  <2>1. Staffed(agent, tools, {})
    BY <1>1, NothingInLoop DEF DInv, Manned, Receiving
  <2> QED BY <1>2, <1>5, <2>1 DEF Staffed
<1> QED BY <1>1, <1>2, <1>3, <1>6, <1>7, <1>8, <1>9, HandleCommandDriven

LEMMA HostStepDriven ==
    ASSUME "Resume" \notin HostCommands, Steered, IInv, IInv', CallsInv, DInv, NEW o, HostStep(o)
    PROVE  DInv'
<1>1. /\ agent \in AgentStates /\ agent.fx = <<>> /\ unsent \subseteq Inputs
      /\ Tasks.tools = tools /\ Tasks.evaluations = evaluations
  BY TasksAsTheyAre DEF IInv, TypeOK
<1>2. ASSUME NEW a, Idles(agent, a), Stays(agent, a), Steps(agent, a, {}), HostCommand(a, o)
      PROVE  DInv'
  <2>1. Receiving /\ shutdown' = shutdown /\ handle_command(a, Tasks, o)
    BY <1>2 DEF HostCommand
  <2> QED BY <1>1, <1>2, <2>1, IdleCommandDriven
<1>3. ASSUME NEW i \in unsent, Submit(i, o) PROVE DInv'
  <2> DEFINE t == start_or_queue(agent, i, o)
  <2>1. /\ Receiving /\ i \in Inputs /\ i \in unsent \ unsent' /\ shutdown' = shutdown
        /\ handle_command(t, Tasks, o)
    BY <1>1, <1>3 DEF Submit
  <2>2. Steps(agent, t, {}) /\ Flows(t)
    BY <1>1, <2>1, StartOrQueueSteps, SubmitFlows
  <2>3. Requeues(agent, t) \/ Begins(agent, t)
    BY <1>1, <2>1, StartOrQueueBegins
  <2> HIDE DEF t
  <2>4. Held(t, evaluations) /\ evaluations \subseteq EvaluationTasks
    BY <1>1, <2>1, <2>3, AgentHeld, RequeuesHeld, BeginsHeld
  <2>5. Reduced(t, approved') /\ Staffed(t, tools, {}) /\ Orderly(t)
    BY <2>1, <2>2, StepsReduced, StepsStaffed
  <2> QED BY <1>1, <2>1, <2>2, <2>4, <2>5, HandleCommandDriven
<1>4. CASE Cancel(o)
  <2> DEFINE t == cancel(agent)
  <2>1. Receiving /\ shutdown' = shutdown /\ handle_command(t, Tasks, o)
    BY <1>4 DEF Cancel, HostCommand
  <2>2. Steps(agent, t, {}) \/ Steps(agent, t, ToolCalls)
    BY <1>1, CancelSteps
  <2>3. t = agent \/ Cancels(agent, t)
    BY <1>1, CancelCancels
  <2>4. Flows(t)
    BY CancelFlows
  <2> HIDE DEF t
  <2>5. Held(t, evaluations) /\ evaluations \subseteq EvaluationTasks
    BY <2>1, <2>3, AgentHeld, NoRunHeld DEF Cancels
  <2>6. Reduced(t, approved') /\ Staffed(t, tools, {}) /\ Orderly(t)
    BY <2>1, <2>2, StepsReduced, StepsStaffed
  <2> QED BY <1>1, <2>1, <2>4, <2>5, <2>6, HandleCommandDriven
<1>5. CASE Pause(o)
  BY <1>1, <1>2, <1>5, PauseIdles, PauseSteps, PauseStays DEF Pause
<1>6. CASE Resume(o)
  BY <1>6 DEF Resume, Control
<1>7. ASSUME NEW p \in Profiles, SetBehaviorProfile(p, o) PROVE DInv'
  BY <1>1, <1>2, <1>7, SetBehaviorProfileIdles, SetBehaviorProfileSteps, SetBehaviorProfileStays
     DEF SetBehaviorProfile
<1> QED BY <1>3, <1>4, <1>5, <1>6, <1>7, SpawnChildDriven DEF HostStep

LEMMA ResolvePermissionDriven ==
    ASSUME IInv, IInv', CallsInv, DInv, NEW c \in ToolCalls, NEW yes \in BOOLEAN, NEW o,
           ResolvePermission(c, yes, o)
    PROVE  DInv'
<1> DEFINE t == permission_resolved(agent, c, yes, o)
<1>1. /\ Receiving /\ shutdown' = shutdown /\ handle_command(t, Tasks, o)
      /\ Tasks.tools = tools /\ Tasks.evaluations = evaluations
  BY TasksAsTheyAre DEF ResolvePermission
<1>2. /\ agent \in AgentStates /\ agent.pending_permissions \subseteq agent.pending_tools
      /\ agent.pending_tools \subseteq CallsIn(agent.messages)
  BY DEF IInv, TypeOK, PendingInv
<1>3. Reduced(t, approved') /\ Flows(t)
  BY ResolvePermissionReduces, PermissionResolvedFlows
<1>4. Steps(agent, t, {}) \/ Steps(agent, t, {c}) \/ Starts(agent, t, c)
  BY <1>2, PermissionResolvedSteps
<1>5. t = agent \/ Pressed(t)
  <2>1. c \notin agent.pending_permissions => t = agent
    BY DEF permission_resolved
  <2>2. c \in agent.pending_permissions => Pressed(t)
    BY <1>2, PermissionResolvedPresses
  <2> QED BY <2>1, <2>2
<1> HIDE DEF t
<1>6. Held(t, evaluations) /\ evaluations \subseteq EvaluationTasks
  BY <1>1, <1>5, AgentHeld DEF Held
<1>7. Staffed(t, tools, {}) /\ Orderly(t)
  BY <1>1, <1>4, StepsStaffed, StartsStaffed
<1> QED BY <1>1, <1>3, <1>6, <1>7, HandleCommandDriven

LEMMA BackendEventDriven ==
    ASSUME IInv, IInv', CallsInv, DInv, NEW q, NEW react, NEW rest, NEW o,
           Reduced(react, approved), Flows(react),
           q.run = agent.active_run =>
               Held(react, evaluations) /\ Staffed(react, tools, {}) /\ Orderly(react),
           BackendEvent(q, react, rest, o)
    PROVE  DInv'
<1> DEFINE a == IF agent.active_run = q.run THEN react ELSE agent
           w == [Tasks EXCEPT !.requests = (@ \ {q}) \cup rest]
<1>1. Receiving /\ shutdown' = shutdown /\ handle_command(a, w, o)
  BY DEF BackendEvent
<1>2. w.tools = tools /\ w.evaluations = evaluations
  BY DEF Tasks
<1>3. agent \in AgentStates /\ Held(agent, evaluations) /\ evaluations \subseteq EvaluationTasks
  BY <1>1, AgentHeld
<1>4. Steps(agent, agent, {})
  BY <1>3, StepsReflexive
<1>5. /\ Reduced(agent, approved) /\ Flows(agent)
      /\ Staffed(agent, tools, {}) /\ Orderly(agent)
  BY <1>1, <1>3, <1>4, StepsReduced, IdlesReflexive, IdlesFlows, StepsStaffed
<1>6. /\ Reduced(a, approved) /\ Flows(a) /\ Held(a, evaluations)
      /\ Staffed(a, tools, {}) /\ Orderly(a)
  BY <1>3, <1>5
<1> HIDE DEF a, w
<1> QED BY <1>1, <1>2, <1>3, <1>6, HandleCommandDriven

\* The run ends, or its request stays out.
Aloft(s) == s.active_run = NoRun \/ s.backend_in_flight

LEMMA HandlesAloft ==
    ASSUME NEW s, NEW t, NEW c, Aloft(s), Handles(s, t, c)
    PROVE  Aloft(t)
<1>1. \A u, v : Aloft(u) /\ Idles(u, v) => Aloft(v)
  BY DEF Aloft, Idles
<1>2. \A u, v : Inquires(u, v) => Aloft(v)
  BY DEF Aloft, Inquires
<1>3. \A u : Answered(s, u, c) => Aloft(u)
  BY DEF Aloft, Answered
<1>4. \A v : Replies(s, v, c) => Aloft(v)
  BY <1>1, <1>2, <1>3 DEF Replies, Moves
<1> QED BY <1>1, <1>4 DEF Handles

LEMMA RequestStreamsDriven ==
    ASSUME IInv, IInv', CallsInv, JInv, DInv, NEW q \in requests, NEW o, RequestStreams(q, o)
    PROVE  DInv'
<1>1. agent \in AgentStates /\ Receiving
  BY DEF IInv, TypeOK, RequestStreams, TextDelta, ReasoningDelta, ToolCallRequested, BackendEvent
<1>2. q.run = agent.active_run => Aloft(agent)
  BY <1>1, StreamSteady DEF Aloft
<1>3. \A t : Aloft(t) => Held(t, evaluations)
  BY DEF Aloft, Held, Pressed
<1>4. ASSUME NEW t, Idles(agent, t), Steps(agent, t, {}), BackendEvent(q, t, {q}, o) PROVE DInv'
  <2>1. Reduced(t, approved) /\ Flows(t) /\ Staffed(t, tools, {}) /\ Orderly(t)
    BY <1>1, <1>4, StepsReduced, IdlesFlows, StepsStaffed
  <2>2. q.run = agent.active_run => Held(t, evaluations)
    <3>1. Aloft(agent) => Aloft(t)
      BY <1>4 DEF Aloft, Idles
    <3> QED BY <1>2, <1>3, <3>1
  <2> QED BY <1>4, <2>1, <2>2, BackendEventDriven
<1>5. CASE TextDelta(q, o)
  BY <1>1, <1>4, <1>5, TextDeltaIdles, TextDeltaSteps DEF TextDelta
<1>6. CASE ReasoningDelta(q, o)
  BY <1>1, <1>4, <1>6, ReasoningDeltaIdles, ReasoningDeltaSteps DEF ReasoningDelta
<1>7. ASSUME NEW c \in ToolCalls, ToolCallRequested(q, c, o) PROVE DInv'
  <2> DEFINE t == tool_requested(agent, c, o)
             rest == {[q EXCEPT !.called = TRUE]}
  <2>1. c \notin CallsIn(agent.messages) /\ BackendEvent(q, t, rest, o)
    BY <1>7 DEF ToolCallRequested
  <2>2. c \notin agent.pending_permissions
    BY <2>1 DEF IInv, PendingInv
  <2>3. Steps(agent, t, {c}) \/ Starts(agent, t, c) \/ Asks(agent, t, c)
    BY <1>1, <2>2, ToolRequestedSteps
  <2>4. Reduced(t, approved) /\ Flows(t)
    BY <2>1, ToolRequestedReduces, ToolRequestedFlows
  <2>5. PICK u, v : Declares(agent, u, c) /\ Idles(u, v) /\ Handles(v, t, c)
    BY <1>1, ToolRequestedHandles
  <2> HIDE DEF t, rest
  <2>6. q.run = agent.active_run => Held(t, evaluations)
    <3>1. Aloft(agent) => Aloft(u)
      BY <2>5 DEF Aloft, Declares
    <3>2. Aloft(u) => Aloft(v)
      BY <2>5 DEF Aloft, Idles
    <3> QED BY <1>2, <1>3, <2>5, <3>1, <3>2, HandlesAloft
  <2>7. Staffed(t, tools, {}) /\ Orderly(t)
    BY <1>1, <2>3, StepsStaffed, StartsStaffed
  <2> QED BY <2>1, <2>4, <2>6, <2>7, BackendEventDriven
<1> QED BY <1>5, <1>6, <1>7 DEF RequestStreams

LEMMA RequestEndsDriven ==
    ASSUME IInv, IInv', CallsInv, DInv, NEW q \in requests, NEW o, RequestEnds(q, o)
    PROVE  DInv'
<1>1. agent \in AgentStates /\ Receiving
  BY DEF IInv, TypeOK, RequestEnds, Completed, BackendError, BackendEvent
<1>2. ASSUME NEW t, Steps(agent, t, {}), Flows(t), Held(t, evaluations), BackendEvent(q, t, {}, o)
      PROVE  DInv'
  <2>1. Reduced(t, approved) /\ Staffed(t, tools, {}) /\ Orderly(t)
    BY <1>1, <1>2, StepsReduced, StepsStaffed
  <2> QED BY <1>2, <2>1, BackendEventDriven
<1>3. CASE BackendError(q, o)
  <2>1. Steps(agent, fail(agent), {}) /\ Flows(fail(agent)) /\ Held(fail(agent), evaluations)
    BY <1>1, FailSteps, FailIdles, IdlesFlows, NoRunHeld
  <2> QED BY <1>2, <1>3, <2>1 DEF BackendError
<1>4. ASSUME NEW reason, NEW failures, Completed(q, reason, failures, o) PROVE DInv'
  <2> DEFINE t == completed(agent, reason, failures, o)
  <2>1. Steps(agent, t, {}) /\ Flows(t)
    BY <1>1, CompletedSteps, CompletedFlows
  <2>2. Held(t, evaluations)
    BY <1>1, CompletedPresses, JudgingHeld
  <2>3. BackendEvent(q, t, {}, o)
    BY <1>4 DEF Completed
  <2> HIDE DEF t
  <2> QED BY <1>2, <2>1, <2>2, <2>3
<1> QED BY <1>3, <1>4 DEF RequestEnds

LEMMA ToolEndsDriven ==
    ASSUME IInv, IInv', CallsInv, DInv, NEW c \in ToolCalls, NEW o, ToolEnds(c, o)
    PROVE  DInv'
<1>1. PICK outcome : ToolReports(c, outcome, o)
  BY DEF ToolEnds
<1> DEFINE t == IF outcome = "Completed" THEN tool_completed(agent, c, o)
                ELSE tool_failed(agent, c, outcome, o)
           w == [Tasks EXCEPT !.tools[c] = "ended"]
<1>2. Receiving /\ shutdown' = shutdown /\ handle_command(t, w, o)
  BY <1>1 DEF ToolReports
<1>3. agent \in AgentStates /\ tools \in [ToolCalls -> ToolStates] /\ agent.pending_tools \subseteq ToolCalls
  BY FieldTypes DEF IInv, TypeOK
<1>4. w.evaluations = evaluations /\ w.tools = [tools EXCEPT ![c] = "ended"]
  BY DEF Tasks
<1>5. Flows(t)
  BY ToolResultFlows
<1>6. c \notin agent.pending_tools => t = agent
  BY DEF tool_completed, tool_failed
<1>7. c \in agent.pending_tools => Pressed(t)
  BY <1>3, ToolCompletedPresses, ToolFailedPresses
<1>8. Steps(agent, t, {}) \/ Steps(agent, t, {c})
  BY <1>3, ToolCompletedSteps, ToolFailedSteps
<1>9. c \in agent.pending_tools => Steps(agent, t, {c})
  BY <1>3, ToolCompletedSettles, ToolFailedSteps
<1> HIDE DEF t, w
<1>10. Reduced(t, approved')
  BY <1>8, StepsReduced
<1>11. Held(t, evaluations) /\ evaluations \subseteq EvaluationTasks
  BY <1>2, <1>6, <1>7, AgentHeld DEF Held
<1>12. Staffed(t, w.tools, {}) /\ Orderly(t)
  <2>1. CASE c \in agent.pending_tools
    <3>1. \A d \in agent.pending_tools \ {c} : w.tools[d] = tools[d]
      BY <1>3, <1>4
    <3> QED BY <1>2, <1>9, <2>1, <3>1, StepsStaffed
  <2>2. CASE c \notin agent.pending_tools
    <3>1. \A d \in agent.pending_tools \ {} : w.tools[d] = tools[d]
      BY <1>3, <1>4, <2>2
    <3>2. Steps(agent, t, {})
      BY <1>3, <1>6, <2>2, StepsReflexive
    <3> QED BY <1>2, <3>1, <3>2, StepsStaffed
  <2> QED BY <2>1, <2>2
<1> QED BY <1>2, <1>4, <1>5, <1>10, <1>11, <1>12, HandleCommandDriven

LEMMA EvaluationEndsDriven ==
    ASSUME IInv, IInv', CallsInv, KInv, DInv, NEW v \in evaluations, NEW o, EvaluationEnds(v, o)
    PROVE  DInv'
<1>1. PICK failures : EvaluationReports(v, failures, o)
  BY DEF EvaluationEnds
<1> DEFINE t == completion_evaluated(agent, v.run, v.attempt, failures, o)
           V == evaluations \ {v}
           w == [Tasks EXCEPT !.evaluations = V]
<1>2. Receiving /\ ~shutdown /\ shutdown' = shutdown /\ handle_command(t, w, o)
  BY <1>1 DEF EvaluationReports, Receiving, Tasks
<1>3. /\ agent \in AgentStates /\ Held(agent, evaluations) /\ V \subseteq EvaluationTasks
      /\ EffectsIn(agent.fx) = {}
  BY <1>2, AgentHeld DEF IInv, TypeOK, EffectsIn
<1>4. w.tools = tools /\ w.evaluations = V
  BY DEF Tasks
<1>5. Steps(agent, t, {})
  BY <1>3, CompletionEvaluatedSteps
<1>6. Idles(agent, t) \/ Inquires(agent, t)
  BY <1>3, CompletionEvaluatedMoves
<1>7. \/ Pressed(t)
      \/ t = agent /\ (VerdictExpected(agent, v.run, v.attempt) => GateEvaluators(agent.profile) = {})
  BY <1>3, CompletionEvaluatedPresses
<1> HIDE DEF t, w
<1>8. Held(t, V)
  <2>1. ASSUME t = agent, VerdictExpected(agent, v.run, v.attempt) => GateEvaluators(agent.profile) = {},
               Judged(agent, evaluations)
        PROVE  Judged(agent, V)
    <3>1. v.run = agent.active_run => v.attempt = agent.gate_attempts
      BY <1>2 DEF KInv, Sits, Gated, Judges
    <3>2. v.run # agent.active_run
      BY <2>1, <3>1 DEF Judged, VerdictExpected
    <3> QED BY <1>3, <2>1, <3>2 DEF Judged
  <2> HIDE DEF V
  <2> QED BY <1>3, <1>7, <2>1 DEF Held
<1>9. Flows(t) /\ Reduced(t, approved') /\ Staffed(t, tools, {}) /\ Orderly(t)
  BY <1>2, <1>5, <1>6, MovesFlows, StepsReduced, StepsStaffed
<1> QED BY <1>2, <1>3, <1>4, <1>8, <1>9, HandleCommandDriven

LEMMA ChildReportedDriven ==
    ASSUME IInv, IInv', CallsInv, DInv, NEW k \in Children, NEW o, ChildReported(k, o)
    PROVE  DInv'
<1> DEFINE a == child_ended(agent, k)
           w == [Tasks EXCEPT !.kids[k] = "gone"]
<1>1. Receiving /\ shutdown' = shutdown /\ handle_command(a, w, o)
  BY DEF ChildReported
<1>2. w.tools = tools /\ w.evaluations = evaluations
  BY DEF Tasks
<1>3. agent \in AgentStates
  BY DEF IInv, TypeOK
<1>4. Idles(agent, a) /\ Stays(agent, a) /\ Steps(agent, a, {})
  BY <1>3, ChildEndedIdles, ChildEndedStays, ChildEndedSteps
<1> HIDE DEF a, w
<1> QED BY <1>1, <1>2, <1>4, IdleCommandDriven

-----------------------------------------------------------------------------
\* While the loop spawns or waits for a child, the run has more than a verdict to wait for.
LEMMA SpawnPresses ==
    ASSUME IInv, DInv, ~shutdown, loop.at \in {"spawning", "awaiting"}
    PROVE  Pressed(agent)
<1>1. agent.profile \in Profiles
  BY FieldTypes DEF IInv, TypeOK
<1>2. Held(agent, evaluations) /\ Busy
  BY DEF DInv
<1> QED BY <1>1, <1>2 DEF Held, Judged, Busy, Pressed, NoEvaluators

LEMMA SpawnStepsDriven ==
    ASSUME IInv, IInv', CallsInv, DInv, NEW o,
           \/ SpawnRefused(o) \/ await_child(o)
           \/ \E k \in Children, awaiting \in BOOLEAN : SpawnAdmitted(k, awaiting, o)
    PROVE  DInv'
<1>1. /\ agent \in AgentStates /\ agent.fx = <<>> /\ evaluations \subseteq EvaluationTasks
      /\ agent.pending_tools \subseteq ToolCalls
  BY FieldTypes DEF IInv, TypeOK
<1>2. shutdown' = shutdown /\ loop.at \in {"spawning", "awaiting"}
  BY DEF SpawnRefused, await_child, SpawnAdmitted
<1> SUFFICES ASSUME ~shutdown PROVE DInv'
  BY <1>2 DEF DInv
<1>3. Pressed(agent) /\ Manned /\ Busy
  BY <1>2, SpawnPresses DEF DInv
<1>4. loop.call \in ToolCalls \cup {NoCall}
  <2>1. loop \in LoopStates
    BY DEF IInv, TypeOK
  <2> QED BY <2>1, Zenon DEF LoopStates
<1>5. Executed(EffectsIn(agent.fx)) = {}
  BY <1>1, NothingExecuted
<1>6. InLoop \subseteq {loop.call}
  BY DEF InLoop
\* The agent, with a child more or less.
<1>7. ASSUME NEW a, Idles(agent, a), Steps(agent, a, {}), a.active_run = agent.active_run
      PROVE  /\ a \in AgentStates /\ Pressed(a) /\ Flows(a) /\ Executed(EffectsIn(a.fx)) = {}
             /\ Staffed(a, tools, {loop.call}) /\ a.pending_tools = agent.pending_tools
  <2>1. a \in AgentStates /\ Flows(a)
    BY <1>7, IdlesType, IdlesFlows
  <2>2. Pressed(a)
    BY <1>3, <1>7 DEF Pressed, Idles, Keeps
  <2>3. Executed(EffectsIn(a.fx)) = {} /\ a.pending_tools = agent.pending_tools
    BY <1>5, <1>7 DEF Steps
  <2>4. Staffed(a, tools, {loop.call})
    BY <1>3, <1>5, <1>6, <1>7 DEF Steps, Manned, Staffed
  <2> QED BY <2>1, <2>2, <2>3, <2>4
\* The answer to the call.
<1>8. ASSUME NEW a, Idles(agent, a), Steps(agent, a, {}), a.active_run = agent.active_run
      PROVE  LET b == AnswerSpawnCall(a, o)
             IN /\ Pressed(b) /\ Flows(b) /\ Executed(EffectsIn(b.fx)) = {} /\ Staffed(b, tools, {})
  <2> DEFINE b == AnswerSpawnCall(a, o)
  <2>1. /\ a \in AgentStates /\ Pressed(a) /\ Executed(EffectsIn(a.fx)) = {}
        /\ Staffed(a, tools, {loop.call}) /\ a.pending_tools = agent.pending_tools
    BY <1>7, <1>8
  <2>2. Flows(b)
    BY <1>8, AnswerSpawnCallFlows
  <2>3. CASE loop.call \notin a.pending_tools
    <3>1. b = a
      BY <2>3 DEF AnswerSpawnCall, tool_completed
    <3> HIDE DEF b
    <3> QED BY <2>1, <2>2, <2>3, <3>1 DEF b, Staffed
  <2>4. CASE loop.call \in a.pending_tools
    <3>1. loop.call # NoCall
      BY <1>1, <2>1, <2>4, NoCallAssumption
    <3>2. b = tool_completed(a, loop.call, o)
      BY <3>1 DEF AnswerSpawnCall
    <3>3. Steps(a, b, {loop.call}) /\ Pressed(b)
      BY <2>1, <2>4, <3>2, ToolCompletedSettles, ToolCompletedPresses
    <3> HIDE DEF b
    <3>4. Executed(EffectsIn(b.fx)) = {} /\ Staffed(b, tools, {})
      BY <2>1, <3>3 DEF Steps, Staffed
    <3> QED BY <2>2, <3>3, <3>4 DEF b
  <2> QED BY <2>3, <2>4
<1>9. ASSUME NEW a, NEW b, NEW w, NEW l, NEW broken, NEW D, a \in AgentStates, Pressed(b), Flows(b),
             Executed(EffectsIn(b.fx)) = {}, Staffed(b, tools, D), w.tools = tools,
             w.evaluations = evaluations, Dispatch(a, b, w, l, broken)
      PROVE  \/ DInv'
             \/ /\ loop' = l /\ Held(agent', evaluations')
                /\ agent'.active_run = b.active_run /\ agent'.pending_tools = b.pending_tools
                /\ Staffed(agent', tools', D)
  <2>1. Balanced(b) /\ Held(b, w.evaluations)
    BY <1>9 DEF Flows, Held
  <2>2. D \cup (Executed(EffectsIn(b.fx)) \cap SpawnCalls) = D
    BY <1>9
  <2>3. Staffed(b, w.tools, D) /\ w.evaluations \subseteq EvaluationTasks
    BY <1>1, <1>9
  <2>4. \/ DInv'
        \/ /\ loop' = l /\ Held(agent', evaluations')
           /\ agent'.active_run = b.active_run /\ agent'.pending_tools = b.pending_tools
           /\ Staffed(agent', tools', D \cup (Executed(EffectsIn(b.fx)) \cap SpawnCalls))
    BY <1>2, <1>9, <2>1, <2>3, DispatchDriven
  <2> QED BY <2>2, <2>4
<1>10. ASSUME NEW a, NEW w, NEW x, x \in AgentStates, Idles(agent, a), Steps(agent, a, {}),
              a.active_run = agent.active_run, w.tools = tools, w.evaluations = evaluations,
              Dispatch(x, AnswerSpawnCall(a, o), w, AfterSpawn, Ended(TRUE))
       PROVE  DInv'
  <2> DEFINE b == AnswerSpawnCall(a, o)
             l == AfterSpawn
             broken == Ended(TRUE)
  <2>1. Pressed(b) /\ Flows(b) /\ Executed(EffectsIn(b.fx)) = {} /\ Staffed(b, tools, {})
    BY <1>8, <1>10
  <2>2. Dispatch(x, b, w, l, broken)
    BY <1>10
  <2>3. l.at \in {"stopped", "ready"}
    <3>1. l \in {Ended(TRUE), Ready}
      BY DEF AfterSpawn
    <3>2. Ended(TRUE).at = "stopped" /\ Ready.at = "ready"
      BY LoopFields
    <3> HIDE DEF l
    <3> QED BY <3>1, <3>2
  <2> HIDE DEF b, l, broken
  <2>4. \/ DInv'
        \/ /\ loop' = l /\ Held(agent', evaluations')
           /\ Staffed(agent', tools', {})
    BY <1>9, <1>10, <2>1, <2>2
  <2>5. ASSUME loop' = l, Held(agent', evaluations'), Staffed(agent', tools', {}) PROVE DInv'
    BY <2>3, <2>5 DEF DInv, Manned, Staffed, Busy
  <2> QED BY <2>4, <2>5
<1>11. CASE SpawnRefused(o)
  <2> DEFINE b == AnswerSpawnCall(agent, o)
  <2>1. Idles(agent, agent) /\ Steps(agent, agent, {})
    BY <1>1, IdlesReflexive, StepsReflexive
  <2>2. Dispatch(b, b, Tasks, AfterSpawn, Ended(TRUE))
    BY <1>11 DEF SpawnRefused
  <2>3. b \in AgentStates
    BY <1>8, <2>1 DEF Flows, Balanced
  <2> QED BY <1>10, <2>1, <2>2, <2>3, TasksAsTheyAre
<1>12. CASE await_child(o)
  <2> DEFINE a == IF kids[loop.child] = "lost" THEN child_ended(agent, loop.child) ELSE agent
  <2>1. Idles(agent, a) /\ Steps(agent, a, {}) /\ a.active_run = agent.active_run
    BY <1>1, IdlesReflexive, ChildEndedIdles, StepsReflexive, ChildEndedSteps
  <2>2. Dispatch(a, AnswerSpawnCall(a, o), Tasks, AfterSpawn, Ended(TRUE))
    BY <1>12 DEF await_child
  <2> HIDE DEF a
  <2> QED BY <1>7, <1>10, <2>1, <2>2, TasksAsTheyAre
<1>13. ASSUME NEW k \in Children, NEW awaiting \in BOOLEAN, SpawnAdmitted(k, awaiting, o) PROVE DInv'
  <2> DEFINE a == child_spawned(agent, k, awaiting)
             w == [Tasks EXCEPT !.kids[k] = IF shutdown THEN "cancelled" ELSE "running"]
             A(fatal) == Loop("awaiting", loop.call, k, fatal)
             l == A(loop.fatal)
             m == A(TRUE)
  <2>1. Idles(agent, a) /\ Steps(agent, a, {}) /\ a.active_run = agent.active_run
    BY <1>1, ChildSpawnedIdles, ChildSpawnedSteps
  <2>2. \/ Dispatch(a, a, w, l, m)
        \/ Dispatch(a, AnswerSpawnCall(a, o), w, AfterSpawn, Ended(TRUE))
    BY <1>13 DEF SpawnAdmitted
  <2>3. w.tools = tools /\ w.evaluations = evaluations
    BY DEF Tasks
  <2>4. l.at = "awaiting" /\ l.call = loop.call
    BY DEF Loop
  <2> HIDE DEF a, w, l, m
  <2>5. ASSUME Dispatch(a, a, w, l, m) PROVE DInv'
    <3>1. /\ a \in AgentStates /\ Pressed(a) /\ Flows(a) /\ Executed(EffectsIn(a.fx)) = {}
          /\ Staffed(a, tools, {loop.call}) /\ a.pending_tools = agent.pending_tools
      BY <1>7, <2>1
    <3>2. \/ DInv'
          \/ /\ loop' = l /\ Held(agent', evaluations')
             /\ agent'.active_run = a.active_run /\ agent'.pending_tools = a.pending_tools
             /\ Staffed(agent', tools', {loop.call})
      BY <1>9, <2>3, <2>5, <3>1
    <3>3. ASSUME loop' = l, Held(agent', evaluations'), agent'.active_run = a.active_run,
                 agent'.pending_tools = a.pending_tools, Staffed(agent', tools', {loop.call})
          PROVE  DInv'
      <4>1. loop'.at = "awaiting" /\ loop'.call = loop.call
        BY <2>4, <3>3
      <4>2. \A c \in agent'.pending_tools : c \in {loop.call} => c \in InLoop'
        BY <1>1, <3>1, <3>3, <4>1 DEF InLoop
      <4>3. Manned'
        BY <3>3, <4>2 DEF Manned, Staffed
      <4>4. Busy'
        BY <1>2, <1>3, <2>1, <3>1, <3>3, <4>1 DEF Busy, NoEvaluators
      <4> QED BY <3>3, <4>3, <4>4 DEF DInv
    <3> QED BY <3>2, <3>3
  <2>6. ASSUME Dispatch(a, AnswerSpawnCall(a, o), w, AfterSpawn, Ended(TRUE)) PROVE DInv'
    <3>1. a \in AgentStates
      BY <1>7, <2>1
    <3> QED BY <1>10, <2>1, <2>3, <2>6, <3>1
  <2> QED BY <2>2, <2>5, <2>6
<1> QED BY <1>11, <1>12, <1>13

LEMMA AsideDriven ==
    ASSUME IInv, KInv, DInv, Aside
    PROVE  DInv'
<1>1. agent' = agent
  BY AsideLeaves
<1>2. ASSUME evaluations' = evaluations, tools' = tools, loop' = loop, shutdown' = shutdown PROVE DInv'
  BY <1>1, <1>2 DEF DInv, Manned, InLoop, Busy
<1>3. ASSUME NEW c \in ToolCalls, ToolVanishes(c) PROVE DInv'
  <2>1. /\ tools' = [tools EXCEPT ![c] = "ended"] /\ tools \in [ToolCalls -> ToolStates]
        /\ evaluations' = evaluations /\ loop' = loop /\ shutdown' = shutdown
        /\ tools[c] = "cancelled" \/ loop.at = "stopped"
    BY <1>3 DEF ToolVanishes, IInv, TypeOK
  <2>2. ASSUME ~shutdown, loop.at # "stopped" PROVE Held(agent, evaluations) /\ Manned' /\ Busy'
    <3>1. \A d \in ToolCalls : tools[d] = "running" => tools'[d] = "running"
      BY <2>1, <2>2
    <3>2. InLoop' = InLoop /\ agent.pending_tools \subseteq ToolCalls
      BY <2>1, FieldTypes DEF InLoop, IInv, TypeOK
    <3> QED BY <1>1, <2>1, <2>2, <3>1, <3>2 DEF DInv, Manned, Staffed, Busy
  <2> QED BY <1>1, <2>1, <2>2 DEF DInv
<1>4. ASSUME NEW v \in evaluations, EvaluationVanishes(v) PROVE DInv'
  <2>1. /\ v.token = "cancelled" \/ loop.at = "stopped"
        /\ evaluations' = evaluations \ {v} /\ tools' = tools /\ loop' = loop /\ shutdown' = shutdown
    BY <1>4 DEF EvaluationVanishes
  <2>2. ASSUME ~shutdown, loop.at # "stopped" PROVE Held(agent, evaluations') /\ Manned' /\ Busy'
    <3>1. v.run # agent.active_run
      BY <2>1, <2>2 DEF KInv, Sits, Gated, Judges
    <3>2. Held(agent, evaluations) => Held(agent, evaluations')
      BY <2>1, <3>1 DEF Held, Judged
    <3> QED BY <1>1, <2>1, <2>2, <3>2 DEF DInv, Manned, InLoop, Busy
  <2> QED BY <1>1, <2>1, <2>2 DEF DInv
<1>5. ASSUME NEW q \in requests, RequestVanishes(q) PROVE DInv'
  BY <1>2, <1>5 DEF RequestVanishes
<1>6. ASSUME NEW k \in Children, ChildEnds(k) \/ ChildDies(k) PROVE DInv'
  BY <1>2, <1>6 DEF ChildEnds, ChildDies
<1>7. CASE CancelSession
  BY <1>7 DEF CancelSession, DInv
<1>8. CASE CloseMailbox
  <2>1. loop'.at = "stopped"
    <3>1. loop' = Ended(loop.fatal)
      BY <1>8 DEF CloseMailbox
    <3>2. Ended(loop.fatal).at = "stopped"
      BY LoopFields
    <3> QED BY <3>1, <3>2
  <2> QED BY <2>1 DEF DInv
<1>9. CASE UNCHANGED vars
  BY <1>2, <1>9 DEF vars, tasks
<1> QED BY <1>3, <1>4, <1>5, <1>6, <1>7, <1>8, <1>9 DEF Aside

LEMMA StepDriven ==
    ASSUME "Resume" \notin HostCommands, Steered, IInv, IInv', CallsInv, JInv, KInv, DInv, [Next]_vars
    PROVE  DInv'
<1>1. ASSUME StopOnCancel PROVE DInv'
  BY <1>1 DEF StopOnCancel, DInv
<1> QED BY <1>1, StepsAre, HostStepDriven, ResolvePermissionDriven, RequestStreamsDriven,
           RequestEndsDriven, ToolEndsDriven, EvaluationEndsDriven, ChildReportedDriven,
           SpawnStepsDriven, AsideDriven

LEMMA InitDInv ==
    ASSUME Init
    PROVE  DInv
<1>1. agent.active_run = NoRun /\ agent.pending_tools = {} /\ loop = Ready
  BY DEF Init, NewAgent
<1>2. loop.at = "ready"
  BY <1>1, LoopFields
<1> QED BY <1>1, <1>2 DEF DInv, Held, Pressed, Manned, Staffed, Busy

LEMMA DrivenSound ==
    ASSUME IInv, JInv, KInv, DInv
    PROVE  RunIsDriven
<1> SUFFICES ASSUME loop.at # "stopped", ~shutdown
             PROVE  /\ Active => \/ Answering # {}
                                 \/ agent.pending_tools # {}
                                 \/ \E v \in evaluations : VerdictExpected(agent, v.run, v.attempt)
                    /\ \A c \in agent.pending_tools : CallIsDriven(c)
  BY DEF RunIsDriven
<1>1. Held(agent, evaluations) /\ Manned
  BY DEF DInv
<1>2. Queries(agent) = {} /\ EffectsIn(agent.fx) = {} /\ Executed(EffectsIn(agent.fx)) = {}
  BY NothingYet, NothingExecuted DEF IInv, TypeOK, EffectsIn
<1>3. ASSUME Active, agent.backend_in_flight PROVE Answering # {}
  BY <1>2, <1>3 DEF JInv, FlightInv, FlightOK, Active, Answering
<1>4. ASSUME Judged(agent, evaluations)
      PROVE  \E v \in evaluations : VerdictExpected(agent, v.run, v.attempt)
  BY <1>2, <1>4 DEF Judged, KInv, Sits, Gated, Judges, VerdictExpected
<1>5. \A c \in agent.pending_tools : CallIsDriven(c)
  BY <1>1, <1>2 DEF Manned, Staffed, InLoop, CallIsDriven, ToolLives
<1> QED BY <1>1, <1>3, <1>4, <1>5 DEF Held, Pressed, Active

(***************************************************************************)
(* A run that the loop serves never waits for nothing: its request is out, *)
(* a call is pending that has its task, its prompt or the loop itself, or  *)
(* the evaluation whose verdict it waits for is on its way, whatever the   *)
(* interleaving of reports, refusals, cancels, spawns and dead children.   *)
(* The host does not resume runs (a resumed run asks twice), nor spawn     *)
(* agents by command while a gate has evaluators beside the loop: a spawn  *)
(* that is awaited takes the run out of Verifying, and its verdict is      *)
(* then dropped.                                                           *)
(***************************************************************************)
THEOREM RunStaysDriven ==
    ASSUME "Resume" \notin HostCommands,
           "SpawnChild" \notin HostCommands \/ \A p \in Profiles : GateEvaluators(p) = {}
    PROVE  Spec => []RunIsDriven
<1>1. Steered
  BY DEF Steered, NoEvaluators
<1>2. IInv /\ IInv' /\ CallsInv /\ JInv /\ KInv /\ DInv /\ [Next]_vars => CallsInv' /\ DInv'
  BY <1>1, StepFlows, StepDriven
<1>3. IInv /\ JInv /\ KInv /\ DInv => RunIsDriven
  BY DrivenSound
<1> QED BY <1>2, <1>3, InitCalls, InitDInv, InvariantHolds, Unresumed, PTL DEF Spec
=============================================================================

---------------------------- MODULE AgentProofs -----------------------------
(***************************************************************************)
(* What the reducer's operators preserve, for all values of the constants. *)
(***************************************************************************)
EXTENDS AgentRunner, SequenceTheorems, NaturalsInduction, WellFoundedInduction, TLAPS

(***************************************************************************)
(* s steps to t without starting a call: t has lost the calls D, has       *)
(* opened no prompt, forgets no call of the transcript.                    *)
(***************************************************************************)
Steps(s, t, D) ==
    /\ t \in AgentStates
    /\ CallsIn(s.messages) \subseteq CallsIn(t.messages)
    /\ t.pending_tools = s.pending_tools \ D
    /\ t.pending_permissions = s.pending_permissions \ D
    /\ Executed(EffectsIn(t.fx)) = Executed(EffectsIn(s.fx))
    /\ SpawnAgent \in EffectsIn(t.fx) => SpawnAgent \in EffectsIn(s.fx)

NotExecuting(e) == Executed(EffectsIn(e)) = {} /\ SpawnAgent \notin EffectsIn(e)

LEMMA FieldTypes ==
    ASSUME NEW s \in AgentStates
    PROVE  /\ s.status \in Statuses /\ s.messages \in Seq(Messages) /\ s.active_run \in Nat
           /\ s.backend_in_flight \in BOOLEAN /\ s.queued_inputs \in Seq(Inputs)
           /\ s.pending_tools \in SUBSET ToolCalls /\ s.pending_permissions \in SUBSET ToolCalls
           /\ s.children \in SUBSET Children /\ s.timeouts \in Nat /\ s.profile \in Profiles
           /\ s.pending_profile \in Profiles \cup {NoProfile} /\ s.entered \in BOOLEAN
           /\ s.turns \in Nat /\ s.tool_calls \in Nat /\ s.final_turn \in BOOLEAN
           /\ s.final_grace_used \in Nat /\ s.gate_attempts \in Nat
           /\ s.gate_continuations \in Nat /\ s.switches \in Nat /\ s.next_run \in Nat
           /\ s.next_request \in Nat /\ s.runs \in Nat /\ s.fx \in Seq(Effects)
BY Zenon DEF AgentStates

LEMMA StepsTransitive ==
    ASSUME NEW s, NEW t, NEW u, NEW D, NEW F, Steps(s, t, D), Steps(t, u, F)
    PROVE  Steps(s, u, D \cup F)
BY DEF Steps

LEMMA KeepsTransitive ==
    ASSUME NEW s, NEW t, NEW u, Steps(s, t, {}), Steps(t, u, {})
    PROVE  Steps(s, u, {})
BY DEF Steps

LEMMA StepsType ==
    ASSUME NEW s, NEW t, NEW D, Steps(s, t, D)
    PROVE  t \in AgentStates
BY DEF Steps

LEMMA StepsReflexive ==
    ASSUME NEW s \in AgentStates
    PROVE  Steps(s, s, {})
BY DEF Steps

LEMMA EffectsInConcat ==
    ASSUME NEW a \in Seq(Effects), NEW b \in Seq(Effects)
    PROVE  EffectsIn(a \o b) = EffectsIn(a) \cup EffectsIn(b)
<1>1. ASSUME NEW x \in EffectsIn(a \o b) PROVE x \in EffectsIn(a) \cup EffectsIn(b)
  <2>1. PICK i \in 1..Len(a \o b) : x = (a \o b)[i]
    BY <1>1 DEF EffectsIn
  <2>2. CASE i <= Len(a)
    BY <2>1, <2>2 DEF EffectsIn
  <2>3. CASE i > Len(a)
    <3>1. i - Len(a) \in 1..Len(b) /\ x = b[i - Len(a)]
      BY <2>1, <2>3
    <3> QED BY <3>1 DEF EffectsIn
  <2> QED BY <2>1, <2>2, <2>3
<1>2. ASSUME NEW x \in EffectsIn(a) PROVE x \in EffectsIn(a \o b)
  <2>1. PICK i \in 1..Len(a) : x = a[i]
    BY <1>2 DEF EffectsIn
  <2>2. i \in 1..Len(a \o b) /\ x = (a \o b)[i]
    BY <2>1
  <2> QED BY <2>2 DEF EffectsIn
<1>3. ASSUME NEW x \in EffectsIn(b) PROVE x \in EffectsIn(a \o b)
  <2>1. PICK i \in 1..Len(b) : x = b[i]
    BY <1>3 DEF EffectsIn
  <2>2. i + Len(a) \in 1..Len(a \o b) /\ x = (a \o b)[i + Len(a)]
    BY <2>1
  <2> QED BY <2>2 DEF EffectsIn
<1> QED BY <1>1, <1>2, <1>3

LEMMA EffectTypes ==
    /\ \A event \in Events : Emit(event) \in Effects /\ Emit(event).kind = "Emit"
    /\ SpawnAgent \in Effects /\ SpawnAgent.kind = "SpawnAgent"
    /\ FinishRun \in Effects /\ FinishRun.kind = "FinishRun"
    /\ \A id \in Nat, r \in Nat :
         ExecuteBackend(id, r) \in Effects /\ ExecuteBackend(id, r).kind = "ExecuteBackend"
    /\ \A c \in ToolCalls : ExecuteTool(c) \in Effects
    /\ \A r \in Nat, n \in Nat, p \in Profiles :
         /\ EvaluateCompletion(r, n, p) \in Effects
         /\ EvaluateCompletion(r, n, p).kind = "EvaluateCompletion"
    /\ \A r \in Nat : CancelBackend(r) \in Effects /\ CancelBackend(r).kind = "CancelBackend"
    /\ \A r \in Nat :
         CancelEvaluation(r) \in Effects /\ CancelEvaluation(r).kind = "CancelEvaluation"
    /\ \A calls \in SUBSET ToolCalls :
         CancelTools(calls) \in Effects /\ CancelTools(calls).kind = "CancelTools"
    /\ \A ks \in SUBSET Children :
         CancelChildren(ks) \in Effects /\ CancelChildren(ks).kind = "CancelChildren"
<1>1. \A event \in Events : Emit(event) \in Effects /\ Emit(event).kind = "Emit"
  BY DEF Effects, Emit
<1>2. SpawnAgent \in Effects /\ SpawnAgent.kind = "SpawnAgent"
  BY DEF Effects, SpawnAgent
<1>3. FinishRun \in Effects /\ FinishRun.kind = "FinishRun"
  BY DEF Effects, FinishRun
<1>4. \A id \in Nat, r \in Nat :
         ExecuteBackend(id, r) \in Effects /\ ExecuteBackend(id, r).kind = "ExecuteBackend"
  BY DEF Effects, ExecuteBackend
<1>5. \A c \in ToolCalls : ExecuteTool(c) \in Effects
  BY DEF Effects, ExecuteTool
<1>6. \A r \in Nat, n \in Nat, p \in Profiles :
         /\ EvaluateCompletion(r, n, p) \in Effects
         /\ EvaluateCompletion(r, n, p).kind = "EvaluateCompletion"
  BY DEF Effects, EvaluateCompletion
<1>7. \A r \in Nat : CancelBackend(r) \in Effects /\ CancelBackend(r).kind = "CancelBackend"
  BY DEF Effects, CancelBackend
<1>8. \A r \in Nat : CancelEvaluation(r) \in Effects /\ CancelEvaluation(r).kind = "CancelEvaluation"
  BY DEF Effects, CancelEvaluation
<1>9. \A calls \in SUBSET ToolCalls :
         CancelTools(calls) \in Effects /\ CancelTools(calls).kind = "CancelTools"
  BY DEF Effects, CancelTools
<1>10. \A ks \in SUBSET Children :
         CancelChildren(ks) \in Effects /\ CancelChildren(ks).kind = "CancelChildren"
  BY DEF Effects, CancelChildren
<1> QED BY <1>1, <1>2, <1>3, <1>4, <1>5, <1>6, <1>7, <1>8, <1>9, <1>10

LEMMA NotExecutingEffects ==
    ASSUME NEW e \in Seq(Effects), \A i \in 1..Len(e) : e[i].kind \notin {"ExecuteTool", "SpawnAgent"}
    PROVE  NotExecuting(e)
<1>1. SpawnAgent.kind = "SpawnAgent"
  BY DEF SpawnAgent
<1> QED BY <1>1 DEF NotExecuting, Executed, EffectsIn, OfKind

LEMMA OneEffect ==
    ASSUME NEW a \in Effects, a.kind \notin {"ExecuteTool", "SpawnAgent"}
    PROVE  <<a>> \in Seq(Effects) /\ NotExecuting(<<a>>)
<1>1. <<a>> \in Seq(Effects)
  OBVIOUS
<1>2. \A i \in 1..Len(<<a>>) : <<a>>[i].kind \notin {"ExecuteTool", "SpawnAgent"}
  OBVIOUS
<1> QED BY <1>1, <1>2, NotExecutingEffects

LEMMA TwoEffects ==
    ASSUME NEW a \in Effects, NEW b \in Effects,
           a.kind \notin {"ExecuteTool", "SpawnAgent"}, b.kind \notin {"ExecuteTool", "SpawnAgent"}
    PROVE  <<a, b>> \in Seq(Effects) /\ NotExecuting(<<a, b>>)
<1>1. <<a, b>> \in Seq(Effects)
  OBVIOUS
<1>2. \A i \in 1..Len(<<a, b>>) : <<a, b>>[i].kind \notin {"ExecuteTool", "SpawnAgent"}
  OBVIOUS
<1> QED BY <1>1, <1>2, NotExecutingEffects

LEMMA EmitsOne ==
    ASSUME NEW event \in Events
    PROVE  <<Emit(event)>> \in Seq(Effects) /\ NotExecuting(<<Emit(event)>>)
BY OneEffect, EffectTypes

LEMMA EmitsAndFinishes ==
    ASSUME NEW event \in Events
    PROVE  /\ <<Emit(event), FinishRun>> \in Seq(Effects)
           /\ NotExecuting(<<Emit(event), FinishRun>>)
BY TwoEffects, EffectTypes

LEMMA WithSteps ==
    ASSUME NEW s \in AgentStates, NEW e \in Seq(Effects), NotExecuting(e)
    PROVE  Steps(s, With(s, e), {})
<1>1. s.fx \in Seq(Effects)
  BY FieldTypes
<1>2. s.fx \o e \in Seq(Effects)
  BY <1>1
<1>3. With(s, e) \in AgentStates
  BY <1>2, Zenon DEF With, AgentStates
<1>4. /\ With(s, e).messages = s.messages
      /\ With(s, e).pending_tools = s.pending_tools
      /\ With(s, e).pending_permissions = s.pending_permissions
      /\ With(s, e).fx = s.fx \o e
  BY Zenon DEF With, AgentStates
<1>5. EffectsIn(s.fx \o e) = EffectsIn(s.fx) \cup EffectsIn(e)
  BY <1>1, EffectsInConcat
<1>6. /\ Executed(EffectsIn(s.fx \o e)) = Executed(EffectsIn(s.fx))
      /\ SpawnAgent \in EffectsIn(s.fx \o e) => SpawnAgent \in EffectsIn(s.fx)
  BY <1>5 DEF NotExecuting, Executed, OfKind
<1> QED BY <1>3, <1>4, <1>6 DEF Steps

LEMMA DiscardType ==
    ASSUME NEW m \in Seq(Messages)
    PROVE  /\ discard_trailing_empty_assistant_message(m) \in Seq(Messages)
           /\ CallsIn(m) \subseteq CallsIn(discard_trailing_empty_assistant_message(m))
<1>1. CASE EndsIn(m, EmptyMessage)
  <2> DEFINE n == SubSeq(m, 1, Len(m) - 1)
  <2>1. n \in Seq(Messages) /\ Len(n) = Len(m) - 1 /\ \A i \in 1..Len(n) : n[i] = m[i]
    <3>1. PICK k \in Nat : Len(m) = k + 1
      <4>1. Len(m) \in Nat /\ Len(m) # 0
        BY <1>1 DEF EndsIn
      <4>2. Len(m) - 1 \in Nat /\ Len(m) = (Len(m) - 1) + 1
        BY <4>1
      <4> QED BY <4>2
    <3>2. \A i \in 1..k : m[i] \in Messages
      BY <3>1
    <3>3. /\ SubSeq(m, 1, k) \in Seq(Messages)
          /\ Len(SubSeq(m, 1, k)) = (IF 1 <= k THEN k - 1 + 1 ELSE 0)
          /\ \A i \in 1..k - 1 + 1 : SubSeq(m, 1, k)[i] = m[1 + i - 1]
      BY <3>2, SubSeqProperties
    <3>4. n = SubSeq(m, 1, k)
      BY <3>1
    <3> HIDE DEF n
    <3>5. n \in Seq(Messages) /\ Len(n) = k
      BY <3>3, <3>4
    <3>6. \A i \in 1..k : n[i] = m[i]
      BY <3>3, <3>4
    <3> QED BY <3>1, <3>5, <3>6
  <2>2. \A i \in 1..Len(m) : m[i].block = "ToolUse" => i \in 1..Len(n)
    BY <1>1, <2>1 DEF EndsIn, EmptyMessage
  <2>3. ASSUME NEW c \in CallsIn(m) PROVE c \in CallsIn(n)
    <3>1. PICK i \in 1..Len(m) : m[i].block = "ToolUse" /\ m[i].call = c
      BY <2>3 DEF CallsIn, Declarations
    <3>2. i \in DOMAIN n /\ n[i].block = "ToolUse" /\ n[i].call = c
      BY <3>1, <2>1, <2>2
    <3> QED BY <3>2 DEF CallsIn, Declarations
  <2> QED BY <1>1, <2>1, <2>3 DEF discard_trailing_empty_assistant_message
<1>2. CASE ~EndsIn(m, EmptyMessage)
  BY <1>2 DEF discard_trailing_empty_assistant_message
<1> QED BY <1>1, <1>2

LEMMA FailSteps ==
    ASSUME NEW s \in AgentStates
    PROVE  Steps(s, fail(s), {})
<1> DEFINE m == discard_trailing_empty_assistant_message(s.messages)
           t == [s EXCEPT !.messages = m, !.status = "Failed", !.active_run = NoRun,
                          !.backend_in_flight = FALSE, !.runs = @ + 1]
           e == <<Emit("Failed"), FinishRun>>
<1>1. m \in Seq(Messages) /\ CallsIn(s.messages) \subseteq CallsIn(m)
  BY FieldTypes, DiscardType
<1>2. s.runs + 1 \in Nat /\ "Failed" \in Statuses /\ NoRun \in Nat
  BY FieldTypes DEF Statuses, NoRun
<1>3. t \in AgentStates
  BY <1>1, <1>2, Zenon DEF AgentStates
<1>4. /\ t.messages = m /\ t.pending_tools = s.pending_tools
      /\ t.pending_permissions = s.pending_permissions /\ t.fx = s.fx
  BY Zenon DEF AgentStates
<1>5. Steps(s, t, {})
  BY <1>1, <1>3, <1>4 DEF Steps
<1>6. e \in Seq(Effects) /\ NotExecuting(e)
  BY EmitsAndFinishes DEF Events
<1>7. fail(s) = With(t, e)
  BY DEF fail
<1> HIDE DEF t, e
<1> QED BY <1>3, <1>5, <1>6, <1>7, WithSteps, KeepsTransitive
LEMMA FinishSuccessSteps ==
    ASSUME NEW s \in AgentStates
    PROVE  Steps(s, finish_success(s), {})
<1> DEFINE t == [s EXCEPT !.status = "Idle", !.active_run = NoRun, !.runs = @ + 1]
           e == <<Emit("Completed"), FinishRun>>
<1>1. s.runs + 1 \in Nat /\ "Idle" \in Statuses /\ NoRun \in Nat
  BY FieldTypes DEF Statuses, NoRun
<1>2. t \in AgentStates
  BY <1>1, Zenon DEF AgentStates
<1>3. /\ t.messages = s.messages /\ t.pending_tools = s.pending_tools
      /\ t.pending_permissions = s.pending_permissions /\ t.fx = s.fx
  BY Zenon DEF AgentStates
<1>4. Steps(s, t, {})
  BY <1>2, <1>3 DEF Steps
<1>5. e \in Seq(Effects) /\ NotExecuting(e)
  BY EmitsAndFinishes DEF Events
<1>6. finish_success(s) = With(t, e)
  BY DEF finish_success
<1> HIDE DEF t, e
<1> QED BY <1>2, <1>4, <1>5, <1>6, WithSteps, KeepsTransitive

-----------------------------------------------------------------------------
(***************************************************************************)
(* Behavior profiles and turns.                                            *)
(***************************************************************************)
LEMMA EvaluateType ==
    ASSUME NEW s \in AgentStates, NEW event \in RuleEvents, NEW o
    PROVE  evaluate(s, event, o) \in Outcome
<1>1. Quiet \in Outcome
  BY DEF Quiet, Outcome
<1>2. Rules[s.profile][event] \subseteq Outcome
  BY AgentAssumption, FieldTypes
<1> QED BY <1>1, <1>2 DEF evaluate

LEMMA ApplyRuleOutcomeSteps ==
    ASSUME NEW s \in AgentStates, NEW outcome \in Outcome
    PROVE  Steps(s, apply_rule_outcome(s, outcome), {})
<1> DEFINE t == [s EXCEPT !.pending_profile = outcome.switch]
<1>1. outcome.switch \in Profiles \cup {NoProfile}
  BY DEF Outcome
<1>2. t \in AgentStates
  BY <1>1, Zenon DEF AgentStates
<1>3. /\ t.messages = s.messages /\ t.pending_tools = s.pending_tools
      /\ t.pending_permissions = s.pending_permissions /\ t.fx = s.fx
  BY Zenon DEF AgentStates
<1>4. Steps(s, t, {})
  BY <1>2, <1>3 DEF Steps
<1> HIDE DEF t
<1>5. apply_rule_outcome(s, outcome) = s \/ apply_rule_outcome(s, outcome) = t
  BY DEF apply_rule_outcome, t
<1> QED BY <1>4, <1>5, StepsReflexive

LEMMA RunRulesSteps ==
    ASSUME NEW s \in AgentStates, NEW event \in RuleEvents, NEW o
    PROVE  Steps(s, RunRules(s, event, o), {})
<1> DEFINE t == apply_rule_outcome(s, evaluate(s, event, o))
<1>1. Steps(s, t, {}) /\ t \in AgentStates
  BY EvaluateType, ApplyRuleOutcomeSteps, StepsType
<1>2. RunRules(s, event, o) = t \/ RunRules(s, event, o) = fail(t)
  BY DEF RunRules
<1> HIDE DEF t
<1> QED BY <1>1, <1>2, FailSteps, KeepsTransitive

LEMMA ResetRunSteps ==
    ASSUME NEW s \in AgentStates
    PROVE  Steps(s, ResetRun(s), {})
<1> DEFINE t == ResetRun(s)
<1>1. 0 \in Nat
  OBVIOUS
<1>2. t \in AgentStates
  BY <1>1, Zenon DEF AgentStates, ResetRun
<1>3. /\ t.messages = s.messages /\ t.pending_tools = s.pending_tools
      /\ t.pending_permissions = s.pending_permissions /\ t.fx = s.fx
  BY Zenon DEF AgentStates, ResetRun
<1> QED BY <1>2, <1>3 DEF Steps

LEMMA SwitchedToSteps ==
    ASSUME NEW s \in AgentStates, NEW p \in Profiles
    PROVE  Steps(s, switched_to(s, p), {})
<1> DEFINE r == ResetRun(s)
           t == [r EXCEPT !.profile = p, !.switches = s.switches + 1, !.entered = TRUE]
<1>1. s.switches + 1 \in Nat
  BY FieldTypes
<1>2. Steps(s, r, {}) /\ r \in AgentStates
  BY ResetRunSteps, StepsType
<1> HIDE DEF r
<1>3. t \in AgentStates
  BY <1>1, <1>2, Zenon DEF AgentStates
<1>4. /\ t.messages = r.messages /\ t.pending_tools = r.pending_tools
      /\ t.pending_permissions = r.pending_permissions /\ t.fx = r.fx
  BY <1>2, Zenon DEF AgentStates
<1>5. switched_to(s, p) = t
  BY DEF switched_to, r
<1> QED BY <1>2, <1>3, <1>4, <1>5 DEF Steps

LEMMA ApplySwitchSteps ==
    ASSUME NEW s \in AgentStates, NEW p \in Profiles
    PROVE  Steps(s, apply_switch(s, p), {})
<1> DEFINE e == <<Emit("ProfileChanged")>>
           u == switched_to(s, p)
           t == With(u, e)
<1>1. e \in Seq(Effects) /\ NotExecuting(e)
  BY EmitsOne DEF Events
<1>2. Steps(s, u, {}) /\ u \in AgentStates
  BY SwitchedToSteps, StepsType
<1> HIDE DEF e, u
<1>3. Steps(s, t, {}) /\ t \in AgentStates
  BY <1>1, <1>2, WithSteps, KeepsTransitive, StepsType
<1>4. apply_switch(s, p) \in {s, t, fail(t)}
  BY DEF apply_switch, e, u
<1> HIDE DEF t
<1> QED BY <1>3, <1>4, StepsReflexive, FailSteps, KeepsTransitive

LEMMA TakePendingProfileSteps ==
    ASSUME NEW s \in AgentStates
    PROVE  Steps(s, TakePendingProfile(s), {})
<1> DEFINE t == [s EXCEPT !.pending_profile = NoProfile]
<1>1. CASE s.pending_profile = NoProfile
  BY <1>1, StepsReflexive DEF TakePendingProfile
<1>2. CASE s.pending_profile # NoProfile
  <2>1. s.pending_profile \in Profiles
    BY <1>2, FieldTypes
  <2>2. t \in AgentStates
    BY Zenon DEF AgentStates
  <2>3. /\ t.messages = s.messages /\ t.pending_tools = s.pending_tools
        /\ t.pending_permissions = s.pending_permissions /\ t.fx = s.fx
    BY Zenon DEF AgentStates
  <2>4. Steps(s, t, {})
    BY <2>2, <2>3 DEF Steps
  <2>5. TakePendingProfile(s) = apply_switch(t, s.pending_profile)
    BY <1>2 DEF TakePendingProfile
  <2> HIDE DEF t
  <2> QED BY <2>1, <2>2, <2>4, <2>5, ApplySwitchSteps, KeepsTransitive
<1> QED BY <1>1, <1>2

LEMMA SetBehaviorProfileSteps ==
    ASSUME NEW s \in AgentStates, NEW p \in Profiles
    PROVE  Steps(s, set_behavior_profile(s, p), {})
<1> DEFINE t == [s EXCEPT !.pending_profile = p]
<1>1. t \in AgentStates
  BY Zenon DEF AgentStates
<1>2. /\ t.messages = s.messages /\ t.pending_tools = s.pending_tools
      /\ t.pending_permissions = s.pending_permissions /\ t.fx = s.fx
  BY Zenon DEF AgentStates
<1>3. Steps(s, t, {})
  BY <1>1, <1>2 DEF Steps
<1>4. set_behavior_profile(s, p) \in {t, apply_switch(s, p)}
  BY DEF set_behavior_profile
<1> HIDE DEF t
<1> QED BY <1>3, <1>4, ApplySwitchSteps

LEMMA CountTurnSteps ==
    ASSUME NEW s \in AgentStates
    PROVE  Steps(s, CountTurn(s), {})
<1> DEFINE spent == [s EXCEPT !.final_grace_used = @ + 1]
           last == \/ Reached(Limits[s.profile].max_turns, s.turns + 1)
                   \/ Reached(Limits[s.profile].max_tool_calls, s.tool_calls)
           counted == [s EXCEPT !.turns = @ + 1, !.final_turn = last]
<1>1. s.final_grace_used + 1 \in Nat /\ s.turns + 1 \in Nat
  BY FieldTypes
<1>2. last \in BOOLEAN
  BY DEF Reached
<1> HIDE DEF last
<1>3. spent \in AgentStates /\ counted \in AgentStates
  BY <1>1, <1>2, Zenon DEF AgentStates
<1>4. /\ spent.messages = s.messages /\ spent.pending_tools = s.pending_tools
      /\ spent.pending_permissions = s.pending_permissions /\ spent.fx = s.fx
  BY Zenon DEF AgentStates
<1>5. /\ counted.messages = s.messages /\ counted.pending_tools = s.pending_tools
      /\ counted.pending_permissions = s.pending_permissions /\ counted.fx = s.fx
  BY Zenon DEF AgentStates
<1>6. Steps(s, spent, {}) /\ Steps(s, counted, {})
  BY <1>3, <1>4, <1>5 DEF Steps
<1>7. CountTurn(s) \in {fail(s), spent, counted}
  BY DEF CountTurn, last
<1> HIDE DEF spent, counted
<1> QED BY <1>6, <1>7, FailSteps

LEMMA EnterProfileSteps ==
    ASSUME NEW s \in AgentStates, NEW o
    PROVE  Steps(s, enter_profile(s, o), {})
<1> DEFINE t == [s EXCEPT !.entered = FALSE]
<1>1. t \in AgentStates
  BY Zenon DEF AgentStates
<1>2. /\ t.messages = s.messages /\ t.pending_tools = s.pending_tools
      /\ t.pending_permissions = s.pending_permissions /\ t.fx = s.fx
  BY Zenon DEF AgentStates
<1>3. Steps(s, t, {})
  BY <1>1, <1>2 DEF Steps
<1>4. enter_profile(s, o) \in {s, RunRules(t, "ProfileEntered", o)}
  BY DEF enter_profile
<1>5. "ProfileEntered" \in RuleEvents
  BY DEF RuleEvents
<1> HIDE DEF t
<1> QED BY <1>1, <1>3, <1>4, <1>5, StepsReflexive, RunRulesSteps, KeepsTransitive

LEMMA BeginTurnSteps ==
    ASSUME NEW s \in AgentStates, NEW o
    PROVE  Steps(s, begin_turn(s, o), {})
<1> DEFINE a == TakePendingProfile(s)
           b == IF a.active_run = NoRun THEN a ELSE enter_profile(a, o)
           c == IF b.active_run = NoRun THEN b ELSE CountTurn(b)
           d == IF c.active_run = NoRun THEN c ELSE RunRules(c, "BeforeModelRequest", o)
<1>1. begin_turn(s, o) = d
  BY DEF begin_turn, IfRunning
<1>2. Steps(s, a, {}) /\ a \in AgentStates
  BY TakePendingProfileSteps, StepsType
<1> HIDE DEF a
<1>3. Steps(s, b, {}) /\ b \in AgentStates
  BY <1>2, EnterProfileSteps, KeepsTransitive, StepsType
<1> HIDE DEF b
<1>4. Steps(s, c, {}) /\ c \in AgentStates
  BY <1>3, CountTurnSteps, KeepsTransitive, StepsType
<1> HIDE DEF c
<1>5. "BeforeModelRequest" \in RuleEvents
  BY DEF RuleEvents
<1>6. Steps(s, d, {})
  BY <1>4, <1>5, RunRulesSteps, KeepsTransitive, StepsType
<1> QED BY <1>1, <1>6

LEMMA BuildRequestSteps ==
    ASSUME NEW s \in AgentStates
    PROVE  Steps(s, build_request(s), {})
<1> DEFINE t == [s EXCEPT !.backend_in_flight = TRUE, !.next_request = @ + 1]
           e == <<ExecuteBackend(s.next_request, s.active_run)>>
<1>1. s.next_request + 1 \in Nat /\ s.next_request \in Nat /\ s.active_run \in Nat
  BY FieldTypes
<1>2. t \in AgentStates
  BY <1>1, Zenon DEF AgentStates
<1>3. /\ t.messages = s.messages /\ t.pending_tools = s.pending_tools
      /\ t.pending_permissions = s.pending_permissions /\ t.fx = s.fx
  BY Zenon DEF AgentStates
<1>4. Steps(s, t, {})
  BY <1>2, <1>3 DEF Steps
<1>5. e \in Seq(Effects) /\ NotExecuting(e)
  BY <1>1, EffectTypes, OneEffect
<1>6. build_request(s) = With(t, e)
  BY DEF build_request
<1> HIDE DEF t, e
<1> QED BY <1>2, <1>4, <1>5, <1>6, WithSteps, KeepsTransitive

LEMMA StatusSteps ==
    ASSUME NEW s \in AgentStates, NEW status \in Statuses, NEW event \in Events
    PROVE  Steps(s, With([s EXCEPT !.status = status], <<Emit(event)>>), {})
<1> DEFINE t == [s EXCEPT !.status = status]
           e == <<Emit(event)>>
<1>1. t \in AgentStates
  BY Zenon DEF AgentStates
<1>2. /\ t.messages = s.messages /\ t.pending_tools = s.pending_tools
      /\ t.pending_permissions = s.pending_permissions /\ t.fx = s.fx
  BY Zenon DEF AgentStates
<1>3. Steps(s, t, {})
  BY <1>1, <1>2 DEF Steps
<1>4. e \in Seq(Effects) /\ NotExecuting(e)
  BY EmitsOne
<1> HIDE DEF t, e
<1>5. Steps(s, With(t, e), {})
  BY <1>1, <1>3, <1>4, WithSteps, KeepsTransitive
<1> QED BY <1>5 DEF t, e

LEMMA RequestTurnSteps ==
    ASSUME NEW s \in AgentStates, NEW status \in Statuses, NEW o
    PROVE  Steps(s, RequestTurn(s, status, o), {})
<1> DEFINE t == begin_turn(s, o)
           u == With([t EXCEPT !.status = status], <<Emit("StateChanged")>>)
<1>1. RequestTurn(s, status, o) \in {t, build_request(u)}
  BY DEF RequestTurn, IfRunning
<1>2. Steps(s, t, {}) /\ t \in AgentStates
  BY BeginTurnSteps, StepsType
<1>3. "StateChanged" \in Events
  BY DEF Events
<1> HIDE DEF t
<1>4. Steps(t, u, {}) /\ u \in AgentStates
  BY <1>2, <1>3, StatusSteps, StepsType
<1> HIDE DEF u
<1>5. Steps(s, build_request(u), {})
  BY <1>2, <1>4, BuildRequestSteps, KeepsTransitive
<1> QED BY <1>1, <1>2, <1>5

LEMMA ContinueAfterToolsSteps ==
    ASSUME NEW s \in AgentStates, NEW o
    PROVE  Steps(s, continue_after_tools(s, o), {})
<1>1. "WaitingForBackend" \in Statuses
  BY DEF Statuses
<1> QED BY <1>1, RequestTurnSteps, StepsReflexive DEF continue_after_tools

-----------------------------------------------------------------------------
(***************************************************************************)
(* Messages.                                                               *)
(***************************************************************************)
LEMMA MessageTypes ==
    /\ UserMessage \in Messages /\ TextMessage \in Messages /\ EmptyMessage \in Messages
    /\ \A c \in ToolCalls : ToolUseMessage(c) \in Messages
    /\ \A c \in ToolCalls : ToolResultMessage(c, "recorded") \in Messages
BY DEF Messages, UserMessage, TextMessage, EmptyMessage, ToolUseMessage, ToolResultMessage,
       Roles, Outcomes

LEMMA InCallsIn ==
    ASSUME NEW m \in Seq(Messages), NEW i \in 1..Len(m), m[i].block = "ToolUse"
    PROVE  m[i].call \in CallsIn(m)
BY DEF CallsIn, Declarations

LEMMA CallsInMonotonic ==
    ASSUME NEW m \in Seq(Messages), NEW n \in Seq(Messages), Len(m) <= Len(n),
           \A i \in 1..Len(m) : m[i].block = "ToolUse" => n[i] = m[i]
    PROVE  CallsIn(m) \subseteq CallsIn(n)
<1>1. ASSUME NEW c \in CallsIn(m) PROVE c \in CallsIn(n)
  <2>1. PICK i \in 1..Len(m) : m[i].block = "ToolUse" /\ m[i].call = c
    BY <1>1 DEF CallsIn, Declarations
  <2>2. i \in 1..Len(n) /\ n[i].block = "ToolUse" /\ n[i].call = c
    BY <2>1
  <2> QED BY <2>2, InCallsIn
<1> QED BY <1>1

LEMMA AppendCalls ==
    ASSUME NEW m \in Seq(Messages), NEW msg \in Messages
    PROVE  /\ Append(m, msg) \in Seq(Messages)
           /\ CallsIn(m) \subseteq CallsIn(Append(m, msg))
           /\ msg.block = "ToolUse" => msg.call \in CallsIn(Append(m, msg))
<1> DEFINE n == Append(m, msg)
<1>1. /\ n \in Seq(Messages) /\ Len(n) = Len(m) + 1
      /\ \A i \in 1..Len(m) : n[i] = m[i]
      /\ n[Len(n)] = msg
  OBVIOUS
<1>2. Len(m) \in Nat
  OBVIOUS
<1> HIDE DEF n
<1>3. CallsIn(m) \subseteq CallsIn(n)
  BY <1>1, <1>2, CallsInMonotonic
<1>4. msg.block = "ToolUse" => msg.call \in CallsIn(n)
  BY <1>1, <1>2, InCallsIn
<1> QED BY <1>1, <1>3, <1>4 DEF n

LEMMA FillOrAppendCalls ==
    ASSUME NEW m \in Seq(Messages), NEW msg \in Messages
    PROVE  /\ FillOrAppend(m, msg) \in Seq(Messages)
           /\ CallsIn(m) \subseteq CallsIn(FillOrAppend(m, msg))
           /\ msg.block = "ToolUse" => msg.call \in CallsIn(FillOrAppend(m, msg))
<1>1. CASE EndsIn(m, EmptyMessage)
  <2> DEFINE n == [m EXCEPT ![Len(m)] = msg]
  <2>1. Len(m) \in Nat /\ Len(m) # 0 /\ m[Len(m)].block # "ToolUse"
    BY <1>1 DEF EndsIn, EmptyMessage
  <2>2. n \in Seq(Messages) /\ Len(n) = Len(m)
    BY <2>1
  <2>3. n[Len(m)] = msg /\ \A i \in 1..Len(m) : i # Len(m) => n[i] = m[i]
    BY <2>1
  <2>4. n = FillOrAppend(m, msg)
    BY <1>1 DEF FillOrAppend
  <2> HIDE DEF n
  <2>5. CallsIn(m) \subseteq CallsIn(n)
    BY <2>1, <2>2, <2>3, CallsInMonotonic
  <2>6. msg.block = "ToolUse" => msg.call \in CallsIn(n)
    BY <2>1, <2>2, <2>3, InCallsIn
  <2> QED BY <2>2, <2>4, <2>5, <2>6
<1>2. CASE ~EndsIn(m, EmptyMessage)
  BY <1>2, AppendCalls DEF FillOrAppend
<1> QED BY <1>1, <1>2

LEMMA MessagesSteps ==
    ASSUME NEW s \in AgentStates, NEW m \in Seq(Messages),
           CallsIn(s.messages) \subseteq CallsIn(m)
    PROVE  Steps(s, [s EXCEPT !.messages = m], {})
<1> DEFINE t == [s EXCEPT !.messages = m]
<1>1. t \in AgentStates
  BY Zenon DEF AgentStates
<1>2. /\ t.messages = m /\ t.pending_tools = s.pending_tools
      /\ t.pending_permissions = s.pending_permissions /\ t.fx = s.fx
  BY Zenon DEF AgentStates
<1> QED BY <1>1, <1>2 DEF Steps

-----------------------------------------------------------------------------
(***************************************************************************)
(* Starting a run.                                                         *)
(***************************************************************************)
LEMMA StartRunSteps ==
    ASSUME NEW s \in AgentStates, NEW input, NEW o
    PROVE  Steps(s, start_run(s, input, o), {})
<1> DEFINE taken == TakePendingProfile(s)
           reset == ResetRun(taken)
           m == Append(reset.messages, UserMessage)
           started == [reset EXCEPT !.messages = m, !.status = "PreparingContext",
                                    !.active_run = reset.next_run, !.next_run = @ + 1]
           a == RunRules(started, "RunStart", o)
           b == IF a.active_run = NoRun THEN a ELSE RequestTurn(a, "PreparingContext", o)
           e == <<Emit("RunStarted")>>
           c == IF b.active_run = NoRun THEN b ELSE With(b, e)
<1>1. start_run(s, input, o) \in {fail(s), c}
  BY DEF start_run, IfRunning
<1>2. Steps(s, taken, {}) /\ taken \in AgentStates
  BY TakePendingProfileSteps, StepsType
<1> HIDE DEF taken
<1>3. Steps(s, reset, {}) /\ reset \in AgentStates
  BY <1>2, ResetRunSteps, KeepsTransitive, StepsType
<1> HIDE DEF reset
<1>4. m \in Seq(Messages) /\ CallsIn(reset.messages) \subseteq CallsIn(m)
  BY <1>3, FieldTypes, MessageTypes, AppendCalls
<1>5. /\ reset.next_run \in Nat /\ reset.next_run + 1 \in Nat
      /\ "PreparingContext" \in Statuses /\ "RunStart" \in RuleEvents
  BY <1>3, FieldTypes DEF Statuses, RuleEvents
<1> HIDE DEF m
<1>6. started \in AgentStates
  BY <1>3, <1>4, <1>5, Zenon DEF AgentStates
<1>7. /\ started.messages = m /\ started.pending_tools = reset.pending_tools
      /\ started.pending_permissions = reset.pending_permissions /\ started.fx = reset.fx
  BY <1>3, Zenon DEF AgentStates
<1>8. Steps(reset, started, {})
  BY <1>4, <1>6, <1>7 DEF Steps
<1> HIDE DEF started
<1>9. Steps(s, a, {}) /\ a \in AgentStates
  BY <1>3, <1>5, <1>6, <1>8, RunRulesSteps, KeepsTransitive, StepsType
<1> HIDE DEF a
<1>10. Steps(s, b, {}) /\ b \in AgentStates
  BY <1>5, <1>9, RequestTurnSteps, KeepsTransitive, StepsType
<1> HIDE DEF b
<1>11. e \in Seq(Effects) /\ NotExecuting(e)
  BY EmitsOne DEF Events
<1> HIDE DEF e
<1>12. Steps(s, c, {})
  BY <1>10, <1>11, WithSteps, KeepsTransitive
<1> HIDE DEF c
<1> QED BY <1>1, <1>12, FailSteps

LEMMA QueueSteps ==
    ASSUME NEW s \in AgentStates, NEW q \in Seq(Inputs)
    PROVE  Steps(s, [s EXCEPT !.queued_inputs = q], {})
<1> DEFINE t == [s EXCEPT !.queued_inputs = q]
<1>1. t \in AgentStates
  BY Zenon DEF AgentStates
<1>2. /\ t.messages = s.messages /\ t.pending_tools = s.pending_tools
      /\ t.pending_permissions = s.pending_permissions /\ t.fx = s.fx
  BY Zenon DEF AgentStates
<1> QED BY <1>1, <1>2 DEF Steps

LEMMA StartOrQueueSteps ==
    ASSUME NEW s \in AgentStates, NEW input \in Inputs, NEW o
    PROVE  Steps(s, start_or_queue(s, input, o), {})
<1>1. Append(s.queued_inputs, input) \in Seq(Inputs)
  BY FieldTypes
<1> QED BY <1>1, QueueSteps, StartRunSteps DEF start_or_queue

LEMMA StartNextQueuedRunSteps ==
    ASSUME NEW s \in AgentStates, NEW o
    PROVE  Steps(s, start_next_queued_run(s, o), {})
<1> DEFINE t == [s EXCEPT !.queued_inputs = Tail(@)]
<1>1. CASE s.queued_inputs = <<>>
  BY <1>1, StepsReflexive DEF start_next_queued_run
<1>2. CASE s.queued_inputs # <<>>
  <2>1. Tail(s.queued_inputs) \in Seq(Inputs)
    BY <1>2, FieldTypes
  <2>2. Steps(s, t, {}) /\ t \in AgentStates
    BY <2>1, QueueSteps, StepsType
  <2>3. start_next_queued_run(s, o) = start_run(t, Head(s.queued_inputs), o)
    BY <1>2 DEF start_next_queued_run
  <2> HIDE DEF t
  <2> QED BY <2>2, <2>3, StartRunSteps, KeepsTransitive
<1> QED BY <1>1, <1>2

-----------------------------------------------------------------------------
(***************************************************************************)
(* Tool results.                                                           *)
(***************************************************************************)
LEMMA TimeoutsSteps ==
    ASSUME NEW s \in AgentStates, NEW n \in Nat
    PROVE  Steps(s, [s EXCEPT !.timeouts = n], {})
<1> DEFINE t == [s EXCEPT !.timeouts = n]
<1>1. t \in AgentStates
  BY Zenon DEF AgentStates
<1>2. /\ t.messages = s.messages /\ t.pending_tools = s.pending_tools
      /\ t.pending_permissions = s.pending_permissions /\ t.fx = s.fx
  BY Zenon DEF AgentStates
<1> QED BY <1>1, <1>2 DEF Steps

LEMMA NextAfterResultSteps ==
    ASSUME NEW s \in AgentStates, NEW stop, NEW o
    PROVE  Steps(s, next_after_result(s, stop, o), {})
<1> DEFINE t == [s EXCEPT !.timeouts = 0]
<1>1. Steps(s, t, {}) /\ t \in AgentStates
  BY TimeoutsSteps, StepsType
<1>2. next_after_result(s, stop, o) \in {fail(s), fail(t), continue_after_tools(s, o)}
  BY DEF next_after_result
<1> HIDE DEF t
<1> QED BY <1>1, <1>2, FailSteps, ContinueAfterToolsSteps, KeepsTransitive

LEMMA RecordToolResultSteps ==
    ASSUME NEW s \in AgentStates, NEW c \in ToolCalls, NEW executed, NEW o
    PROVE  Steps(s, record_tool_result(s, c, executed, o), {})
<1> DEFINE outcome == IF executed THEN evaluate(s, "PostToolUse", o) ELSE Quiet
           t == apply_rule_outcome(s, outcome)
           m == Append(t.messages, ToolResultMessage(c, "recorded"))
           e == <<Emit("ToolCallCompleted")>>
           u == [t EXCEPT !.messages = m]
           v == With(u, e)
<1>1. record_tool_result(s, c, executed, o) = next_after_result(v, outcome.stop, o)
  BY DEF record_tool_result
<1>2. outcome \in Outcome
  BY EvaluateType DEF RuleEvents, Quiet, Outcome
<1> HIDE DEF outcome
<1>3. Steps(s, t, {}) /\ t \in AgentStates
  BY <1>2, ApplyRuleOutcomeSteps, StepsType
<1> HIDE DEF t
<1>4. m \in Seq(Messages) /\ CallsIn(t.messages) \subseteq CallsIn(m)
  BY <1>3, FieldTypes, MessageTypes, AppendCalls
<1> HIDE DEF m
<1>5. Steps(s, u, {}) /\ u \in AgentStates
  BY <1>3, <1>4, MessagesSteps, KeepsTransitive, StepsType
<1>6. e \in Seq(Effects) /\ NotExecuting(e)
  BY EmitsOne DEF Events
<1> HIDE DEF u, e
<1>7. Steps(s, v, {}) /\ v \in AgentStates
  BY <1>5, <1>6, WithSteps, KeepsTransitive, StepsType
<1> HIDE DEF v
<1> QED BY <1>1, <1>7, NextAfterResultSteps, KeepsTransitive

LEMMA SettleSteps ==
    ASSUME NEW s \in AgentStates, NEW c \in ToolCalls, NEW n \in Nat
    PROVE  Steps(s, [Settle(s, c) EXCEPT !.timeouts = n], {c})
<1> DEFINE u == Settle(s, c)
           t == [u EXCEPT !.timeouts = n]
<1>1. /\ s.pending_tools \ {c} \in SUBSET ToolCalls
      /\ s.pending_permissions \ {c} \in SUBSET ToolCalls
  BY FieldTypes
<1>2. u \in AgentStates
  BY <1>1, Zenon DEF AgentStates, Settle
<1>3. /\ u.messages = s.messages /\ u.pending_tools = s.pending_tools \ {c}
      /\ u.pending_permissions = s.pending_permissions \ {c} /\ u.fx = s.fx
  BY Zenon DEF AgentStates, Settle
<1>4. Steps(s, u, {c})
  BY <1>2, <1>3 DEF Steps
<1> HIDE DEF u
<1>5. Steps(u, t, {})
  BY <1>2, TimeoutsSteps
<1>6. Steps(s, t, {c} \cup {})
  BY <1>4, <1>5, StepsTransitive
<1>7. {c} \cup {} = {c}
  OBVIOUS
<1> QED BY <1>6, <1>7 DEF u

LEMMA SettleAndRecordSteps ==
    ASSUME NEW s \in AgentStates, NEW c \in ToolCalls, NEW n \in Nat, NEW executed, NEW o
    PROVE  Steps(s, record_tool_result([Settle(s, c) EXCEPT !.timeouts = n], c, executed, o), {c})
<1> DEFINE t == [Settle(s, c) EXCEPT !.timeouts = n]
           u == record_tool_result(t, c, executed, o)
<1>1. Steps(s, t, {c}) /\ t \in AgentStates
  BY SettleSteps, StepsType
<1> HIDE DEF t
<1>2. Steps(t, u, {})
  BY <1>1, RecordToolResultSteps
<1> HIDE DEF u
<1>3. Steps(s, u, {c} \cup {})
  BY <1>1, <1>2, StepsTransitive
<1>4. {c} \cup {} = {c}
  OBVIOUS
<1> QED BY <1>3, <1>4 DEF t, u

LEMMA ToolCompletedSteps ==
    ASSUME NEW s \in AgentStates, NEW c \in ToolCalls, NEW o
    PROVE  \/ Steps(s, tool_completed(s, c, o), {})
           \/ Steps(s, tool_completed(s, c, o), {c})
BY SettleAndRecordSteps, StepsReflexive DEF tool_completed

LEMMA ToolFailedSteps ==
    ASSUME NEW s \in AgentStates, NEW c \in ToolCalls, NEW error, NEW o
    PROVE  \/ c \notin s.pending_tools /\ Steps(s, tool_failed(s, c, error, o), {})
           \/ c \in s.pending_tools /\ Steps(s, tool_failed(s, c, error, o), {c})
<1> DEFINE t == [Settle(s, c) EXCEPT !.timeouts = IF error = "Timeout" THEN @ + 1 ELSE 0]
<1>1. CASE c \notin s.pending_tools
  BY <1>1, StepsReflexive DEF tool_failed
<1>2. CASE c \in s.pending_tools
  <2>1. Settle(s, c).timeouts = s.timeouts
    BY Zenon DEF Settle, AgentStates
  <2> DEFINE n == IF error = "Timeout" THEN s.timeouts + 1 ELSE 0
  <2>2. n \in Nat
    BY FieldTypes
  <2>3. t = [Settle(s, c) EXCEPT !.timeouts = n]
    BY <2>1
  <2>4. tool_failed(s, c, error, o) = record_tool_result(t, c, error # "Denied", o)
    BY <1>2 DEF tool_failed
  <2> HIDE DEF t, n
  <2> QED BY <1>2, <2>2, <2>3, <2>4, SettleAndRecordSteps
<1> QED BY <1>1, <1>2

-----------------------------------------------------------------------------
(***************************************************************************)
(* Answers and the completion gate.                                        *)
(***************************************************************************)
LEMMA SendAnswerBackSteps ==
    ASSUME NEW s \in AgentStates, NEW o
    PROVE  Steps(s, send_answer_back(s, o), {})
<1> DEFINE m == Append(s.messages, UserMessage)
           t == [s EXCEPT !.gate_continuations = @ + 1, !.messages = m]
<1>1. m \in Seq(Messages) /\ CallsIn(s.messages) \subseteq CallsIn(m)
  BY FieldTypes, MessageTypes, AppendCalls
<1>2. s.gate_continuations + 1 \in Nat /\ "WaitingForBackend" \in Statuses
  BY FieldTypes DEF Statuses
<1>3. send_answer_back(s, o) = RequestTurn(t, "WaitingForBackend", o)
  BY DEF send_answer_back
<1> HIDE DEF m
<1>4. t \in AgentStates
  BY <1>1, <1>2, Zenon DEF AgentStates
<1>5. /\ t.messages = m /\ t.pending_tools = s.pending_tools
      /\ t.pending_permissions = s.pending_permissions /\ t.fx = s.fx
  BY Zenon DEF AgentStates
<1>6. Steps(s, t, {})
  BY <1>1, <1>4, <1>5 DEF Steps
<1> HIDE DEF t
<1> QED BY <1>2, <1>3, <1>4, <1>6, RequestTurnSteps, KeepsTransitive

LEMMA GateDecidedSteps ==
    ASSUME NEW s \in AgentStates, NEW failures, NEW o
    PROVE  Steps(s, gate_decided(s, failures, o), {})
<1> DEFINE e == <<Emit("CompletionGateEvaluated")>>
           t == With(s, e)
<1>1. e \in Seq(Effects) /\ NotExecuting(e)
  BY EmitsOne DEF Events
<1>2. gate_decided(s, failures, o) \in {finish_success(t), send_answer_back(t, o), fail(t)}
  BY DEF gate_decided
<1> HIDE DEF e
<1>3. Steps(s, t, {}) /\ t \in AgentStates
  BY <1>1, WithSteps, StepsType
<1> HIDE DEF t
<1> QED BY <1>2, <1>3, FinishSuccessSteps, SendAnswerBackSteps, FailSteps, KeepsTransitive

LEMMA ProposeCompletionSteps ==
    ASSUME NEW s \in AgentStates, NEW failures, NEW o
    PROVE  Steps(s, propose_completion(s, failures, o), {})
<1> DEFINE t == [s EXCEPT !.gate_attempts = @ + 1]
           u == [t EXCEPT !.status = "Verifying"]
           e == <<Emit("StateChanged"), EvaluateCompletion(t.active_run, t.gate_attempts, t.profile)>>
<1>1. propose_completion(s, failures, o)
          \in {finish_success(s), gate_decided(t, failures, o), With(u, e)}
  BY DEF propose_completion
<1>2. s.gate_attempts + 1 \in Nat /\ "Verifying" \in Statuses
  BY FieldTypes DEF Statuses
<1>3. t \in AgentStates
  BY <1>2, Zenon DEF AgentStates
<1>4. /\ t.messages = s.messages /\ t.pending_tools = s.pending_tools
      /\ t.pending_permissions = s.pending_permissions /\ t.fx = s.fx
  BY Zenon DEF AgentStates
<1>5. Steps(s, t, {})
  BY <1>3, <1>4 DEF Steps
<1> HIDE DEF t
<1>6. u \in AgentStates
  BY <1>2, <1>3, Zenon DEF AgentStates
<1>7. /\ u.messages = t.messages /\ u.pending_tools = t.pending_tools
      /\ u.pending_permissions = t.pending_permissions /\ u.fx = t.fx
  BY <1>3, Zenon DEF AgentStates
<1>8. Steps(s, u, {})
  BY <1>5, <1>6, <1>7 DEF Steps
<1>9. e \in Seq(Effects) /\ NotExecuting(e)
  <2>1. t.active_run \in Nat /\ t.gate_attempts \in Nat /\ t.profile \in Profiles
    BY <1>3, FieldTypes
  <2>2. "StateChanged" \in Events
    BY DEF Events
  <2> QED BY <2>1, <2>2, EffectTypes, TwoEffects
<1> HIDE DEF u, e
<1> QED BY <1>1, <1>3, <1>5, <1>6, <1>8, <1>9, FinishSuccessSteps, GateDecidedSteps, WithSteps,
           KeepsTransitive

LEMMA CompletionEvaluatedSteps ==
    ASSUME NEW s \in AgentStates, NEW r, NEW attempt, NEW failures, NEW o
    PROVE  Steps(s, completion_evaluated(s, r, attempt, failures, o), {})
BY GateDecidedSteps, StepsReflexive DEF completion_evaluated

-----------------------------------------------------------------------------
(***************************************************************************)
(* Backend events.                                                         *)
(***************************************************************************)
LEMMA TextDeltaSteps ==
    ASSUME NEW s \in AgentStates
    PROVE  Steps(s, text_delta(s), {})
<1> DEFINE m == append_assistant_text(s.messages)
           t == [s EXCEPT !.status = "Streaming", !.messages = m]
           e == <<Emit("AssistantTextDelta")>>
<1>1. m \in Seq(Messages) /\ CallsIn(s.messages) \subseteq CallsIn(m)
  BY FieldTypes, MessageTypes, FillOrAppendCalls DEF append_assistant_text
<1>2. "Streaming" \in Statuses
  BY DEF Statuses
<1>3. text_delta(s) = With(t, e)
  BY DEF text_delta
<1> HIDE DEF m
<1>4. t \in AgentStates
  BY <1>1, <1>2, Zenon DEF AgentStates
<1>5. /\ t.messages = m /\ t.pending_tools = s.pending_tools
      /\ t.pending_permissions = s.pending_permissions /\ t.fx = s.fx
  BY Zenon DEF AgentStates
<1>6. Steps(s, t, {})
  BY <1>1, <1>4, <1>5 DEF Steps
<1>7. e \in Seq(Effects) /\ NotExecuting(e)
  BY EmitsOne DEF Events
<1> HIDE DEF t, e
<1> QED BY <1>3, <1>4, <1>6, <1>7, WithSteps, KeepsTransitive

LEMMA ReasoningDeltaSteps ==
    ASSUME NEW s \in AgentStates
    PROVE  Steps(s, reasoning_delta(s), {})
<1> DEFINE m == assistant_message_id(s.messages)
           t == [s EXCEPT !.messages = m]
           e == <<Emit("ReasoningDelta")>>
<1>1. m \in Seq(Messages) /\ CallsIn(s.messages) \subseteq CallsIn(m)
  BY FieldTypes, MessageTypes, AppendCalls DEF assistant_message_id
<1>2. reasoning_delta(s) = With(t, e)
  BY DEF reasoning_delta
<1> HIDE DEF m
<1>3. Steps(s, t, {}) /\ t \in AgentStates
  BY <1>1, MessagesSteps, StepsType
<1>4. e \in Seq(Effects) /\ NotExecuting(e)
  BY EmitsOne DEF Events
<1> HIDE DEF t, e
<1> QED BY <1>2, <1>3, <1>4, WithSteps, KeepsTransitive

LEMMA CompletedSteps ==
    ASSUME NEW s \in AgentStates, NEW reason, NEW failures, NEW o
    PROVE  Steps(s, completed(s, reason, failures, o), {})
<1> DEFINE m == discard_trailing_empty_assistant_message(s.messages)
           t == [s EXCEPT !.backend_in_flight = FALSE, !.messages = m]
<1>1. m \in Seq(Messages) /\ CallsIn(s.messages) \subseteq CallsIn(m)
  BY FieldTypes, DiscardType
<1>2. \/ completed(s, reason, failures, o) = fail(t)
      \/ completed(s, reason, failures, o) = continue_after_tools(t, o)
      \/ completed(s, reason, failures, o) = propose_completion(t, failures, o)
  BY DEF completed
<1> HIDE DEF m
<1>3. t \in AgentStates
  BY <1>1, Zenon DEF AgentStates
<1>4. /\ t.messages = m /\ t.pending_tools = s.pending_tools
      /\ t.pending_permissions = s.pending_permissions /\ t.fx = s.fx
  BY Zenon DEF AgentStates
<1>5. Steps(s, t, {})
  BY <1>1, <1>3, <1>4 DEF Steps
<1> HIDE DEF t
<1> QED BY <1>2, <1>3, <1>5, FailSteps, ContinueAfterToolsSteps, ProposeCompletionSteps,
           KeepsTransitive

-----------------------------------------------------------------------------
(***************************************************************************)
(* Cancel, pause, resume, children.                                        *)
(***************************************************************************)
LEMMA ConcatEffects ==
    ASSUME NEW a \in Seq(Effects), NEW b \in Seq(Effects), NotExecuting(a), NotExecuting(b)
    PROVE  a \o b \in Seq(Effects) /\ NotExecuting(a \o b)
<1>1. EffectsIn(a \o b) = EffectsIn(a) \cup EffectsIn(b)
  BY EffectsInConcat
<1>2. NotExecuting(a \o b)
  BY <1>1 DEF NotExecuting, Executed, OfKind
<1> QED BY <1>2

LEMMA CancelSteps ==
    ASSUME NEW s \in AgentStates
    PROVE  Steps(s, cancel(s), {}) \/ Steps(s, cancel(s), ToolCalls)
<1> DEFINE t == [s EXCEPT !.status = "Cancelled", !.active_run = NoRun,
                          !.backend_in_flight = FALSE, !.pending_tools = {},
                          !.pending_permissions = {}, !.children = {}]
           e1 == IF s.active_run = NoRun THEN <<>> ELSE <<CancelBackend(s.active_run)>>
           e2 == IF s.active_run # NoRun /\ s.status = "Verifying"
                 THEN <<CancelEvaluation(s.active_run)>> ELSE <<>>
           x == CancelTools(s.pending_tools)
           y == CancelChildren(s.children)
           z == Emit("Completed")
           e3 == <<x, y, z>>
           e == e1 \o e2 \o e3
<1>1. cancel(s) \in {s, With(t, e)}
  BY DEF cancel
<1>2. s.active_run \in Nat /\ s.pending_tools \in SUBSET ToolCalls /\ s.children \in SUBSET Children
  BY FieldTypes
<1>3. <<>> \in Seq(Effects) /\ NotExecuting(<<>>)
  <2>1. <<>> \in Seq(Effects) /\ \A i \in 1..Len(<<>>) : <<>>[i].kind \notin {"ExecuteTool", "SpawnAgent"}
    OBVIOUS
  <2> QED BY <2>1, NotExecutingEffects
<1>4. e1 \in Seq(Effects) /\ NotExecuting(e1)
  BY <1>2, <1>3, EffectTypes, OneEffect
<1>5. e2 \in Seq(Effects) /\ NotExecuting(e2)
  BY <1>2, <1>3, EffectTypes, OneEffect
<1>6. e3 \in Seq(Effects) /\ NotExecuting(e3)
  <2>1. /\ x \in Effects /\ y \in Effects /\ z \in Effects
        /\ \A a \in {x, y, z} : a.kind \notin {"ExecuteTool", "SpawnAgent"}
    BY <1>2, EffectTypes DEF Events
  <2> HIDE DEF x, y, z
  <2>2. e3 \in Seq(Effects) /\ \A i \in 1..Len(e3) : e3[i].kind \notin {"ExecuteTool", "SpawnAgent"}
    BY <2>1
  <2> QED BY <2>2, NotExecutingEffects
<1>7. e \in Seq(Effects) /\ NotExecuting(e)
  <2> HIDE DEF e1, e2, e3
  <2>1. e1 \o e2 \in Seq(Effects) /\ NotExecuting(e1 \o e2)
    BY <1>4, <1>5, ConcatEffects
  <2> QED BY <1>6, <2>1, ConcatEffects
<1>8. "Cancelled" \in Statuses /\ NoRun \in Nat
  BY DEF Statuses, NoRun
<1>9. t \in AgentStates
  <2>1. {} \in SUBSET ToolCalls /\ {} \in SUBSET Children
    OBVIOUS
  <2> QED BY <1>8, <2>1, Zenon DEF AgentStates
<1>10. /\ t.messages = s.messages /\ t.pending_tools = {}
       /\ t.pending_permissions = {} /\ t.fx = s.fx
  BY Zenon DEF AgentStates
<1>11. Steps(s, t, ToolCalls)
  BY <1>9, <1>10, FieldTypes DEF Steps
<1> HIDE DEF t, e
<1>12. Steps(t, With(t, e), {})
  BY <1>7, <1>9, WithSteps
<1>13. Steps(s, With(t, e), ToolCalls \cup {})
  BY <1>11, <1>12, StepsTransitive
<1>14. ToolCalls \cup {} = ToolCalls
  OBVIOUS
<1> QED BY <1>1, <1>13, <1>14, StepsReflexive

LEMMA PauseSteps ==
    ASSUME NEW s \in AgentStates
    PROVE  Steps(s, pause(s), {})
<1>1. "Paused" \in Statuses /\ "StateChanged" \in Events
  BY DEF Statuses, Events
<1> QED BY <1>1, StatusSteps, StepsReflexive DEF pause

LEMMA ResumeSteps ==
    ASSUME NEW s \in AgentStates
    PROVE  Steps(s, resume(s), {})
<1> DEFINE t == With([s EXCEPT !.status = "Idle"], <<Emit("StateChanged")>>)
           u == With([s EXCEPT !.status = "WaitingForBackend"], <<Emit("StateChanged")>>)
<1>1. "Idle" \in Statuses /\ "WaitingForBackend" \in Statuses /\ "StateChanged" \in Events
  BY DEF Statuses, Events
<1>2. Steps(s, t, {}) /\ Steps(s, u, {}) /\ u \in AgentStates
  BY <1>1, StatusSteps, StepsType
<1>3. resume(s) \in {s, t, build_request(u)}
  BY DEF resume
<1> HIDE DEF t, u
<1> QED BY <1>2, <1>3, StepsReflexive, BuildRequestSteps, KeepsTransitive

LEMMA ChildrenSteps ==
    ASSUME NEW s \in AgentStates, NEW ks \in SUBSET Children
    PROVE  Steps(s, [s EXCEPT !.children = ks], {})
<1> DEFINE t == [s EXCEPT !.children = ks]
<1>1. t \in AgentStates
  BY Zenon DEF AgentStates
<1>2. /\ t.messages = s.messages /\ t.pending_tools = s.pending_tools
      /\ t.pending_permissions = s.pending_permissions /\ t.fx = s.fx
  BY Zenon DEF AgentStates
<1> QED BY <1>1, <1>2 DEF Steps

LEMMA ChildSpawnedSteps ==
    ASSUME NEW s \in AgentStates, NEW k \in Children, NEW awaiting
    PROVE  Steps(s, child_spawned(s, k, awaiting), {})
<1> DEFINE t == [s EXCEPT !.children = @ \cup {k}]
           u == With([t EXCEPT !.status = "WaitingForChildren"], <<Emit("StateChanged")>>)
<1>1. s.children \cup {k} \in SUBSET Children
  BY FieldTypes
<1>2. Steps(s, t, {}) /\ t \in AgentStates
  BY <1>1, ChildrenSteps, StepsType
<1>3. "WaitingForChildren" \in Statuses /\ "StateChanged" \in Events
  BY DEF Statuses, Events
<1>4. child_spawned(s, k, awaiting) \in {t, u}
  BY DEF child_spawned
<1> HIDE DEF t
<1>5. Steps(s, u, {})
  BY <1>2, <1>3, StatusSteps, KeepsTransitive
<1> QED BY <1>2, <1>4, <1>5

LEMMA ChildEndedSteps ==
    ASSUME NEW s \in AgentStates, NEW k
    PROVE  Steps(s, child_ended(s, k), {})
<1> DEFINE t == [s EXCEPT !.children = @ \ {k}]
           idle == t.children = {} /\ t.status = "WaitingForChildren"
           status == IF idle THEN "Idle" ELSE t.status
           u == With([t EXCEPT !.status = status], <<Emit("ChildAgentCompleted")>>)
<1>1. s.children \ {k} \in SUBSET Children
  BY FieldTypes
<1>2. Steps(s, t, {}) /\ t \in AgentStates
  BY <1>1, ChildrenSteps, StepsType
<1>3. child_ended(s, k) = u
  BY DEF child_ended
<1> HIDE DEF t
<1>4. status \in Statuses /\ "ChildAgentCompleted" \in Events
  BY <1>2, FieldTypes DEF Statuses, Events
<1> HIDE DEF status
<1>5. Steps(s, u, {})
  BY <1>2, <1>4, StatusSteps, KeepsTransitive
<1> QED BY <1>3, <1>5

\* SpawnChild adds its effect, and no call is started.
LEMMA SpawnCommandFields ==
    ASSUME NEW s \in AgentStates
    PROVE  LET t == With(s, <<SpawnAgent>>)
           IN /\ t \in AgentStates /\ t.messages = s.messages
              /\ t.pending_tools = s.pending_tools
              /\ t.pending_permissions = s.pending_permissions
              /\ t.active_run = s.active_run /\ t.status = s.status
              /\ t.profile = s.profile /\ t.gate_attempts = s.gate_attempts
              /\ Executed(EffectsIn(t.fx)) = Executed(EffectsIn(s.fx))
<1> DEFINE e == <<SpawnAgent>>
           t == With(s, e)
<1>1. e \in Seq(Effects) /\ EffectsIn(e) = {SpawnAgent} /\ SpawnAgent.kind = "SpawnAgent"
  <2>1. e \in Seq(Effects) /\ Len(e) = 1 /\ e[1] = SpawnAgent
    BY EffectTypes
  <2> HIDE DEF e
  <2> QED BY <2>1, EffectTypes DEF EffectsIn
<1> HIDE DEF e
<1>2. s.fx \in Seq(Effects)
  BY FieldTypes
<1>3. s.fx \o e \in Seq(Effects)
  BY <1>1, <1>2
<1>4. t \in AgentStates
  BY <1>3, Zenon DEF With, AgentStates
<1>5. /\ t.messages = s.messages /\ t.pending_tools = s.pending_tools
      /\ t.pending_permissions = s.pending_permissions
      /\ t.active_run = s.active_run /\ t.status = s.status
      /\ t.profile = s.profile /\ t.gate_attempts = s.gate_attempts
      /\ t.fx = s.fx \o e
  BY Zenon DEF With, AgentStates
<1>6. EffectsIn(t.fx) = EffectsIn(s.fx) \cup {SpawnAgent}
  BY <1>1, <1>2, <1>5, EffectsInConcat
<1>7. Executed(EffectsIn(t.fx)) = Executed(EffectsIn(s.fx))
  BY <1>1, <1>6 DEF Executed, OfKind
<1> HIDE DEF t
<1>8. /\ t \in AgentStates /\ t.messages = s.messages /\ t.pending_tools = s.pending_tools
      /\ t.pending_permissions = s.pending_permissions
      /\ t.active_run = s.active_run /\ t.status = s.status
      /\ t.profile = s.profile /\ t.gate_attempts = s.gate_attempts
      /\ Executed(EffectsIn(t.fx)) = Executed(EffectsIn(s.fx))
  BY <1>4, <1>5, <1>7
<1> QED BY <1>8 DEF t, e

-----------------------------------------------------------------------------
(***************************************************************************)
(* Requesting, asking about and starting a call: the only steps that put a *)
(* call in execution or open a prompt.                                     *)
(***************************************************************************)
Starts(s, t, c) ==
    /\ t \in AgentStates
    /\ CallsIn(s.messages) \cup {c} \subseteq CallsIn(t.messages)
    /\ t.pending_tools = s.pending_tools \cup {c}
    /\ t.pending_permissions = s.pending_permissions \ {c}
    /\ Executed(EffectsIn(t.fx)) = Executed(EffectsIn(s.fx)) \cup {c}
    /\ SpawnAgent \in EffectsIn(t.fx) => SpawnAgent \in EffectsIn(s.fx)

Asks(s, t, c) ==
    /\ t \in AgentStates
    /\ CallsIn(s.messages) \cup {c} \subseteq CallsIn(t.messages)
    /\ t.pending_tools = s.pending_tools \cup {c}
    /\ t.pending_permissions = s.pending_permissions \cup {c}
    /\ Executed(EffectsIn(t.fx)) = Executed(EffectsIn(s.fx))
    /\ SpawnAgent \in EffectsIn(t.fx) => SpawnAgent \in EffectsIn(s.fx)

\* The session lets the call run, if a rule can relax "Ask".
MayRun(c) == SessionMode[c] = "Allow" \/ (SessionMode[c] = "Ask" /\ RuleMayAllow)

LEMMA ExecuteNowStarts ==
    ASSUME NEW s \in AgentStates, NEW c \in ToolCalls
    PROVE  /\ execute_now(s, c) \in AgentStates
           /\ execute_now(s, c).messages = s.messages
           /\ execute_now(s, c).pending_tools = s.pending_tools
           /\ execute_now(s, c).pending_permissions = s.pending_permissions
           /\ Executed(EffectsIn(execute_now(s, c).fx)) = Executed(EffectsIn(s.fx)) \cup {c}
           /\ SpawnAgent \in EffectsIn(execute_now(s, c).fx) => SpawnAgent \in EffectsIn(s.fx)
<1> DEFINE x == Emit("StateChanged")
           y == ExecuteTool(c)
           e == <<x, y>>
           t == [s EXCEPT !.status = "Executing"]
           u == [t EXCEPT !.fx = @ \o e]
<1>1. execute_now(s, c) = u
  BY DEF execute_now, With
<1>2. /\ x \in Effects /\ x.kind \notin {"ExecuteTool", "SpawnAgent"} /\ y \in Effects
      /\ SpawnAgent.kind = "SpawnAgent"
  BY EffectTypes DEF Events
<1>3. y.kind = "ExecuteTool" /\ y.call = c
  BY DEF ExecuteTool
<1> HIDE DEF x, y
<1>4. e \in Seq(Effects) /\ EffectsIn(e) = {x, y}
  <2>1. e \in Seq(Effects) /\ Len(e) = 2 /\ e[1] = x /\ e[2] = y
    BY <1>2
  <2> HIDE DEF e
  <2>2. EffectsIn(e) = {x, y}
    BY <2>1 DEF EffectsIn
  <2> QED BY <2>1, <2>2
<1>5. Executed(EffectsIn(e)) = {c} /\ SpawnAgent \notin EffectsIn(e)
  BY <1>2, <1>3, <1>4 DEF Executed, OfKind
<1> HIDE DEF e
<1>6. t \in AgentStates
  BY Zenon DEF AgentStates, Statuses
<1>7. /\ t.messages = s.messages /\ t.pending_tools = s.pending_tools
      /\ t.pending_permissions = s.pending_permissions /\ t.fx = s.fx
  BY Zenon DEF AgentStates
<1>8. s.fx \in Seq(Effects)
  BY FieldTypes
<1>9. t.fx \o e \in Seq(Effects)
  BY <1>4, <1>7, <1>8
<1> HIDE DEF t
<1>10. u \in AgentStates
  BY <1>6, <1>9, Zenon DEF AgentStates
<1>11. /\ u.messages = t.messages /\ u.pending_tools = t.pending_tools
       /\ u.pending_permissions = t.pending_permissions /\ u.fx = t.fx \o e
  BY <1>6, Zenon DEF AgentStates
<1>12. EffectsIn(u.fx) = EffectsIn(s.fx) \cup EffectsIn(e)
  BY <1>4, <1>7, <1>8, <1>11, EffectsInConcat
<1>13. /\ Executed(EffectsIn(u.fx)) = Executed(EffectsIn(s.fx)) \cup {c}
       /\ SpawnAgent \in EffectsIn(u.fx) => SpawnAgent \in EffectsIn(s.fx)
  BY <1>5, <1>12 DEF Executed, OfKind
<1> QED BY <1>1, <1>7, <1>10, <1>11, <1>13

LEMMA RecordToolRequestType ==
    ASSUME NEW s \in AgentStates, NEW c \in ToolCalls
    PROVE  /\ record_tool_request(s, c) \in AgentStates
           /\ CallsIn(s.messages) \cup {c} \subseteq CallsIn(record_tool_request(s, c).messages)
           /\ record_tool_request(s, c).pending_tools = s.pending_tools \cup {c}
           /\ record_tool_request(s, c).pending_permissions = s.pending_permissions
           /\ Executed(EffectsIn(record_tool_request(s, c).fx)) = Executed(EffectsIn(s.fx))
           /\ SpawnAgent \in EffectsIn(record_tool_request(s, c).fx) => SpawnAgent \in EffectsIn(s.fx)
<1> DEFINE m == push_tool_use(s.messages, c)
           t == [s EXCEPT !.messages = m, !.pending_tools = @ \cup {c}]
           e == <<Emit("ToolCallRequested")>>
           u == With(t, e)
<1>1. record_tool_request(s, c) = u
  BY DEF record_tool_request
<1>2. m \in Seq(Messages) /\ CallsIn(s.messages) \cup {c} \subseteq CallsIn(m)
  <2>1. ToolUseMessage(c).block = "ToolUse" /\ ToolUseMessage(c).call = c
    BY DEF ToolUseMessage
  <2>2. /\ m \in Seq(Messages) /\ CallsIn(s.messages) \subseteq CallsIn(m)
        /\ ToolUseMessage(c).call \in CallsIn(m)
    BY <2>1, FieldTypes, MessageTypes, FillOrAppendCalls DEF push_tool_use
  <2> QED BY <2>1, <2>2
<1>3. s.pending_tools \cup {c} \in SUBSET ToolCalls
  BY FieldTypes
<1> HIDE DEF m
<1>4. t \in AgentStates
  BY <1>2, <1>3, Zenon DEF AgentStates
<1>5. /\ t.messages = m /\ t.pending_tools = s.pending_tools \cup {c}
      /\ t.pending_permissions = s.pending_permissions /\ t.fx = s.fx
  BY Zenon DEF AgentStates
<1>6. e \in Seq(Effects) /\ NotExecuting(e)
  BY EmitsOne DEF Events
<1> HIDE DEF t, e
<1>7. Steps(t, u, {})
  BY <1>4, <1>6, WithSteps
<1> HIDE DEF u
<1> QED BY <1>1, <1>2, <1>5, <1>7 DEF Steps

LEMMA AskPermissionType ==
    ASSUME NEW s \in AgentStates, NEW c \in ToolCalls
    PROVE  /\ ask_permission(s, c) \in AgentStates
           /\ CallsIn(s.messages) \subseteq CallsIn(ask_permission(s, c).messages)
           /\ ask_permission(s, c).pending_tools = s.pending_tools
           /\ ask_permission(s, c).pending_permissions = s.pending_permissions \cup {c}
           /\ Executed(EffectsIn(ask_permission(s, c).fx)) = Executed(EffectsIn(s.fx))
           /\ SpawnAgent \in EffectsIn(ask_permission(s, c).fx) => SpawnAgent \in EffectsIn(s.fx)
<1> DEFINE t == [s EXCEPT !.status = "WaitingForPermission", !.pending_permissions = @ \cup {c}]
           e == <<Emit("PermissionRequested")>>
           u == With(t, e)
<1>1. ask_permission(s, c) = u
  BY DEF ask_permission
<1>2. s.pending_permissions \cup {c} \in SUBSET ToolCalls /\ "WaitingForPermission" \in Statuses
  BY FieldTypes DEF Statuses
<1>3. t \in AgentStates
  BY <1>2, Zenon DEF AgentStates
<1>4. /\ t.messages = s.messages /\ t.pending_tools = s.pending_tools
      /\ t.pending_permissions = s.pending_permissions \cup {c} /\ t.fx = s.fx
  BY Zenon DEF AgentStates
<1>5. e \in Seq(Effects) /\ NotExecuting(e)
  BY EmitsOne DEF Events
<1> HIDE DEF t, e
<1>6. Steps(t, u, {})
  BY <1>3, <1>5, WithSteps
<1> HIDE DEF u
<1> QED BY <1>1, <1>4, <1>6 DEF Steps

\* The call is in the transcript and pending, and nothing has been decided.
Recorded(s, r, c) ==
    /\ r \in AgentStates
    /\ CallsIn(s.messages) \cup {c} \subseteq CallsIn(r.messages)
    /\ r.pending_tools = s.pending_tools \cup {c}
    /\ r.pending_permissions = s.pending_permissions
    /\ Executed(EffectsIn(r.fx)) = Executed(EffectsIn(s.fx))
    /\ SpawnAgent \in EffectsIn(r.fx) => SpawnAgent \in EffectsIn(s.fx)

LEMMA RecordedKept ==
    ASSUME NEW s, NEW r, NEW c, NEW t, Recorded(s, r, c), Steps(r, t, {})
    PROVE  Recorded(s, t, c)
BY DEF Recorded, Steps

LEMMA RefusedSteps ==
    ASSUME NEW s, NEW r, NEW c \in ToolCalls, NEW o, Recorded(s, r, c)
    PROVE  Steps(s, tool_failed(r, c, "Denied", o), {c})
<1>1. r \in AgentStates /\ c \in r.pending_tools
  BY DEF Recorded
<1>2. Steps(r, tool_failed(r, c, "Denied", o), {c})
  BY <1>1, ToolFailedSteps
<1> QED BY <1>2 DEF Steps, Recorded

LEMMA ApprovalGrants ==
    ASSUME NEW s \in AgentStates, NEW c \in ToolCalls, NEW o, SessionMode[c] # "NotOffered"
    PROVE  LET mode == approval_for(s, c, evaluate(s, "PreToolUse", o).decision)
           IN /\ mode \in {"Allow", "Ask", "Deny"}
              /\ mode = "Allow" => MayRun(c)
              /\ mode # "Deny" => SessionMode[c] \in {"Allow", "Ask"}
<1> DEFINE d == evaluate(s, "PreToolUse", o).decision
           mode == permission(s, c)
<1>1. /\ SessionMode[c] \in {"Allow", "Ask", "Deny"}
      /\ ProfileMode[s.profile][c] \in {"Allow", "Ask", "Deny"}
  BY AgentAssumption, FieldTypes DEF Modes
<1>2. /\ mode \in {"Allow", "Ask", "Deny"}
      /\ SessionMode[c] = "Deny" => mode = "Deny"
      /\ mode = "Allow" => SessionMode[c] = "Allow"
  <2>1. Strictness["Allow"] = 0 /\ Strictness["Ask"] = 1 /\ Strictness["Deny"] = 2
    BY DEF Strictness
  <2> QED BY <1>1, <2>1 DEF permission
<1>3. d = "Allow" => RuleMayAllow
  <2>1. "PreToolUse" \in RuleEvents /\ s.profile \in Profiles
    BY FieldTypes DEF RuleEvents
  <2>2. evaluate(s, "PreToolUse", o) \in Rules[s.profile]["PreToolUse"] \/ d = "None"
    BY DEF evaluate, Quiet
  <2> QED BY <2>1, <2>2 DEF RuleMayAllow
<1> HIDE DEF d, mode
<1>4. \/ approval_for(s, c, d) = "Deny"
      \/ approval_for(s, c, d) = "Ask" /\ mode # "Deny"
      \/ approval_for(s, c, d) = "Allow" /\ d = "Allow" /\ mode = "Ask"
      \/ approval_for(s, c, d) = mode
  BY DEF approval_for, mode
<1>5. /\ approval_for(s, c, d) \in {"Allow", "Ask", "Deny"}
      /\ approval_for(s, c, d) = "Allow" => MayRun(c)
      /\ approval_for(s, c, d) # "Deny" => SessionMode[c] \in {"Allow", "Ask"}
  BY <1>1, <1>2, <1>3, <1>4 DEF MayRun
<1> QED BY <1>5 DEF d

LEMMA AdmitToSteps ==
    ASSUME NEW s, NEW r, NEW c \in ToolCalls, NEW mode \in {"Allow", "Ask", "Deny"}, NEW o,
           Recorded(s, r, c), c \notin s.pending_permissions
    PROVE  LET t == AdmitTo(r, c, mode, o)
           IN \/ Steps(s, t, {c})
              \/ mode = "Allow" /\ Starts(s, t, c)
              \/ mode = "Ask" /\ Asks(s, t, c)
<1> DEFINE counted == [r EXCEPT !.tool_calls = @ + 1]
<1>1. r \in AgentStates
  BY DEF Recorded
<1>2. r.tool_calls + 1 \in Nat
  BY <1>1, FieldTypes
<1>3. counted \in AgentStates
  BY <1>1, <1>2, Zenon DEF AgentStates
<1>4. /\ counted.messages = r.messages /\ counted.pending_tools = r.pending_tools
      /\ counted.pending_permissions = r.pending_permissions /\ counted.fx = r.fx
  BY <1>1, Zenon DEF AgentStates
<1>5. Recorded(s, counted, c)
  BY <1>3, <1>4 DEF Recorded
<1>6. \/ AdmitTo(r, c, mode, o) = tool_failed(r, c, "Denied", o)
      \/ mode = "Ask" /\ AdmitTo(r, c, mode, o) = ask_permission(counted, c)
      \/ mode = "Allow" /\ AdmitTo(r, c, mode, o) = execute_now(counted, c)
  BY DEF AdmitTo
<1> HIDE DEF counted
<1>7. Asks(s, ask_permission(counted, c), c)
  BY <1>3, <1>5, AskPermissionType DEF Asks, Recorded
<1>8. Starts(s, execute_now(counted, c), c)
  BY <1>3, <1>5, ExecuteNowStarts DEF Starts, Recorded
<1> QED BY <1>6, <1>7, <1>8, RefusedSteps

\* A call the model has just named runs, waits for the user, or is answered at once.
LEMMA ToolRequestedSteps ==
    ASSUME NEW s \in AgentStates, NEW c \in ToolCalls, NEW o, c \notin s.pending_permissions
    PROVE  LET t == tool_requested(s, c, o)
           IN \/ Steps(s, t, {c})
              \/ MayRun(c) /\ Starts(s, t, c)
              \/ SessionMode[c] \in {"Allow", "Ask"} /\ Asks(s, t, c)
<1> DEFINE recorded == record_tool_request(s, c)
           outcome == evaluate(s, "PreToolUse", o)
           ruled == apply_rule_outcome(recorded, outcome)
           mode == approval_for(s, c, outcome.decision)
           denied == tool_failed(ruled, c, "Denied", o)
<1>1. \/ tool_requested(s, c, o) = tool_failed(recorded, c, "Denied", o)
      \/ tool_requested(s, c, o) = fail(denied)
      \/ /\ SessionMode[c] # "NotOffered"
         /\ tool_requested(s, c, o) = AdmitTo(ruled, c, mode, o)
  BY DEF tool_requested
<1>2. outcome \in Outcome
  BY EvaluateType DEF RuleEvents
<1>3. SessionMode[c] # "NotOffered" =>
          /\ mode \in {"Allow", "Ask", "Deny"}
          /\ mode = "Allow" => MayRun(c)
          /\ mode # "Deny" => SessionMode[c] \in {"Allow", "Ask"}
  BY ApprovalGrants
<1> HIDE DEF outcome, mode
<1>4. Recorded(s, recorded, c) /\ recorded \in AgentStates
  BY RecordToolRequestType DEF Recorded
<1> HIDE DEF recorded
<1>5. Recorded(s, ruled, c)
  BY <1>2, <1>4, ApplyRuleOutcomeSteps, RecordedKept
<1> HIDE DEF ruled
<1>6. Steps(s, denied, {c}) /\ denied \in AgentStates
  BY <1>5, RefusedSteps, StepsType
<1> HIDE DEF denied
<1>7. Steps(s, fail(denied), {c})
  <2>1. Steps(s, fail(denied), {c} \cup {})
    BY <1>6, FailSteps, StepsTransitive
  <2>2. {c} \cup {} = {c}
    OBVIOUS
  <2> QED BY <2>1, <2>2
<1>8. CASE SessionMode[c] # "NotOffered" /\ tool_requested(s, c, o) = AdmitTo(ruled, c, mode, o)
  BY <1>3, <1>5, <1>8, AdmitToSteps
<1> QED BY <1>1, <1>4, <1>7, <1>8, RefusedSteps

\* Answering an open prompt starts its call or settles it; any other answer does nothing.
LEMMA PermissionResolvedSteps ==
    ASSUME NEW s \in AgentStates, NEW c \in ToolCalls, NEW approves, NEW o,
           s.pending_permissions \subseteq s.pending_tools,
           s.pending_tools \subseteq CallsIn(s.messages)
    PROVE  LET t == permission_resolved(s, c, approves, o)
           IN \/ Steps(s, t, {}) \/ Steps(s, t, {c})
              \/ approves /\ c \in s.pending_permissions /\ Starts(s, t, c)
<1> DEFINE t == [s EXCEPT !.pending_permissions = @ \ {c}]
<1>1. CASE c \notin s.pending_permissions
  BY <1>1, StepsReflexive DEF permission_resolved
<1>2. CASE c \in s.pending_permissions
  <2>1. s.pending_permissions \ {c} \in SUBSET ToolCalls
    BY FieldTypes
  <2>2. t \in AgentStates
    BY <2>1, Zenon DEF AgentStates
  <2>3. /\ t.messages = s.messages /\ t.pending_tools = s.pending_tools
        /\ t.pending_permissions = s.pending_permissions \ {c} /\ t.fx = s.fx
    BY Zenon DEF AgentStates
  <2>4. c \in t.pending_tools /\ c \in CallsIn(s.messages)
    BY <1>2, <2>3
  <2>5. permission_resolved(s, c, approves, o)
          = IF approves THEN execute_now(t, c) ELSE tool_failed(t, c, "Denied", o)
    BY <1>2, <2>4 DEF permission_resolved
  <2> HIDE DEF t
  <2>6. Starts(s, execute_now(t, c), c)
    BY <2>2, <2>3, <2>4, ExecuteNowStarts DEF Starts
  <2>7. Steps(t, tool_failed(t, c, "Denied", o), {c})
    BY <2>2, <2>4, ToolFailedSteps
  <2>8. Steps(s, tool_failed(t, c, "Denied", o), {c})
    BY <2>3, <2>7 DEF Steps
  <2> QED BY <1>2, <2>5, <2>6, <2>8
<1> QED BY <1>1, <1>2

-----------------------------------------------------------------------------
(***************************************************************************)
(* What a command does to the transcript's calls, to the queue, to the     *)
(* requests of the run and to its budget of turns.                         *)
(***************************************************************************)
\* The calls of the messages of one kind.
CallsOf(m, block) == {m[i].call : i \in {j \in 1..Len(m) : m[j].block = block}}

Answers(m) == CallsOf(m, "ToolResult")

\* What the effects of s start, cancel and drop.
Queries(s) == OfKind(EffectsIn(s.fx), "ExecuteBackend")
Hangups(s) == OfKind(EffectsIn(s.fx), "CancelBackend")
Drops(s) == Dropped(EffectsIn(s.fx))
Finishes(s) == FinishRun \in EffectsIn(s.fx)
Verdicts(s) == {e \in EffectsIn(s.fx) : e.kind \in {"EvaluateCompletion", "CancelEvaluation"}}

Limited == \A p \in Profiles : Limits[p].max_turns # Unlimited

\* The turns and grace turns of the profile in use are within its limits.
Within(s) ==
    LET most == Limits[s.profile].max_turns
    IN IF s.final_turn
       THEN s.turns <= most /\ s.final_grace_used <= FINAL_TURN_GRACE
       ELSE s.turns < most /\ s.final_grace_used = 0

\* n requests are paid for: by the profiles left behind and the turns of this one.
Paid(s, n) ==
    \E p \in Profiles : n <= s.switches * MostRequests(p) + (s.turns + s.final_grace_used)

Budget(s, n) == Limited => Within(s) /\ Paid(s, n)

\* The effects of t go on from those of s.
Extends(s, t) == \A i \in DOMAIN s.fx : i \in DOMAIN t.fx /\ t.fx[i] = s.fx[i]

Keeps(s, t) ==
    /\ t \in AgentStates /\ Extends(s, t)
    /\ CallsIn(t.messages) = CallsIn(s.messages) /\ Answers(t.messages) = Answers(s.messages)
    /\ t.pending_tools = s.pending_tools
    /\ t.queued_inputs = s.queued_inputs /\ t.next_run = s.next_run
    /\ Drops(t) = Drops(s)

\* s becomes t without a request, and may end its run.
Idles(s, t) ==
    /\ Keeps(s, t)
    /\ Queries(t) = Queries(s) /\ Hangups(t) = Hangups(s)
    /\ t.active_run \in {s.active_run, NoRun}
    /\ t.active_run = NoRun \/ t.backend_in_flight = s.backend_in_flight
    /\ t.backend_in_flight \in {s.backend_in_flight, FALSE}
    /\ t.status = "Verifying" => s.status = "Verifying"
    /\ Finishes(t) => Finishes(s) \/ t.active_run = NoRun
    /\ \A n \in Nat : Budget(s, n) => Budget(t, n)

\* s becomes t with one request for its run.
Inquires(s, t) ==
    /\ Keeps(s, t)
    /\ s.active_run # NoRun /\ t.active_run = s.active_run
    /\ \E id \in Nat : Queries(t) = Queries(s) \cup {ExecuteBackend(id, s.active_run)}
    /\ Hangups(t) = Hangups(s)
    /\ t.backend_in_flight = TRUE
    /\ t.status # "Verifying"
    /\ Finishes(t) => Finishes(s)
    /\ \A n \in Nat : Budget(s, n) => Budget(t, n + 1)

\* ... and only if none is out.
Moves(s, t) == Idles(s, t) \/ (~s.backend_in_flight /\ Inquires(s, t))

LEMMA KeepsComposes ==
    ASSUME NEW s, NEW t, NEW u, Keeps(s, t), Keeps(t, u)
    PROVE  Keeps(s, u)
BY DEF Keeps, Extends

LEMMA IdlesType ==
    ASSUME NEW s, NEW t, Idles(s, t)
    PROVE  t \in AgentStates
BY DEF Idles, Keeps, Extends

LEMMA IdlesReflexive ==
    ASSUME NEW s \in AgentStates
    PROVE  Idles(s, s)
BY DEF Idles, Keeps, Extends

LEMMA IdlesComposes ==
    ASSUME NEW s, NEW t, NEW u, Idles(s, t), Idles(t, u)
    PROVE  Idles(s, u)
<1>1. Keeps(s, u)
  BY KeepsComposes DEF Idles
<1>2. \A n \in Nat : Budget(s, n) => Budget(u, n)
  BY DEF Idles
<1> QED BY <1>1, <1>2 DEF Idles

LEMMA IdlesThenInquires ==
    ASSUME NEW s, NEW t, NEW u, Idles(s, t), Inquires(t, u)
    PROVE  Inquires(s, u)
<1>1. Keeps(s, u)
  BY KeepsComposes DEF Idles, Inquires
<1>2. \A n \in Nat : Budget(s, n) => Budget(u, n + 1)
  BY DEF Idles, Inquires
<1>3. t.active_run = s.active_run /\ t.active_run # NoRun
  BY DEF Idles, Inquires
<1> QED BY <1>1, <1>2, <1>3 DEF Idles, Inquires

LEMMA IdlesThenMoves ==
    ASSUME NEW s, NEW t, NEW u, Idles(s, t), Moves(t, u)
    PROVE  Moves(s, u)
<1>1. CASE Idles(t, u)
  BY <1>1, IdlesComposes DEF Moves
<1>2. CASE ~t.backend_in_flight /\ Inquires(t, u)
  <2>1. Inquires(s, u)
    BY <1>2, IdlesThenInquires
  <2>2. t.backend_in_flight = s.backend_in_flight
    BY <1>2 DEF Idles, Inquires
  <2> QED BY <1>2, <2>1, <2>2 DEF Moves
<1> QED BY <1>1, <1>2 DEF Moves

-----------------------------------------------------------------------------
\* s and t agree on what the relations above look at, but for messages and status.
Untouched(s, t) ==
    /\ t \in AgentStates
    /\ t.pending_tools = s.pending_tools /\ t.queued_inputs = s.queued_inputs
    /\ t.next_run = s.next_run /\ t.fx = s.fx /\ t.active_run = s.active_run
    /\ t.backend_in_flight = s.backend_in_flight /\ t.profile = s.profile
    /\ t.switches = s.switches /\ t.turns = s.turns /\ t.final_turn = s.final_turn
    /\ t.final_grace_used = s.final_grace_used

LEMMA SameBudget ==
    ASSUME NEW s, NEW t, t.profile = s.profile, t.switches = s.switches, t.turns = s.turns,
           t.final_turn = s.final_turn, t.final_grace_used = s.final_grace_used
    PROVE  \A n : Budget(s, n) <=> Budget(t, n)
<1>1. Within(s) <=> Within(t)
  BY DEF Within
<1>2. \A n : Paid(s, n) <=> Paid(t, n)
  BY DEF Paid
<1> QED BY <1>1, <1>2 DEF Budget

LEMMA UntouchedIdles ==
    ASSUME NEW s, NEW t, Untouched(s, t), CallsIn(t.messages) = CallsIn(s.messages),
           Answers(t.messages) = Answers(s.messages), t.status \in {s.status} \/ t.status # "Verifying"
    PROVE  Idles(s, t)
<1>1. \A n \in Nat : Budget(s, n) => Budget(t, n)
  BY SameBudget DEF Untouched
<1>2. Keeps(s, t) /\ Queries(t) = Queries(s) /\ Hangups(t) = Hangups(s) /\ (Finishes(t) <=> Finishes(s))
  BY DEF Untouched, Keeps, Queries, Hangups, Drops, Finishes, Extends
<1> QED BY <1>1, <1>2 DEF Untouched, Idles

LEMMA EffectsOfOne == \A a : EffectsIn(<<a>>) = {a}
<1>1. ASSUME NEW a PROVE EffectsIn(<<a>>) = {a}
  <2>1. Len(<<a>>) = 1 /\ <<a>>[1] = a
    OBVIOUS
  <2> DEFINE e == <<a>>
  <2> HIDE DEF e
  <2>2. EffectsIn(e) = {a}
    BY <2>1 DEF EffectsIn, e
  <2> QED BY <2>2 DEF e
<1> QED BY <1>1

LEMMA EffectsOfTwo == \A a, b : EffectsIn(<<a, b>>) = {a, b}
<1>1. ASSUME NEW a, NEW b PROVE EffectsIn(<<a, b>>) = {a, b}
  <2> DEFINE e == <<a, b>>
  <2>1. Len(e) = 2 /\ e[1] = a /\ e[2] = b
    OBVIOUS
  <2> HIDE DEF e
  <2>2. EffectsIn(e) = {a, b}
    BY <2>1 DEF EffectsIn
  <2> QED BY <2>2 DEF e
<1> QED BY <1>1

LEMMA WithFields ==
    ASSUME NEW s \in AgentStates, NEW e \in Seq(Effects)
    PROVE  LET t == With(s, e)
           IN /\ t \in AgentStates /\ t.messages = s.messages /\ t.status = s.status
              /\ t.pending_tools = s.pending_tools /\ t.queued_inputs = s.queued_inputs
              /\ t.next_run = s.next_run /\ t.active_run = s.active_run
              /\ t.backend_in_flight = s.backend_in_flight /\ t.profile = s.profile
              /\ t.switches = s.switches /\ t.turns = s.turns /\ t.final_turn = s.final_turn
              /\ t.final_grace_used = s.final_grace_used
              /\ EffectsIn(t.fx) = EffectsIn(s.fx) \cup EffectsIn(e) /\ Extends(s, t)
<1>1. s.fx \in Seq(Effects) /\ s.fx \o e \in Seq(Effects)
  BY FieldTypes
<1>2. With(s, e) \in AgentStates
  BY <1>1, Zenon DEF With, AgentStates
<1>3. With(s, e).fx = s.fx \o e
  BY Zenon DEF With, AgentStates
<1>4. EffectsIn(s.fx \o e) = EffectsIn(s.fx) \cup EffectsIn(e)
  BY <1>1, EffectsInConcat
<1>5. LET t == With(s, e)
      IN /\ t.messages = s.messages /\ t.status = s.status
         /\ t.pending_tools = s.pending_tools /\ t.queued_inputs = s.queued_inputs
         /\ t.next_run = s.next_run /\ t.active_run = s.active_run
         /\ t.backend_in_flight = s.backend_in_flight /\ t.profile = s.profile
         /\ t.switches = s.switches /\ t.turns = s.turns /\ t.final_turn = s.final_turn
         /\ t.final_grace_used = s.final_grace_used
  BY Zenon DEF With, AgentStates
<1>6. Extends(s, With(s, e))
  <2>1. \A i \in DOMAIN s.fx : i \in DOMAIN (s.fx \o e) /\ (s.fx \o e)[i] = s.fx[i]
    BY <1>1
  <2> QED BY <1>3, <2>1 DEF Extends
<1> QED BY <1>2, <1>3, <1>4, <1>5, <1>6

LEMMA WithIdles ==
    ASSUME NEW s \in AgentStates, NEW e \in Seq(Effects),
           \A x \in EffectsIn(e) :
              /\ x.kind \notin {"ExecuteBackend", "CancelBackend", "CancelTools"}
              /\ x.kind = "FinishRun" => s.active_run = NoRun
    PROVE  Idles(s, With(s, e))
<1> DEFINE t == With(s, e)
<1>1. /\ t \in AgentStates /\ t.messages = s.messages /\ t.status = s.status
      /\ t.pending_tools = s.pending_tools /\ t.queued_inputs = s.queued_inputs
      /\ t.next_run = s.next_run /\ t.active_run = s.active_run
      /\ t.backend_in_flight = s.backend_in_flight /\ t.profile = s.profile
      /\ t.switches = s.switches /\ t.turns = s.turns /\ t.final_turn = s.final_turn
      /\ t.final_grace_used = s.final_grace_used
      /\ EffectsIn(t.fx) = EffectsIn(s.fx) \cup EffectsIn(e) /\ Extends(s, t)
  BY WithFields
<1> HIDE DEF t
<1>2. \A n \in Nat : Budget(s, n) => Budget(t, n)
  BY <1>1, SameBudget
<1>3. FinishRun.kind = "FinishRun"
  BY EffectTypes
<1>4. Queries(t) = Queries(s) /\ Hangups(t) = Hangups(s)
  BY <1>1 DEF Queries, Hangups, OfKind
<1>5. Drops(t) = Drops(s)
  BY <1>1 DEF Drops, Dropped, OfKind
<1>6. Finishes(t) => Finishes(s) \/ t.active_run = NoRun
  BY <1>1, <1>3 DEF Finishes
<1>7. Keeps(s, t)
  BY <1>1, <1>5 DEF Keeps
<1>8. Idles(s, t)
  BY <1>1, <1>2, <1>4, <1>6, <1>7 DEF Idles
<1> QED BY <1>8 DEF t

LEMMA EmitIdles ==
    ASSUME NEW s \in AgentStates, NEW event \in Events
    PROVE  Idles(s, With(s, <<Emit(event)>>))
<1>1. <<Emit(event)>> \in Seq(Effects) /\ Emit(event).kind = "Emit"
  BY EmitsOne, EffectTypes
<1> QED BY <1>1, EffectsOfOne, WithIdles

LEMMA FinishIdles ==
    ASSUME NEW s \in AgentStates, NEW event \in Events, s.active_run = NoRun
    PROVE  Idles(s, With(s, <<Emit(event), FinishRun>>))
<1>1. <<Emit(event), FinishRun>> \in Seq(Effects) /\ Emit(event).kind = "Emit"
      /\ FinishRun.kind = "FinishRun"
  BY EmitsAndFinishes, EffectTypes
<1> DEFINE e == <<Emit(event), FinishRun>>
<1>2. EffectsIn(e) = {Emit(event), FinishRun}
  BY EffectsOfTwo
<1>3. e \in Seq(Effects)
  BY <1>1
<1> HIDE DEF e
<1>4. \A x \in EffectsIn(e) :
         /\ x.kind \notin {"ExecuteBackend", "CancelBackend", "CancelTools"}
         /\ x.kind = "FinishRun" => s.active_run = NoRun
  BY <1>1, <1>2
<1>5. Idles(s, With(s, e))
  BY <1>3, <1>4, WithIdles
<1> QED BY <1>5 DEF e

-----------------------------------------------------------------------------
LEMMA CallsInOf == \A m \in Seq(Messages) : CallsIn(m) = CallsOf(m, "ToolUse")
BY DEF CallsIn, CallsOf, Declarations

LEMMA AppendCallsOf ==
    ASSUME NEW m \in Seq(Messages), NEW msg \in Messages, NEW b
    PROVE  /\ msg.block # b => CallsOf(Append(m, msg), b) = CallsOf(m, b)
           /\ msg.block = b => CallsOf(Append(m, msg), b) = CallsOf(m, b) \cup {msg.call}
<1> DEFINE n == Append(m, msg)
<1>1. Len(n) = Len(m) + 1 /\ n[Len(m) + 1] = msg /\ \A i \in 1..Len(m) : n[i] = m[i]
  OBVIOUS
<1>2. Len(m) \in Nat
  OBVIOUS
<1> HIDE DEF n
<1>3. \A i \in 1..Len(n) : i \in 1..Len(m) \/ i = Len(m) + 1
  BY <1>1, <1>2
<1>4. \A i \in 1..Len(m) : i \in 1..Len(n)
  BY <1>1, <1>2
<1>5. Len(m) + 1 \in 1..Len(n)
  BY <1>1, <1>2
<1>6. ASSUME NEW c \in CallsOf(m, b) PROVE c \in CallsOf(n, b)
  <2>1. PICK i \in 1..Len(m) : m[i].block = b /\ m[i].call = c
    BY <1>6 DEF CallsOf
  <2>2. i \in 1..Len(n) /\ n[i].block = b /\ n[i].call = c
    BY <2>1, <1>1, <1>4
  <2> QED BY <2>2 DEF CallsOf
<1>7. ASSUME NEW c \in CallsOf(n, b)
      PROVE  c \in CallsOf(m, b) \/ (msg.block = b /\ c = msg.call)
  <2>1. PICK i \in 1..Len(n) : n[i].block = b /\ n[i].call = c
    BY <1>7 DEF CallsOf
  <2>2. CASE i \in 1..Len(m)
    BY <2>1, <2>2, <1>1 DEF CallsOf
  <2>3. CASE i = Len(m) + 1
    BY <2>1, <2>3, <1>1
  <2> QED BY <2>2, <2>3, <1>3
<1>8. msg.block = b => msg.call \in CallsOf(n, b)
  BY <1>1, <1>5 DEF CallsOf
<1>9. /\ msg.block # b => CallsOf(n, b) = CallsOf(m, b)
      /\ msg.block = b => CallsOf(n, b) = CallsOf(m, b) \cup {msg.call}
  BY <1>6, <1>7, <1>8
<1> QED BY <1>9 DEF n

\* An empty message may go or be filled: no call is in it.
LEMMA FillCallsOf ==
    ASSUME NEW m \in Seq(Messages), NEW msg \in Messages, NEW b, b # "Empty"
    PROVE  /\ msg.block # b => CallsOf(FillOrAppend(m, msg), b) = CallsOf(m, b)
           /\ msg.block = b => CallsOf(FillOrAppend(m, msg), b) = CallsOf(m, b) \cup {msg.call}
<1>1. CASE ~EndsIn(m, EmptyMessage)
  BY <1>1, AppendCallsOf DEF FillOrAppend
<1>2. CASE EndsIn(m, EmptyMessage)
  <2> DEFINE n == [m EXCEPT ![Len(m)] = msg]
  <2>0. FillOrAppend(m, msg) = n
    BY <1>2 DEF FillOrAppend
  <2>1. Len(m) \in Nat /\ Len(m) \in 1..Len(m) /\ m[Len(m)].block = "Empty"
    BY <1>2 DEF EndsIn, EmptyMessage
  <2>2. Len(n) = Len(m) /\ n[Len(m)] = msg /\ \A i \in 1..Len(m) : i # Len(m) => n[i] = m[i]
    BY <2>1
  <2> HIDE DEF n
  <2>3. ASSUME NEW c \in CallsOf(m, b) PROVE c \in CallsOf(n, b)
    <3>1. PICK i \in 1..Len(m) : m[i].block = b /\ m[i].call = c
      BY <2>3 DEF CallsOf
    <3>2. i # Len(m)
      BY <3>1, <2>1
    <3> QED BY <3>1, <3>2, <2>2 DEF CallsOf
  <2>4. ASSUME NEW c \in CallsOf(n, b)
        PROVE  c \in CallsOf(m, b) \/ (msg.block = b /\ c = msg.call)
    <3>1. PICK i \in 1..Len(m) : n[i].block = b /\ n[i].call = c
      BY <2>4, <2>2 DEF CallsOf
    <3>2. CASE i = Len(m)
      BY <3>1, <3>2, <2>2
    <3>3. CASE i # Len(m)
      BY <3>1, <3>3, <2>2 DEF CallsOf
    <3> QED BY <3>2, <3>3
  <2>5. msg.block = b => msg.call \in CallsOf(n, b)
    BY <2>1, <2>2 DEF CallsOf
  <2> QED BY <2>0, <2>3, <2>4, <2>5
<1> QED BY <1>1, <1>2

LEMMA DiscardCallsOf ==
    ASSUME NEW m \in Seq(Messages), NEW b, b # "Empty"
    PROVE  CallsOf(discard_trailing_empty_assistant_message(m), b) = CallsOf(m, b)
<1>1. CASE ~EndsIn(m, EmptyMessage)
  BY <1>1 DEF discard_trailing_empty_assistant_message
<1>2. CASE EndsIn(m, EmptyMessage)
  <2> DEFINE n == SubSeq(m, 1, Len(m) - 1)
  <2>0. discard_trailing_empty_assistant_message(m) = n
    BY <1>2 DEF discard_trailing_empty_assistant_message
  <2>1. PICK k \in Nat : Len(m) = k + 1 /\ m[k + 1].block = "Empty"
    <3>1. Len(m) \in Nat /\ Len(m) # 0 /\ m[Len(m)].block = "Empty"
      BY <1>2 DEF EndsIn, EmptyMessage
    <3>2. Len(m) - 1 \in Nat /\ Len(m) = (Len(m) - 1) + 1
      BY <3>1
    <3> QED BY <3>1, <3>2
  <2>2. n = SubSeq(m, 1, k)
    BY <2>1
  <2>3. \A i \in 1..k : m[i] \in Messages
    BY <2>1
  <2>4. /\ SubSeq(m, 1, k) \in Seq(Messages)
        /\ Len(SubSeq(m, 1, k)) = (IF 1 <= k THEN k - 1 + 1 ELSE 0)
        /\ \A i \in 1..k - 1 + 1 : SubSeq(m, 1, k)[i] = m[1 + i - 1]
    BY <2>3, SubSeqProperties
  <2> HIDE DEF n
  <2>5. Len(n) = k
    BY <2>2, <2>4
  <2>6. \A i \in 1..k : n[i] = m[i]
    BY <2>2, <2>4
  <2>7. \A i \in 1..Len(m) : m[i].block = b => i \in 1..k
    BY <2>1
  <2>8. \A i \in 1..k : i \in 1..Len(m)
    BY <2>1
  <2>9. CallsOf(n, b) = CallsOf(m, b)
    BY <2>5, <2>6, <2>7, <2>8 DEF CallsOf
  <2> QED BY <2>0, <2>9
<1> QED BY <1>1, <1>2

-----------------------------------------------------------------------------
(***************************************************************************)
(* Failing, finishing, profiles and turns.                                 *)
(***************************************************************************)
LEMMA FailIdles ==
    ASSUME NEW s \in AgentStates
    PROVE  Idles(s, fail(s)) /\ fail(s).active_run = NoRun
<1> DEFINE m == discard_trailing_empty_assistant_message(s.messages)
           t == [s EXCEPT !.messages = m, !.status = "Failed", !.active_run = NoRun,
                          !.backend_in_flight = FALSE, !.runs = @ + 1]
           e == <<Emit("Failed"), FinishRun>>
<1>1. m \in Seq(Messages) /\ CallsIn(m) = CallsIn(s.messages) /\ Answers(m) = Answers(s.messages)
  BY FieldTypes, DiscardType, DiscardCallsOf, CallsInOf DEF Answers
<1>2. s.runs + 1 \in Nat /\ "Failed" \in Statuses /\ NoRun \in Nat
  BY FieldTypes DEF Statuses, NoRun
<1>3. t \in AgentStates
  BY <1>1, <1>2, Zenon DEF AgentStates
<1>4. /\ t.messages = m /\ t.pending_tools = s.pending_tools /\ t.fx = s.fx
      /\ t.queued_inputs = s.queued_inputs /\ t.next_run = s.next_run /\ t.status = "Failed"
      /\ t.active_run = NoRun /\ t.backend_in_flight = FALSE /\ t.profile = s.profile
      /\ t.switches = s.switches /\ t.turns = s.turns /\ t.final_turn = s.final_turn
      /\ t.final_grace_used = s.final_grace_used
  BY Zenon DEF AgentStates
<1>5. fail(s) = With(t, e)
  BY DEF fail
<1> HIDE DEF t, m
<1>6. \A n \in Nat : Budget(s, n) => Budget(t, n)
  BY <1>4, SameBudget
<1>7. Keeps(s, t) /\ Queries(t) = Queries(s) /\ Hangups(t) = Hangups(s) /\ (Finishes(t) <=> Finishes(s))
  BY <1>1, <1>3, <1>4 DEF Keeps, Queries, Hangups, Drops, Finishes, Extends
<1>8. Idles(s, t)
  BY <1>4, <1>6, <1>7 DEF Idles
<1>9. Idles(t, With(t, e)) /\ With(t, e).active_run = NoRun
  <2>1. Idles(t, With(t, e))
    BY <1>3, <1>4, FinishIdles DEF Events
  <2> QED BY <2>1, <1>4 DEF Idles
<1> QED BY <1>5, <1>8, <1>9, IdlesComposes

LEMMA FinishSuccessIdles ==
    ASSUME NEW s \in AgentStates
    PROVE  Idles(s, finish_success(s)) /\ finish_success(s).active_run = NoRun
<1> DEFINE t == [s EXCEPT !.status = "Idle", !.active_run = NoRun, !.runs = @ + 1]
           e == <<Emit("Completed"), FinishRun>>
<1>2. s.runs + 1 \in Nat /\ "Idle" \in Statuses /\ NoRun \in Nat
  BY FieldTypes DEF Statuses, NoRun
<1>3. t \in AgentStates
  BY <1>2, Zenon DEF AgentStates
<1>4. /\ t.messages = s.messages /\ t.pending_tools = s.pending_tools /\ t.fx = s.fx
      /\ t.queued_inputs = s.queued_inputs /\ t.next_run = s.next_run /\ t.status = "Idle"
      /\ t.active_run = NoRun /\ t.backend_in_flight = s.backend_in_flight /\ t.profile = s.profile
      /\ t.switches = s.switches /\ t.turns = s.turns /\ t.final_turn = s.final_turn
      /\ t.final_grace_used = s.final_grace_used
  BY Zenon DEF AgentStates
<1>5. finish_success(s) = With(t, e)
  BY DEF finish_success
<1> HIDE DEF t
<1>6. \A n \in Nat : Budget(s, n) => Budget(t, n)
  BY <1>4, SameBudget
<1>7. Keeps(s, t) /\ Queries(t) = Queries(s) /\ Hangups(t) = Hangups(s) /\ (Finishes(t) <=> Finishes(s))
  BY <1>3, <1>4 DEF Keeps, Queries, Hangups, Drops, Finishes, Extends
<1>8. Idles(s, t)
  BY <1>4, <1>6, <1>7 DEF Idles
<1>9. Idles(t, With(t, e)) /\ With(t, e).active_run = NoRun
  <2>1. Idles(t, With(t, e))
    BY <1>3, <1>4, FinishIdles DEF Events
  <2> QED BY <2>1, <1>4 DEF Idles
<1> QED BY <1>5, <1>8, <1>9, IdlesComposes

LEMMA ApplyRuleOutcomeIdles ==
    ASSUME NEW s \in AgentStates, NEW outcome \in Outcome
    PROVE  LET t == apply_rule_outcome(s, outcome)
           IN /\ Idles(s, t) /\ t.active_run = s.active_run
              /\ t.backend_in_flight = s.backend_in_flight
<1> DEFINE t == [s EXCEPT !.pending_profile = outcome.switch]
<1>1. outcome.switch \in Profiles \cup {NoProfile}
  BY DEF Outcome
<1>2. t \in AgentStates
  BY <1>1, Zenon DEF AgentStates
<1>3. Untouched(s, t) /\ t.messages = s.messages /\ t.status = s.status
  BY <1>2, Zenon DEF AgentStates, Untouched
<1>4. apply_rule_outcome(s, outcome) = s \/ apply_rule_outcome(s, outcome) = t
  BY DEF apply_rule_outcome
<1> HIDE DEF t
<1>5. Idles(s, t) /\ t.active_run = s.active_run /\ t.backend_in_flight = s.backend_in_flight
  BY <1>3, UntouchedIdles DEF Untouched
<1> QED BY <1>4, <1>5, IdlesReflexive

LEMMA RunRulesIdles ==
    ASSUME NEW s \in AgentStates, NEW event \in RuleEvents, NEW o
    PROVE  Idles(s, RunRules(s, event, o))
<1> DEFINE t == apply_rule_outcome(s, evaluate(s, event, o))
<1>1. Idles(s, t) /\ t \in AgentStates
  BY EvaluateType, ApplyRuleOutcomeIdles, IdlesType
<1>2. RunRules(s, event, o) = t \/ RunRules(s, event, o) = fail(t)
  BY DEF RunRules
<1> HIDE DEF t
<1> QED BY <1>1, <1>2, FailIdles, IdlesComposes

\* What the profile of s has spent is within what one profile may.
LEMMA WithinMost ==
    ASSUME NEW s \in AgentStates, Limited, Within(s)
    PROVE  /\ MostRequests(s.profile) \in Nat
           /\ s.turns + s.final_grace_used <= MostRequests(s.profile)
<1>1. s.profile \in Profiles /\ s.turns \in Nat /\ s.final_grace_used \in Nat
  BY FieldTypes
<1>2. Limits[s.profile].max_turns \in Nat /\ FINAL_TURN_GRACE \in Nat
  BY <1>1, AgentAssumption DEF Limited
<1> QED BY <1>1, <1>2 DEF Within, MostRequests

LEMMA MostType == Limited => \A p \in Profiles : MostRequests(p) \in Nat
BY AgentAssumption DEF Limited, MostRequests

LEMMA TimesMonotonic ==
    ASSUME NEW k \in Nat, NEW a \in Nat, NEW b \in Nat, a <= b
    PROVE  k * a <= k * b
<1>1. PICK d \in Nat : b = a + d
  <2>1. b - a \in Nat /\ b = a + (b - a)
    OBVIOUS
  <2> QED BY <2>1
<1>2. k * b = k * a + k * d
  BY <1>1
<1>3. k * a \in Nat /\ k * d \in Nat
  OBVIOUS
<1> QED BY <1>2, <1>3

LEMMA SwitchedToIdles ==
    ASSUME NEW s \in AgentStates, NEW p \in Profiles
    PROVE  LET t == switched_to(s, p)
           IN Idles(s, t) /\ t.active_run = s.active_run
<1> DEFINE r == ResetRun(s)
           t == [r EXCEPT !.profile = p, !.switches = s.switches + 1, !.entered = TRUE]
<1>0. switched_to(s, p) = t
  BY DEF switched_to
<1>1. s.switches + 1 \in Nat /\ 0 \in Nat /\ s.switches \in Nat
  BY FieldTypes
<1>2. r \in AgentStates
  BY <1>1, Zenon DEF AgentStates, ResetRun
<1>3. /\ r.messages = s.messages /\ r.pending_tools = s.pending_tools /\ r.fx = s.fx
      /\ r.queued_inputs = s.queued_inputs /\ r.next_run = s.next_run /\ r.status = s.status
      /\ r.active_run = s.active_run /\ r.backend_in_flight = s.backend_in_flight
      /\ r.turns = 0 /\ r.final_turn = FALSE /\ r.final_grace_used = 0
  BY Zenon DEF AgentStates, ResetRun
<1> HIDE DEF r
<1>4. t \in AgentStates
  BY <1>1, <1>2, Zenon DEF AgentStates
<1>5. /\ t.messages = r.messages /\ t.pending_tools = r.pending_tools /\ t.fx = r.fx
      /\ t.queued_inputs = r.queued_inputs /\ t.next_run = r.next_run /\ t.status = r.status
      /\ t.active_run = r.active_run /\ t.backend_in_flight = r.backend_in_flight
      /\ t.turns = r.turns /\ t.final_turn = r.final_turn
      /\ t.final_grace_used = r.final_grace_used /\ t.profile = p /\ t.switches = s.switches + 1
  BY <1>2, Zenon DEF AgentStates
<1> HIDE DEF t
<1>6. ASSUME NEW n \in Nat, Limited, Within(s), Paid(s, n) PROVE Within(t) /\ Paid(t, n)
  <2>1. Limits[p].max_turns \in Nat \ {0}
    BY <1>6, AgentAssumption DEF Limited
  <2>2. Within(t)
    BY <2>1, <1>3, <1>5 DEF Within
  <2>3. PICK q \in Profiles : n <= s.switches * MostRequests(q) + (s.turns + s.final_grace_used)
    BY <1>6 DEF Paid
  <2> DEFINE a == MostRequests(q)
             b == MostRequests(s.profile)
             k == s.switches
             m == s.turns + s.final_grace_used
  <2>4. a \in Nat /\ b \in Nat /\ k \in Nat /\ m \in Nat /\ m <= b
    <3>1. s.turns \in Nat /\ s.final_grace_used \in Nat
      BY FieldTypes
    <3> QED BY <3>1, <1>1, <1>6, WithinMost, MostType
  <2>5. t.switches = k + 1 /\ t.turns + t.final_grace_used = 0 /\ n <= k * a + m
    BY <1>3, <1>5, <2>3
  <2> HIDE DEF a, b, k, m
  <2>6. k * a \in Nat /\ k * b \in Nat /\ (k + 1) * a = k * a + a /\ (k + 1) * b = k * b + b
    BY <2>4
  <2>7. CASE b <= a
    <3>1. n <= (k + 1) * a + 0
      BY <2>4, <2>5, <2>6, <2>7
    <3> QED BY <3>1, <2>2, <2>5 DEF Paid, a
  <2>8. CASE a <= b
    <3>1. k * a <= k * b
      BY <2>4, <2>8, TimesMonotonic
    <3>2. n <= (k + 1) * b + 0
      BY <2>4, <2>5, <2>6, <3>1
    <3> QED BY <3>2, <2>2, <2>5, FieldTypes DEF Paid, b
  <2> QED BY <2>4, <2>7, <2>8
<1>7. \A n \in Nat : Budget(s, n) => Budget(t, n)
  BY <1>6 DEF Budget
<1>8. Keeps(s, t) /\ Queries(t) = Queries(s) /\ Hangups(t) = Hangups(s) /\ (Finishes(t) <=> Finishes(s))
  BY <1>3, <1>4, <1>5 DEF Keeps, Queries, Hangups, Drops, Finishes, Extends
<1>9. Idles(s, t) /\ t.active_run = s.active_run
  BY <1>3, <1>5, <1>7, <1>8 DEF Idles
<1> QED BY <1>0, <1>9

LEMMA ApplySwitchIdles ==
    ASSUME NEW s \in AgentStates, NEW p \in Profiles
    PROVE  Idles(s, apply_switch(s, p))
<1> DEFINE u == switched_to(s, p)
           t == With(u, <<Emit("ProfileChanged")>>)
<1>1. Idles(s, u) /\ u \in AgentStates
  BY SwitchedToIdles, IdlesType
<1>2. apply_switch(s, p) \in {s, t, fail(t)}
  BY DEF apply_switch
<1> HIDE DEF u
<1>3. Idles(u, t)
  BY <1>1, EmitIdles DEF Events
<1> HIDE DEF t
<1>4. Idles(s, t) /\ t \in AgentStates
  BY <1>1, <1>3, IdlesComposes, IdlesType
<1>5. Idles(s, fail(t))
  BY <1>4, FailIdles, IdlesComposes
<1> QED BY <1>2, <1>4, <1>5, IdlesReflexive

LEMMA TakePendingProfileIdles ==
    ASSUME NEW s \in AgentStates
    PROVE  Idles(s, TakePendingProfile(s))
<1> DEFINE t == [s EXCEPT !.pending_profile = NoProfile]
<1>1. t \in AgentStates
  BY Zenon DEF AgentStates
<1>2. Untouched(s, t) /\ t.messages = s.messages /\ t.status = s.status
  BY <1>1, Zenon DEF AgentStates, Untouched
<1>3. TakePendingProfile(s) = s \/ (s.pending_profile # NoProfile /\
                                    TakePendingProfile(s) = apply_switch(t, s.pending_profile))
  BY DEF TakePendingProfile
<1> HIDE DEF t
<1>4. Idles(s, t)
  BY <1>2, UntouchedIdles
<1>5. s.pending_profile # NoProfile => Idles(s, apply_switch(t, s.pending_profile))
  BY <1>1, <1>4, FieldTypes, ApplySwitchIdles, IdlesComposes
<1> QED BY <1>3, <1>5, IdlesReflexive

\* Without a run to fail, a switch finishes none.
LEMMA TakePendingProfileFinishes ==
    ASSUME NEW s \in AgentStates, s.active_run = NoRun
    PROVE  Finishes(TakePendingProfile(s)) => Finishes(s)
<1> DEFINE t == [s EXCEPT !.pending_profile = NoProfile]
           p == s.pending_profile
           u == switched_to(t, p)
           v == With(u, <<Emit("ProfileChanged")>>)
<1>1. t \in AgentStates /\ t.fx = s.fx /\ t.active_run = s.active_run
  BY Zenon DEF AgentStates
<1>2. TakePendingProfile(s) = s \/ (p \in Profiles /\ TakePendingProfile(s) = apply_switch(t, p))
  BY FieldTypes DEF TakePendingProfile
<1> HIDE DEF t
<1>3. ASSUME p \in Profiles PROVE apply_switch(t, p) \in {t, v} /\ (Finishes(v) => Finishes(t))
  <2>1. u \in AgentStates /\ u.active_run = NoRun
    BY <1>1, <1>3, SwitchedToIdles, IdlesType
  <2>2. u.fx = t.fx
    <3> DEFINE r == ResetRun(t)
    <3>1. 0 \in Nat
      OBVIOUS
    <3>2. r \in AgentStates /\ r.fx = t.fx
      BY <1>1, <3>1, Zenon DEF AgentStates, ResetRun
    <3>3. u = [r EXCEPT !.profile = p, !.switches = t.switches + 1, !.entered = TRUE]
      BY DEF switched_to
    <3> HIDE DEF r, u
    <3> QED BY <3>2, <3>3, Zenon DEF AgentStates
  <2>3. <<Emit("ProfileChanged")>> \in Seq(Effects) /\ FinishRun # Emit("ProfileChanged")
    BY DEF Effects, Events, Emit, FinishRun
  <2>4. apply_switch(t, p) \in {t, v} \/ v.active_run # NoRun
    BY DEF apply_switch
  <2> HIDE DEF u
  <2>5. v.active_run = u.active_run /\ EffectsIn(v.fx) = EffectsIn(u.fx) \cup {Emit("ProfileChanged")}
    <3> DEFINE e == <<Emit("ProfileChanged")>>
    <3>1. e \in Seq(Effects) /\ EffectsIn(e) = {Emit("ProfileChanged")}
      BY <2>3, EffectsOfOne
    <3> HIDE DEF e
    <3>2. /\ With(u, e).active_run = u.active_run
          /\ EffectsIn(With(u, e).fx) = EffectsIn(u.fx) \cup EffectsIn(e)
      BY <2>1, <3>1, WithFields
    <3> QED BY <3>1, <3>2 DEF e
  <2> HIDE DEF v
  <2>6. Finishes(v) => Finishes(t)
    BY <2>2, <2>3, <2>5 DEF Finishes
  <2> QED BY <2>1, <2>4, <2>5, <2>6
<1> HIDE DEF v
<1>4. Finishes(t) => Finishes(s)
  BY <1>1 DEF Finishes
<1> QED BY <1>2, <1>3, <1>4

LEMMA SetBehaviorProfileIdles ==
    ASSUME NEW s \in AgentStates, NEW p \in Profiles
    PROVE  Idles(s, set_behavior_profile(s, p))
<1> DEFINE t == [s EXCEPT !.pending_profile = p]
<1>1. t \in AgentStates
  BY Zenon DEF AgentStates
<1>2. Untouched(s, t) /\ t.messages = s.messages /\ t.status = s.status
  BY <1>1, Zenon DEF AgentStates, Untouched
<1>3. set_behavior_profile(s, p) \in {t, apply_switch(s, p)}
  BY DEF set_behavior_profile
<1> HIDE DEF t
<1> QED BY <1>2, <1>3, UntouchedIdles, ApplySwitchIdles

\* A turn that begins pays for one request.
Pays(s, t) == \A n \in Nat : Budget(s, n) => Budget(t, n + 1)

LEMMA PaysThenIdles ==
    ASSUME NEW s, NEW t, NEW u, Pays(s, t), Idles(t, u)
    PROVE  Pays(s, u)
BY DEF Pays, Idles

LEMMA IdlesThenPays ==
    ASSUME NEW s, NEW t, NEW u, Idles(s, t), Pays(t, u)
    PROVE  Pays(s, u)
BY DEF Pays, Idles

LEMMA LessBudget ==
    ASSUME NEW s \in AgentStates, NEW m \in Nat, NEW n \in Nat, m <= n, Budget(s, n)
    PROVE  Budget(s, m)
<1>1. ASSUME Limited, Paid(s, n) PROVE Paid(s, m)
  <2>1. PICK p \in Profiles : n <= s.switches * MostRequests(p) + (s.turns + s.final_grace_used)
    BY <1>1 DEF Paid
  <2> DEFINE x == s.switches * MostRequests(p) + (s.turns + s.final_grace_used)
  <2>2. x \in Nat
    <3>1. s.switches \in Nat /\ s.turns \in Nat /\ s.final_grace_used \in Nat
      BY FieldTypes
    <3>2. MostRequests(p) \in Nat
      BY <1>1, MostType
    <3> QED BY <3>1, <3>2
  <2>3. n <= x
    BY <2>1
  <2> HIDE DEF x
  <2>4. m <= x
    BY <2>2, <2>3
  <2> QED BY <2>4 DEF Paid, x
<1> QED BY <1>1 DEF Budget

\* What counting a turn has to leave: the bounds still hold with one more spent.
LEMMA SpendOne ==
    ASSUME NEW s \in AgentStates, NEW t \in AgentStates,
           t.profile = s.profile, t.switches = s.switches,
           t.turns + t.final_grace_used = (s.turns + s.final_grace_used) + 1,
           Limited /\ Within(s) => Within(t)
    PROVE  Pays(s, t)
<1>1. ASSUME NEW n \in Nat, Limited, Paid(s, n) PROVE Paid(t, n + 1)
  <2>1. PICK p \in Profiles : n <= s.switches * MostRequests(p) + (s.turns + s.final_grace_used)
    BY <1>1 DEF Paid
  <2> DEFINE x == s.switches * MostRequests(p)
  <2>2. x \in Nat
    <3>1. s.switches \in Nat
      BY FieldTypes
    <3>2. MostRequests(p) \in Nat
      BY <1>1, MostType
    <3> QED BY <3>1, <3>2
  <2>3. t.switches * MostRequests(p) = x /\ s.turns \in Nat /\ s.final_grace_used \in Nat
    BY FieldTypes
  <2>4. n <= x + (s.turns + s.final_grace_used)
    BY <2>1
  <2> HIDE DEF x
  <2>5. n + 1 <= x + (t.turns + t.final_grace_used)
    BY <2>2, <2>3, <2>4
  <2> QED BY <2>3, <2>5 DEF Paid
<1> QED BY <1>1 DEF Budget, Pays

LEMMA PaysEnough ==
    ASSUME NEW s, NEW t \in AgentStates, Pays(s, t)
    PROVE  \A n \in Nat : Budget(s, n) => Budget(t, n)
<1>1. ASSUME NEW n \in Nat, Budget(s, n) PROVE Budget(t, n)
  <2>1. Budget(t, n + 1) /\ n + 1 \in Nat /\ n <= n + 1
    BY <1>1 DEF Pays
  <2> QED BY <2>1, LessBudget
<1> QED BY <1>1

LEMMA CountTurnIdles ==
    ASSUME NEW s \in AgentStates
    PROVE  LET t == CountTurn(s)
           IN Idles(s, t) /\ (t.active_run # NoRun => Pays(s, t))
<1> DEFINE g == [s EXCEPT !.final_grace_used = @ + 1]
           f == \/ Reached(Limits[s.profile].max_turns, s.turns + 1)
                \/ Reached(Limits[s.profile].max_tool_calls, s.tool_calls)
           u == [s EXCEPT !.turns = @ + 1, !.final_turn = f]
<1>1. /\ s.final_grace_used + 1 \in Nat /\ s.turns + 1 \in Nat /\ s.profile \in Profiles
      /\ s.turns \in Nat /\ s.final_grace_used \in Nat /\ FINAL_TURN_GRACE \in Nat
  BY FieldTypes, AgentAssumption
<1>2. f \in BOOLEAN
  BY DEF Reached
<1>3. g \in AgentStates
  BY <1>1, Zenon DEF AgentStates
<1>4. /\ g.messages = s.messages /\ g.pending_tools = s.pending_tools /\ g.fx = s.fx
      /\ g.queued_inputs = s.queued_inputs /\ g.next_run = s.next_run /\ g.status = s.status
      /\ g.active_run = s.active_run /\ g.backend_in_flight = s.backend_in_flight
      /\ g.turns = s.turns /\ g.final_turn = s.final_turn /\ g.profile = s.profile
      /\ g.switches = s.switches /\ g.final_grace_used = s.final_grace_used + 1
  BY Zenon DEF AgentStates
<1>5. s.final_turn /\ s.final_grace_used >= FINAL_TURN_GRACE => CountTurn(s) = fail(s)
  BY DEF CountTurn
<1>6. s.final_turn /\ ~(s.final_grace_used >= FINAL_TURN_GRACE) => CountTurn(s) = g
  BY DEF CountTurn
<1>7. ~s.final_turn => CountTurn(s) = u
  BY DEF CountTurn
<1>9. Limited /\ ~f => Limits[s.profile].max_turns \in Nat /\ s.turns + 1 < Limits[s.profile].max_turns
  <2>1. Limited => Limits[s.profile].max_turns \in Nat /\ Limits[s.profile].max_turns # Unlimited
    BY <1>1, AgentAssumption DEF Limited
  <2> QED BY <2>1, <1>1 DEF Reached
<1> HIDE DEF f
<1>10. u \in AgentStates
  BY <1>1, <1>2, Zenon DEF AgentStates
<1>11. /\ u.messages = s.messages /\ u.pending_tools = s.pending_tools /\ u.fx = s.fx
      /\ u.queued_inputs = s.queued_inputs /\ u.next_run = s.next_run /\ u.status = s.status
      /\ u.active_run = s.active_run /\ u.backend_in_flight = s.backend_in_flight
      /\ u.turns = s.turns + 1 /\ u.final_turn = f /\ u.profile = s.profile
      /\ u.switches = s.switches /\ u.final_grace_used = s.final_grace_used
  BY Zenon DEF AgentStates
<1> HIDE DEF g, u
<1>12. ASSUME s.final_turn, ~(s.final_grace_used >= FINAL_TURN_GRACE) PROVE Pays(s, g)
  <2>1. g.turns + g.final_grace_used = (s.turns + s.final_grace_used) + 1
    BY <1>1, <1>4
  <2>2. Within(s) => Within(g)
    BY <1>1, <1>4, <1>12 DEF Within
  <2> QED BY <1>3, <1>4, <2>1, <2>2, SpendOne
<1>13. ASSUME ~s.final_turn PROVE Pays(s, u)
  <2>1. u.turns + u.final_grace_used = (s.turns + s.final_grace_used) + 1
    BY <1>1, <1>11
  <2>2. Limited => Limits[s.profile].max_turns \in Nat
    BY <1>1, AgentAssumption DEF Limited
  <2>3. Limited /\ Within(s) => s.turns + 1 <= Limits[s.profile].max_turns /\ s.final_grace_used = 0
    BY <1>1, <1>13, <2>2 DEF Within
  <2>4. Limited /\ Within(s) => Within(u)
    <3>1. CASE f
      BY <1>1, <1>11, <2>3, <3>1 DEF Within
    <3>2. CASE ~f
      BY <1>1, <1>11, <1>9, <2>3, <3>2 DEF Within
    <3> QED BY <3>1, <3>2
  <2> QED BY <1>10, <1>11, <2>1, <2>4, SpendOne
<1>14. ASSUME Pays(s, g) PROVE Idles(s, g)
  <2>1. Keeps(s, g) /\ Queries(g) = Queries(s) /\ Hangups(g) = Hangups(s) /\ (Finishes(g) <=> Finishes(s))
    BY <1>3, <1>4 DEF Keeps, Queries, Hangups, Drops, Finishes, Extends
  <2>2. \A n \in Nat : Budget(s, n) => Budget(g, n)
    BY <1>3, <1>14, PaysEnough
  <2> QED BY <1>4, <2>1, <2>2 DEF Idles
<1>15. ASSUME Pays(s, u) PROVE Idles(s, u)
  <2>1. Keeps(s, u) /\ Queries(u) = Queries(s) /\ Hangups(u) = Hangups(s) /\ (Finishes(u) <=> Finishes(s))
    BY <1>10, <1>11 DEF Keeps, Queries, Hangups, Drops, Finishes, Extends
  <2>2. \A n \in Nat : Budget(s, n) => Budget(u, n)
    BY <1>10, <1>15, PaysEnough
  <2> QED BY <1>11, <2>1, <2>2 DEF Idles
<1>16. Idles(s, fail(s)) /\ fail(s).active_run = NoRun
  BY FailIdles
<1> QED BY <1>5, <1>6, <1>7, <1>12, <1>13, <1>14, <1>15, <1>16

LEMMA EnterProfileIdles ==
    ASSUME NEW s \in AgentStates, NEW o
    PROVE  Idles(s, enter_profile(s, o))
<1> DEFINE t == [s EXCEPT !.entered = FALSE]
<1>1. t \in AgentStates
  BY Zenon DEF AgentStates
<1>2. Untouched(s, t) /\ t.messages = s.messages /\ t.status = s.status
  BY <1>1, Zenon DEF AgentStates, Untouched
<1>3. enter_profile(s, o) = s \/ enter_profile(s, o) = RunRules(t, "ProfileEntered", o)
  BY DEF enter_profile
<1> HIDE DEF t
<1>4. Idles(s, t)
  BY <1>2, UntouchedIdles
<1>5. Idles(t, RunRules(t, "ProfileEntered", o))
  BY <1>1, RunRulesIdles DEF RuleEvents
<1> QED BY <1>3, <1>4, <1>5, IdlesReflexive, IdlesComposes

LEMMA BeginTurnIdles ==
    ASSUME NEW s \in AgentStates, NEW o
    PROVE  LET t == begin_turn(s, o)
           IN Idles(s, t) /\ (t.active_run # NoRun => Pays(s, t))
<1> DEFINE a == TakePendingProfile(s)
           b == IF a.active_run = NoRun THEN a ELSE enter_profile(a, o)
           c == IF b.active_run = NoRun THEN b ELSE CountTurn(b)
           d == IF c.active_run = NoRun THEN c ELSE RunRules(c, "BeforeModelRequest", o)
<1>1. begin_turn(s, o) = d
  BY DEF begin_turn, IfRunning
<1>2. Idles(s, a) /\ a \in AgentStates
  BY TakePendingProfileIdles, IdlesType
<1> HIDE DEF a
<1>3. Idles(s, b) /\ b \in AgentStates
  <2>1. Idles(a, b)
    BY <1>2, EnterProfileIdles, IdlesReflexive
  <2> QED BY <1>2, <2>1, IdlesComposes, IdlesType
<1> HIDE DEF b
<1>4. Idles(b, c) /\ (c.active_run # NoRun => Pays(b, c)) /\ c \in AgentStates
  BY <1>3, CountTurnIdles, IdlesReflexive, IdlesType
<1> HIDE DEF c
<1>5. Idles(c, d)
  BY <1>4, RunRulesIdles, IdlesReflexive DEF RuleEvents
<1>6. d.active_run # NoRun => c.active_run # NoRun
  BY <1>5 DEF Idles
<1> HIDE DEF d
<1>7. d.active_run # NoRun => Pays(s, d)
  BY <1>3, <1>4, <1>5, <1>6, PaysThenIdles, IdlesThenPays
<1>8. Idles(s, d)
  BY <1>3, <1>4, <1>5, IdlesComposes
<1> QED BY <1>1, <1>7, <1>8

-----------------------------------------------------------------------------
(***************************************************************************)
(* Requests, and the start of a run.                                       *)
(***************************************************************************)
\* s becomes t with one request that has been paid for.
Sends(s, t) ==
    /\ Keeps(s, t)
    /\ t.active_run = s.active_run /\ t.status = s.status
    /\ \E id \in Nat : Queries(t) = Queries(s) \cup {ExecuteBackend(id, s.active_run)}
    /\ Hangups(t) = Hangups(s)
    /\ t.backend_in_flight = TRUE
    /\ Finishes(t) => Finishes(s)
    /\ \A n \in Nat : Budget(s, n) => Budget(t, n)

LEMMA BuildRequestSends ==
    ASSUME NEW s \in AgentStates
    PROVE  Sends(s, build_request(s))
<1> DEFINE u == [s EXCEPT !.backend_in_flight = TRUE, !.next_request = @ + 1]
           x == ExecuteBackend(s.next_request, s.active_run)
           e == <<x>>
           t == With(u, e)
<1>1. s.next_request \in Nat /\ s.next_request + 1 \in Nat /\ s.active_run \in Nat
  BY FieldTypes
<1>2. u \in AgentStates
  BY <1>1, Zenon DEF AgentStates
<1>3. /\ u.messages = s.messages /\ u.pending_tools = s.pending_tools /\ u.fx = s.fx
      /\ u.queued_inputs = s.queued_inputs /\ u.next_run = s.next_run /\ u.status = s.status
      /\ u.active_run = s.active_run /\ u.backend_in_flight = TRUE
      /\ u.turns = s.turns /\ u.final_turn = s.final_turn /\ u.profile = s.profile
      /\ u.switches = s.switches /\ u.final_grace_used = s.final_grace_used
  BY Zenon DEF AgentStates
<1>4. build_request(s) = t
  BY DEF build_request
<1>5. x \in Effects /\ x.kind = "ExecuteBackend"
  BY <1>1, EffectTypes
<1>6. e \in Seq(Effects)
  BY <1>5
<1>7. EffectsIn(e) = {x}
  BY EffectsOfOne
<1> HIDE DEF u, e
<1>8. /\ t \in AgentStates /\ t.messages = u.messages /\ t.status = u.status
      /\ t.pending_tools = u.pending_tools /\ t.queued_inputs = u.queued_inputs
      /\ t.next_run = u.next_run /\ t.active_run = u.active_run
      /\ t.backend_in_flight = u.backend_in_flight /\ t.profile = u.profile
      /\ t.switches = u.switches /\ t.turns = u.turns /\ t.final_turn = u.final_turn
      /\ t.final_grace_used = u.final_grace_used
      /\ EffectsIn(t.fx) = EffectsIn(u.fx) \cup EffectsIn(e) /\ Extends(u, t)
  BY <1>2, <1>6, WithFields
<1> HIDE DEF t
<1>9. EffectsIn(t.fx) = EffectsIn(s.fx) \cup {x}
  BY <1>3, <1>7, <1>8
<1>10. FinishRun.kind = "FinishRun"
  BY EffectTypes
<1>11. Queries(t) = Queries(s) \cup {ExecuteBackend(s.next_request, s.active_run)}
  BY <1>5, <1>9 DEF Queries, OfKind
<1> HIDE DEF x
<1>12. Hangups(t) = Hangups(s)
  BY <1>5, <1>9 DEF Hangups, OfKind
<1>13. Drops(t) = Drops(s)
  BY <1>5, <1>9 DEF Drops, Dropped, OfKind
<1>14. Finishes(t) => Finishes(s)
  BY <1>5, <1>9, <1>10 DEF Finishes
<1>15. \A n \in Nat : Budget(s, n) => Budget(t, n)
  BY <1>3, <1>8, SameBudget
<1>16. Keeps(s, t)
  BY <1>3, <1>8, <1>13 DEF Keeps, Extends
<1>17. t.active_run = s.active_run /\ t.status = s.status /\ t.backend_in_flight = TRUE
  BY <1>3, <1>8
<1> QED BY <1>1, <1>4, <1>11, <1>12, <1>14, <1>15, <1>16, <1>17 DEF Sends

LEMMA IdlesThenSends ==
    ASSUME NEW s, NEW t, NEW u, Idles(s, t), Pays(s, t), t.active_run # NoRun,
           t.status # "Verifying", Sends(t, u)
    PROVE  Inquires(s, u)
<1>1. Keeps(s, u)
  BY KeepsComposes DEF Idles, Sends
<1>2. \A n \in Nat : Budget(s, n) => Budget(u, n + 1)
  BY DEF Pays, Sends
<1>3. t.active_run = s.active_run /\ (Finishes(t) => Finishes(s))
  BY DEF Idles
<1> QED BY <1>1, <1>2, <1>3 DEF Idles, Sends, Inquires

LEMMA StatusIdles ==
    ASSUME NEW s \in AgentStates, NEW status \in Statuses, status # "Verifying",
           NEW event \in Events
    PROVE  LET t == With([s EXCEPT !.status = status], <<Emit(event)>>)
           IN /\ Idles(s, t) /\ t.status = status /\ t.active_run = s.active_run
              /\ t.backend_in_flight = s.backend_in_flight
<1> DEFINE u == [s EXCEPT !.status = status]
           e == <<Emit(event)>>
           t == With(u, e)
<1>1. u \in AgentStates
  BY Zenon DEF AgentStates
<1>2. Untouched(s, u) /\ u.messages = s.messages /\ u.status = status
  BY <1>1, Zenon DEF AgentStates, Untouched
<1>3. e \in Seq(Effects)
  BY EmitsOne
<1> HIDE DEF u, e
<1>4. Idles(s, u)
  BY <1>2, UntouchedIdles
<1>5. Idles(u, t)
  BY <1>1, EmitIdles DEF e
<1>6. t.status = u.status /\ t.active_run = u.active_run /\ t.backend_in_flight = u.backend_in_flight
  BY <1>1, <1>3, WithFields
<1> HIDE DEF t
<1>7. Idles(s, t) /\ t.status = status /\ t.active_run = s.active_run
              /\ t.backend_in_flight = s.backend_in_flight
  BY <1>2, <1>4, <1>5, <1>6, IdlesComposes DEF Untouched
<1> QED BY <1>7 DEF t, e, u

LEMMA RequestTurnInquires ==
    ASSUME NEW s \in AgentStates, NEW status \in Statuses, status # "Verifying", NEW o
    PROVE  LET t == RequestTurn(s, status, o)
           IN (Idles(s, t) /\ t.active_run = NoRun) \/ Inquires(s, t)
<1> DEFINE b == begin_turn(s, o)
           c == With([b EXCEPT !.status = status], <<Emit("StateChanged")>>)
           t == build_request(c)
<1>1. Idles(s, b) /\ (b.active_run # NoRun => Pays(s, b)) /\ b \in AgentStates
  BY BeginTurnIdles, IdlesType
<1>2. RequestTurn(s, status, o) = IF b.active_run = NoRun THEN b ELSE t
  BY DEF RequestTurn, IfRunning
<1> HIDE DEF b
<1>3. Idles(b, c) /\ c.status = status /\ c.active_run = b.active_run /\ c \in AgentStates
  BY <1>1, StatusIdles, IdlesType DEF Events
<1> HIDE DEF c
<1>4. Sends(c, t)
  BY <1>3, BuildRequestSends
<1> HIDE DEF t
<1>5. b.active_run # NoRun => Inquires(s, t)
  BY <1>1, <1>3, <1>4, IdlesComposes, PaysThenIdles, IdlesThenSends
<1> QED BY <1>1, <1>2, <1>5

LEMMA ContinueAfterToolsMoves ==
    ASSUME NEW s \in AgentStates, NEW o
    PROVE  Moves(s, continue_after_tools(s, o))
<1>1. "WaitingForBackend" \in Statuses /\ "WaitingForBackend" # "Verifying"
  BY DEF Statuses
<1>2. \/ continue_after_tools(s, o) = s
      \/ /\ ~s.backend_in_flight
         /\ continue_after_tools(s, o) = RequestTurn(s, "WaitingForBackend", o)
  BY DEF continue_after_tools
<1>3. LET t == RequestTurn(s, "WaitingForBackend", o) IN Idles(s, t) \/ Inquires(s, t)
  BY <1>1, RequestTurnInquires
<1> QED BY <1>2, <1>3, IdlesReflexive DEF Moves

\* u is s with a new run of which nothing has been asked yet.
Opens(s, u) ==
    /\ u \in AgentStates /\ Extends(s, u)
    /\ CallsIn(u.messages) = CallsIn(s.messages) /\ Answers(u.messages) = Answers(s.messages)
    /\ u.pending_tools = s.pending_tools /\ u.queued_inputs = s.queued_inputs
    /\ u.next_run = s.next_run + 1 /\ u.active_run = s.next_run
    /\ u.status = "PreparingContext"
    /\ Drops(u) = Drops(s) /\ Queries(u) = Queries(s) /\ Hangups(u) = Hangups(s)
    /\ Finishes(u) => Finishes(s)
    /\ Budget(u, 0)

\* s becomes t by refusing an input, or by starting a run for it, which may fail at once.
Begins(s, t) ==
    \/ Idles(s, t) /\ t.active_run = NoRun
    \/ \E u : Opens(s, u) /\ ((Idles(u, t) /\ t.active_run = NoRun) \/ Inquires(u, t))

LEMMA FreshBudget ==
    ASSUME NEW s \in AgentStates, s.turns = 0, s.final_turn = FALSE, s.final_grace_used = 0,
           s.switches = 0
    PROVE  Budget(s, 0)
<1>1. s.profile \in Profiles
  BY FieldTypes
<1>2. ASSUME Limited PROVE Within(s) /\ Paid(s, 0)
  <2>1. Limits[s.profile].max_turns \in Nat \ {0}
    BY <1>1, <1>2, AgentAssumption DEF Limited
  <2>2. MostRequests(s.profile) \in Nat
    BY <1>1, <1>2, MostType
  <2>3. 0 <= s.switches * MostRequests(s.profile) + (s.turns + s.final_grace_used)
    BY <2>2
  <2>4. Within(s)
    BY <2>1 DEF Within
  <2> QED BY <1>1, <2>3, <2>4 DEF Paid
<1> QED BY <1>2 DEF Budget

LEMMA StartedOpens ==
    ASSUME NEW s \in AgentStates, s.active_run = NoRun
    PROVE  LET reset == ResetRun(TakePendingProfile(s))
           IN Opens(s, [reset EXCEPT !.messages = Append(@, UserMessage),
                                     !.status = "PreparingContext",
                                     !.active_run = reset.next_run,
                                     !.next_run = @ + 1])
<1> DEFINE p == TakePendingProfile(s)
           r == ResetRun(p)
           m == Append(r.messages, UserMessage)
           u == [r EXCEPT !.messages = m, !.status = "PreparingContext",
                          !.active_run = r.next_run, !.next_run = @ + 1]
<1>1. Idles(s, p) /\ p \in AgentStates /\ (Finishes(p) => Finishes(s))
  BY TakePendingProfileIdles, TakePendingProfileFinishes, IdlesType
<1> HIDE DEF p
<1>2. 0 \in Nat
  OBVIOUS
<1>3. r \in AgentStates
  BY <1>1, <1>2, Zenon DEF AgentStates, ResetRun
<1>4. /\ r.messages = p.messages /\ r.pending_tools = p.pending_tools /\ r.fx = p.fx
      /\ r.queued_inputs = p.queued_inputs /\ r.next_run = p.next_run
      /\ r.turns = 0 /\ r.final_turn = FALSE /\ r.final_grace_used = 0 /\ r.switches = 0
  BY <1>1, Zenon DEF AgentStates, ResetRun
<1> HIDE DEF r
<1>5. r.messages \in Seq(Messages) /\ UserMessage \in Messages /\ UserMessage.block = "Text"
  BY <1>3, FieldTypes, MessageTypes DEF UserMessage
<1>6. /\ m \in Seq(Messages) /\ CallsIn(m) = CallsIn(r.messages)
      /\ Answers(m) = Answers(r.messages)
  <2>1. m \in Seq(Messages)
    BY <1>5
  <2>2. CallsOf(m, "ToolUse") = CallsOf(r.messages, "ToolUse")
    BY <1>5, AppendCallsOf
  <2>3. CallsOf(m, "ToolResult") = CallsOf(r.messages, "ToolResult")
    BY <1>5, AppendCallsOf
  <2> HIDE DEF m
  <2> QED BY <2>1, <2>2, <2>3, <1>5, CallsInOf DEF Answers
<1> HIDE DEF m
<1>7. r.next_run \in Nat /\ r.next_run + 1 \in Nat /\ "PreparingContext" \in Statuses
  BY <1>3, FieldTypes DEF Statuses
<1>8. u \in AgentStates
  BY <1>3, <1>6, <1>7, Zenon DEF AgentStates
<1>9. /\ u.messages = m /\ u.pending_tools = r.pending_tools /\ u.fx = r.fx
      /\ u.queued_inputs = r.queued_inputs /\ u.next_run = r.next_run + 1
      /\ u.active_run = r.next_run /\ u.status = "PreparingContext"
      /\ u.turns = r.turns /\ u.final_turn = r.final_turn
      /\ u.final_grace_used = r.final_grace_used /\ u.switches = r.switches
  BY <1>3, Zenon DEF AgentStates
<1> HIDE DEF u
<1>10. Budget(u, 0)
  BY <1>4, <1>8, <1>9, FreshBudget
<1>11. /\ Drops(u) = Drops(p) /\ Queries(u) = Queries(p) /\ Hangups(u) = Hangups(p)
       /\ Finishes(u) <=> Finishes(p)
  BY <1>4, <1>9 DEF Drops, Queries, Hangups, Finishes
<1>12. Opens(s, u)
  BY <1>1, <1>4, <1>6, <1>8, <1>9, <1>10, <1>11 DEF Opens, Idles, Keeps, Extends
<1> QED BY <1>12 DEF u, m, r, p

LEMMA InquiresThenIdles ==
    ASSUME NEW s, NEW t, NEW u, Inquires(s, t), Idles(t, u), u.active_run # NoRun,
           t.backend_in_flight = u.backend_in_flight, t.status = u.status
    PROVE  Inquires(s, u)
<1>1. Keeps(s, u)
  BY KeepsComposes DEF Idles, Inquires
<1>2. \A n \in Nat : Budget(s, n) => Budget(u, n + 1)
  BY DEF Idles, Inquires
<1>3. u.active_run = t.active_run /\ (Finishes(u) => Finishes(t))
  BY DEF Idles
<1> QED BY <1>1, <1>2, <1>3 DEF Idles, Inquires

LEMMA StartRunBegins ==
    ASSUME NEW s \in AgentStates, s.active_run = NoRun, NEW input, NEW o
    PROVE  Begins(s, start_run(s, input, o))
<1> DEFINE reset == ResetRun(TakePendingProfile(s))
           u == [reset EXCEPT !.messages = Append(@, UserMessage), !.status = "PreparingContext",
                              !.active_run = reset.next_run, !.next_run = @ + 1]
           r == RunRules(u, "RunStart", o)
           q == IF r.active_run = NoRun THEN r ELSE RequestTurn(r, "PreparingContext", o)
           e == <<Emit("RunStarted")>>
           t == IF q.active_run = NoRun THEN q ELSE With(q, e)
<1>1. start_run(s, input, o) \in {fail(s), t}
  BY DEF start_run, IfRunning
<1>2. Begins(s, fail(s))
  BY FailIdles DEF Begins
<1>3. Opens(s, u) /\ u \in AgentStates
  BY StartedOpens DEF Opens, Extends
<1> HIDE DEF u
<1>4. Idles(u, r) /\ r \in AgentStates
  BY <1>3, RunRulesIdles, IdlesType DEF RuleEvents
<1> HIDE DEF r
<1>5. (Idles(u, q) /\ q.active_run = NoRun) \/ Inquires(u, q)
  <2>1. "PreparingContext" \in Statuses /\ "PreparingContext" # "Verifying"
    BY DEF Statuses
  <2>2. LET x == RequestTurn(r, "PreparingContext", o)
        IN (Idles(r, x) /\ x.active_run = NoRun) \/ Inquires(r, x)
    BY <1>4, <2>1, RequestTurnInquires
  <2> QED BY <1>4, <2>2, IdlesComposes, IdlesThenInquires
<1> HIDE DEF q
<1>6. q \in AgentStates
  BY <1>5 DEF Idles, Inquires, Keeps, Extends
<1>7. e \in Seq(Effects)
  BY EmitsOne DEF Events
<1>8. Idles(q, With(q, e))
  BY <1>6, EmitIdles DEF Events
<1> HIDE DEF e
<1>9. /\ With(q, e).active_run = q.active_run /\ With(q, e).status = q.status
      /\ With(q, e).backend_in_flight = q.backend_in_flight
  BY <1>6, <1>7, WithFields
<1>10. (Idles(u, t) /\ t.active_run = NoRun) \/ Inquires(u, t)
  BY <1>5, <1>8, <1>9, InquiresThenIdles
<1> HIDE DEF t
<1>11. Begins(s, t)
  BY <1>3, <1>10 DEF Begins
<1> QED BY <1>1, <1>2, <1>11

\* s and u differ in the queue at most.
Requeues(s, u) ==
    /\ u \in AgentStates
    /\ u.messages = s.messages /\ u.status = s.status /\ u.pending_tools = s.pending_tools
    /\ u.next_run = s.next_run /\ u.fx = s.fx /\ u.active_run = s.active_run
    /\ u.backend_in_flight = s.backend_in_flight /\ u.profile = s.profile
    /\ u.switches = s.switches /\ u.turns = s.turns /\ u.final_turn = s.final_turn
    /\ u.final_grace_used = s.final_grace_used

LEMMA RequeueIsOne ==
    ASSUME NEW s \in AgentStates, NEW queue \in Seq(Inputs)
    PROVE  LET u == [s EXCEPT !.queued_inputs = queue]
           IN Requeues(s, u) /\ u.queued_inputs = queue
<1> DEFINE u == [s EXCEPT !.queued_inputs = queue]
<1>1. u \in AgentStates
  BY Zenon DEF AgentStates
<1>2. u.queued_inputs = queue
  BY Zenon DEF AgentStates
<1>3. Requeues(s, u)
  BY <1>1, Zenon DEF AgentStates, Requeues
<1> QED BY <1>2, <1>3

LEMMA StartOrQueueBegins ==
    ASSUME NEW s \in AgentStates, NEW input \in Inputs, NEW o
    PROVE  LET t == start_or_queue(s, input, o)
           IN \/ /\ s.active_run # NoRun
                 /\ Requeues(s, t) /\ t.queued_inputs = Append(s.queued_inputs, input)
              \/ s.active_run = NoRun /\ Begins(s, t)
<1>1. s.active_run # NoRun =>
        start_or_queue(s, input, o) = [s EXCEPT !.queued_inputs = Append(s.queued_inputs, input)]
  BY DEF start_or_queue
<1>2. s.active_run = NoRun => start_or_queue(s, input, o) = start_run(s, input, o)
  BY DEF start_or_queue
<1>3. Append(s.queued_inputs, input) \in Seq(Inputs)
  BY FieldTypes
<1>4. s.active_run = NoRun => Begins(s, start_run(s, input, o))
  BY StartRunBegins
<1> QED BY <1>1, <1>2, <1>3, <1>4, RequeueIsOne

LEMMA StartNextQueuedRunBegins ==
    ASSUME NEW s \in AgentStates, s.active_run = NoRun, NEW o
    PROVE  LET t == start_next_queued_run(s, o)
           IN \/ t = s
              \/ /\ s.queued_inputs # <<>>
                 /\ \E u : /\ Requeues(s, u) /\ u.queued_inputs = Tail(s.queued_inputs)
                           /\ Begins(u, t)
<1>1. CASE s.queued_inputs = <<>>
  BY <1>1 DEF start_next_queued_run
<1>2. CASE s.queued_inputs # <<>>
  <2> DEFINE u == [s EXCEPT !.queued_inputs = Tail(s.queued_inputs)]
  <2>1. Tail(s.queued_inputs) \in Seq(Inputs)
    BY <1>2, FieldTypes
  <2>2. start_next_queued_run(s, o) = start_run(u, Head(s.queued_inputs), o)
    BY <1>2 DEF start_next_queued_run
  <2>3. Requeues(s, u) /\ u.queued_inputs = Tail(s.queued_inputs)
    BY <2>1, RequeueIsOne
  <2> HIDE DEF u
  <2>4. Begins(u, start_run(u, Head(s.queued_inputs), o))
    BY <2>3, StartRunBegins DEF Requeues
  <2> QED BY <1>2, <2>2, <2>3, <2>4
<1> QED BY <1>1, <1>2

-----------------------------------------------------------------------------
(***************************************************************************)
(* Calls: their results, requests and prompts.                             *)
(***************************************************************************)
\* u is s with the result of c.
Answered(s, u, c) ==
    /\ u \in AgentStates /\ Extends(s, u)
    /\ CallsIn(u.messages) = CallsIn(s.messages)
    /\ Answers(u.messages) = Answers(s.messages) \cup {c}
    /\ u.pending_tools = s.pending_tools \ {c}
    /\ u.queued_inputs = s.queued_inputs /\ u.next_run = s.next_run
    /\ u.active_run = s.active_run /\ u.backend_in_flight = s.backend_in_flight
    /\ u.status = "Verifying" => s.status = "Verifying"
    /\ Drops(u) = Drops(s) /\ Queries(u) = Queries(s) /\ Hangups(u) = Hangups(s)
    /\ Finishes(u) => Finishes(s) \/ u.active_run = NoRun
    /\ \A n \in Nat : Budget(s, n) => Budget(u, n)

Replies(s, t, c) == \E u : Answered(s, u, c) /\ Moves(u, t)

LEMMA NextAfterResultMoves ==
    ASSUME NEW s \in AgentStates, NEW stop, NEW o
    PROVE  Moves(s, next_after_result(s, stop, o))
<1> DEFINE t == [s EXCEPT !.timeouts = 0]
<1>1. t \in AgentStates
  <2>1. 0 \in Nat
    OBVIOUS
  <2> QED BY <2>1, Zenon DEF AgentStates
<1>2. Untouched(s, t) /\ t.messages = s.messages /\ t.status = s.status
  BY <1>1, Zenon DEF AgentStates, Untouched
<1>3. next_after_result(s, stop, o) \in {fail(s), fail(t), continue_after_tools(s, o)}
  BY DEF next_after_result
<1> HIDE DEF t
<1>4. Idles(s, t)
  BY <1>2, UntouchedIdles
<1>5. Idles(s, fail(s)) /\ Idles(s, fail(t))
  BY <1>1, <1>4, FailIdles, IdlesComposes
<1>6. Moves(s, continue_after_tools(s, o))
  BY ContinueAfterToolsMoves
<1> QED BY <1>3, <1>5, <1>6 DEF Moves

LEMMA RecordToolResultReplies ==
    ASSUME NEW s \in AgentStates, NEW c \in ToolCalls, c \notin s.pending_tools,
           NEW executed, NEW o
    PROVE  Replies(s, record_tool_result(s, c, executed, o), c)
<1> DEFINE outcome == IF executed THEN evaluate(s, "PostToolUse", o) ELSE Quiet
           t == apply_rule_outcome(s, outcome)
           msg == ToolResultMessage(c, "recorded")
           m == Append(t.messages, msg)
           v == [t EXCEPT !.messages = m]
           e == <<Emit("ToolCallCompleted")>>
           u == With(v, e)
<1>1. outcome \in Outcome
  BY EvaluateType DEF RuleEvents, Quiet, Outcome
<1>2. record_tool_result(s, c, executed, o) = next_after_result(u, outcome.stop, o)
  BY DEF record_tool_result
<1> HIDE DEF outcome
<1>3. /\ Idles(s, t) /\ t \in AgentStates /\ t.active_run = s.active_run
      /\ t.backend_in_flight = s.backend_in_flight
  BY <1>1, ApplyRuleOutcomeIdles, IdlesType
<1> HIDE DEF t
<1>4. msg \in Messages /\ msg.block = "ToolResult" /\ msg.call = c
  BY MessageTypes DEF ToolResultMessage, Messages, Roles, Outcomes
<1>5. t.messages \in Seq(Messages)
  BY <1>3, FieldTypes
<1> HIDE DEF msg
<1>6. m \in Seq(Messages)
  BY <1>4, <1>5
<1>7. CallsOf(m, "ToolUse") = CallsOf(t.messages, "ToolUse")
  BY <1>4, <1>5, AppendCallsOf
<1>8. CallsOf(m, "ToolResult") = CallsOf(t.messages, "ToolResult") \cup {c}
  BY <1>4, <1>5, AppendCallsOf
<1> HIDE DEF m
<1>9. CallsIn(m) = CallsIn(t.messages) /\ Answers(m) = Answers(t.messages) \cup {c}
  BY <1>5, <1>6, <1>7, <1>8, CallsInOf DEF Answers
<1>10. v \in AgentStates
  BY <1>3, <1>6, Zenon DEF AgentStates
<1>11. Untouched(t, v) /\ v.messages = m /\ v.status = t.status
  BY <1>3, <1>10, Zenon DEF AgentStates, Untouched
<1>12. e \in Seq(Effects)
  BY EmitsOne DEF Events
<1>13. Idles(v, u)
  BY <1>10, EmitIdles DEF Events
<1> HIDE DEF v, e
<1>14. u.active_run = v.active_run /\ u.backend_in_flight = v.backend_in_flight /\ u.status = v.status
  BY <1>10, <1>12, WithFields
<1> HIDE DEF u
<1>15. u \in AgentStates
  BY <1>13, IdlesType
<1>16. /\ Queries(v) = Queries(t) /\ Hangups(v) = Hangups(t) /\ (Finishes(v) <=> Finishes(t))
       /\ Drops(v) = Drops(t)
  BY <1>11 DEF Untouched, Queries, Hangups, Drops, Finishes
<1>17. \A n \in Nat : Budget(t, n) => Budget(v, n)
  BY <1>11, SameBudget DEF Untouched
<1>18. \A n \in Nat : Budget(s, n) => Budget(u, n)
  BY <1>3, <1>13, <1>17 DEF Idles
<1>19. /\ CallsIn(u.messages) = CallsIn(s.messages)
       /\ Answers(u.messages) = Answers(s.messages) \cup {c}
  BY <1>3, <1>9, <1>11, <1>13 DEF Idles, Keeps, Extends
<1>20. /\ u.pending_tools = s.pending_tools /\ u.queued_inputs = s.queued_inputs
       /\ u.next_run = s.next_run /\ Drops(u) = Drops(s) /\ Extends(s, u)
  BY <1>3, <1>11, <1>13, <1>16 DEF Idles, Keeps, Untouched, Extends
<1>21. Queries(u) = Queries(s) /\ Hangups(u) = Hangups(s)
  BY <1>3, <1>13, <1>16 DEF Idles
<1>22. u.active_run = s.active_run /\ u.backend_in_flight = s.backend_in_flight
  BY <1>3, <1>11, <1>14 DEF Untouched
<1>23. u.status = "Verifying" => s.status = "Verifying"
  BY <1>3, <1>11, <1>14 DEF Idles
<1>24. Finishes(u) => Finishes(s) \/ u.active_run = NoRun
  BY <1>3, <1>13, <1>16, <1>22 DEF Idles
<1>25. Answered(s, u, c)
  BY <1>15, <1>18, <1>19, <1>20, <1>21, <1>22, <1>23, <1>24 DEF Answered
<1> QED BY <1>2, <1>15, <1>25, NextAfterResultMoves DEF Replies

LEMMA SettleReplies ==
    ASSUME NEW s \in AgentStates, NEW c \in ToolCalls, NEW k \in Nat, NEW executed, NEW o
    PROVE  Replies(s, record_tool_result([Settle(s, c) EXCEPT !.timeouts = k], c, executed, o), c)
<1> DEFINE r == Settle(s, c)
           v == [r EXCEPT !.timeouts = k]
           t == record_tool_result(v, c, executed, o)
<1>1. s.pending_tools \ {c} \in SUBSET ToolCalls /\ s.pending_permissions \ {c} \in SUBSET ToolCalls
  BY FieldTypes
<1>2. r \in AgentStates
  BY <1>1, Zenon DEF AgentStates, Settle
<1>3. /\ r.messages = s.messages /\ r.pending_tools = s.pending_tools \ {c} /\ r.fx = s.fx
      /\ r.queued_inputs = s.queued_inputs /\ r.next_run = s.next_run /\ r.status = s.status
      /\ r.active_run = s.active_run /\ r.backend_in_flight = s.backend_in_flight
      /\ r.turns = s.turns /\ r.final_turn = s.final_turn /\ r.profile = s.profile
      /\ r.switches = s.switches /\ r.final_grace_used = s.final_grace_used
  BY Zenon DEF AgentStates, Settle
<1> HIDE DEF r
<1>4. v \in AgentStates
  BY <1>2, Zenon DEF AgentStates
<1>5. /\ v.messages = r.messages /\ v.pending_tools = r.pending_tools /\ v.fx = r.fx
      /\ v.queued_inputs = r.queued_inputs /\ v.next_run = r.next_run /\ v.status = r.status
      /\ v.active_run = r.active_run /\ v.backend_in_flight = r.backend_in_flight
      /\ v.turns = r.turns /\ v.final_turn = r.final_turn /\ v.profile = r.profile
      /\ v.switches = r.switches /\ v.final_grace_used = r.final_grace_used
  BY <1>2, Zenon DEF AgentStates
<1> HIDE DEF v
<1>6. c \notin v.pending_tools
  BY <1>3, <1>5
<1>7. PICK u : Answered(v, u, c) /\ Moves(u, t)
  BY <1>4, <1>6, RecordToolResultReplies DEF Replies
<1>8. /\ Queries(v) = Queries(s) /\ Hangups(v) = Hangups(s) /\ (Finishes(v) <=> Finishes(s))
      /\ Drops(v) = Drops(s)
  BY <1>3, <1>5 DEF Queries, Hangups, Drops, Finishes
<1>9. \A n \in Nat : Budget(s, n) => Budget(v, n)
  BY <1>3, <1>5, SameBudget
<1>10. u.pending_tools = s.pending_tools \ {c}
  BY <1>3, <1>5, <1>7 DEF Answered, Extends
<1>11. \A n \in Nat : Budget(s, n) => Budget(u, n)
  BY <1>7, <1>9 DEF Answered, Extends
<1>12. Answered(s, u, c)
  BY <1>3, <1>5, <1>7, <1>8, <1>10, <1>11 DEF Answered, Extends
<1>13. Replies(s, t, c)
  BY <1>7, <1>12 DEF Replies
<1> QED BY <1>13 DEF v, r

LEMMA ToolCompletedReplies ==
    ASSUME NEW s \in AgentStates, NEW c \in ToolCalls, NEW o
    PROVE  LET t == tool_completed(s, c, o)
           IN t = s \/ (c \in s.pending_tools /\ Replies(s, t, c))
<1>1. c \in s.pending_tools =>
        tool_completed(s, c, o) = record_tool_result([Settle(s, c) EXCEPT !.timeouts = 0], c, TRUE, o)
  BY DEF tool_completed
<1>2. c \notin s.pending_tools => tool_completed(s, c, o) = s
  BY DEF tool_completed
<1> DEFINE executed == TRUE
<1> HIDE DEF executed
<1>3. Replies(s, record_tool_result([Settle(s, c) EXCEPT !.timeouts = 0], c, executed, o), c)
  BY SettleReplies
<1> QED BY <1>1, <1>2, <1>3 DEF executed

LEMMA ToolFailedReplies ==
    ASSUME NEW s \in AgentStates, NEW c \in ToolCalls, NEW error, NEW o
    PROVE  LET t == tool_failed(s, c, error, o)
           IN \/ c \notin s.pending_tools /\ t = s
              \/ c \in s.pending_tools /\ Replies(s, t, c)
<1> DEFINE k == IF error = "Timeout" THEN s.timeouts + 1 ELSE 0
           executed == error # "Denied"
<1>1. k \in Nat
  BY FieldTypes
<1>2. Settle(s, c).timeouts = s.timeouts
  BY Zenon DEF AgentStates, Settle
<1>3. c \in s.pending_tools =>
        tool_failed(s, c, error, o)
          = record_tool_result([Settle(s, c) EXCEPT !.timeouts = k], c, executed, o)
  BY <1>2 DEF tool_failed
<1>4. c \notin s.pending_tools => tool_failed(s, c, error, o) = s
  BY DEF tool_failed
<1> HIDE DEF k, executed
<1>5. Replies(s, record_tool_result([Settle(s, c) EXCEPT !.timeouts = k], c, executed, o), c)
  BY <1>1, SettleReplies
<1> QED BY <1>3, <1>4, <1>5

\* u is s with the call c asked for.
Declares(s, u, c) ==
    /\ u \in AgentStates
    /\ CallsIn(u.messages) = CallsIn(s.messages) \cup {c}
    /\ Answers(u.messages) = Answers(s.messages)
    /\ u.pending_tools = s.pending_tools \cup {c}
    /\ u.queued_inputs = s.queued_inputs /\ u.next_run = s.next_run
    /\ u.active_run = s.active_run /\ u.backend_in_flight = s.backend_in_flight
    /\ u.status = s.status
    /\ Drops(u) = Drops(s) /\ Queries(u) = Queries(s) /\ Hangups(u) = Hangups(s)
    /\ Finishes(u) => Finishes(s)
    /\ \A n \in Nat : Budget(s, n) => Budget(u, n)

LEMMA RecordToolRequestDeclares ==
    ASSUME NEW s \in AgentStates, NEW c \in ToolCalls
    PROVE  Declares(s, record_tool_request(s, c), c)
<1> DEFINE msg == ToolUseMessage(c)
           m == push_tool_use(s.messages, c)
           x == s.pending_tools \cup {c}
           v == [s EXCEPT !.messages = m, !.pending_tools = x]
           e == <<Emit("ToolCallRequested")>>
           u == With(v, e)
<1>1. record_tool_request(s, c) = u
  BY DEF record_tool_request
<1>2. msg \in Messages /\ msg.block = "ToolUse" /\ msg.call = c
  BY DEF ToolUseMessage, Messages, Roles, Outcomes
<1>3. s.messages \in Seq(Messages) /\ x \in SUBSET ToolCalls
  BY FieldTypes
<1>4. m = FillOrAppend(s.messages, msg)
  BY DEF push_tool_use
<1> HIDE DEF msg, m
<1>5. m \in Seq(Messages)
  BY <1>2, <1>3, <1>4, FillOrAppendCalls
<1>6. CallsOf(m, "ToolUse") = CallsOf(s.messages, "ToolUse") \cup {c}
  BY <1>2, <1>3, <1>4, FillCallsOf
<1>7. CallsOf(m, "ToolResult") = CallsOf(s.messages, "ToolResult")
  BY <1>2, <1>3, <1>4, FillCallsOf
<1>8. CallsIn(m) = CallsIn(s.messages) \cup {c} /\ Answers(m) = Answers(s.messages)
  BY <1>3, <1>5, <1>6, <1>7, CallsInOf DEF Answers
<1> HIDE DEF x
<1>9. v \in AgentStates
  BY <1>3, <1>5, Zenon DEF AgentStates
<1>10. /\ v.messages = m /\ v.pending_tools = x /\ v.fx = s.fx
      /\ v.queued_inputs = s.queued_inputs /\ v.next_run = s.next_run /\ v.status = s.status
      /\ v.active_run = s.active_run /\ v.backend_in_flight = s.backend_in_flight
      /\ v.turns = s.turns /\ v.final_turn = s.final_turn /\ v.profile = s.profile
      /\ v.switches = s.switches /\ v.final_grace_used = s.final_grace_used
  BY Zenon DEF AgentStates
<1>11. e \in Seq(Effects)
  BY EmitsOne DEF Events
<1> HIDE DEF v
<1>12. Idles(v, u)
  BY <1>9, EmitIdles DEF Events
<1>13. EffectsIn(e) = {Emit("ToolCallRequested")} /\ Emit("ToolCallRequested").kind = "Emit"
  BY EffectsOfOne, EffectTypes DEF Events
<1> HIDE DEF e
<1>14. /\ u.active_run = v.active_run /\ u.backend_in_flight = v.backend_in_flight
       /\ u.status = v.status /\ EffectsIn(u.fx) = EffectsIn(v.fx) \cup EffectsIn(e)
  BY <1>9, <1>11, WithFields
<1> HIDE DEF u
<1>15. /\ Queries(v) = Queries(s) /\ Hangups(v) = Hangups(s) /\ Drops(v) = Drops(s)
  BY <1>10 DEF Queries, Hangups, Drops
<1>16. Finishes(u) => Finishes(s)
  <2>1. FinishRun.kind = "FinishRun"
    BY EffectTypes
  <2> QED BY <2>1, <1>10, <1>13, <1>14 DEF Finishes
<1>17. \A n \in Nat : Budget(s, n) => Budget(v, n)
  BY <1>10, SameBudget
<1>18. \A n \in Nat : Budget(s, n) => Budget(u, n)
  BY <1>12, <1>17 DEF Idles
<1>19. Declares(s, u, c)
  BY <1>8, <1>10, <1>12, <1>14, <1>15, <1>16, <1>18 DEF Declares, Idles, Keeps, x, Extends
<1> QED BY <1>1, <1>19

LEMMA ExecuteNowIdles ==
    ASSUME NEW s \in AgentStates, NEW c \in ToolCalls
    PROVE  Idles(s, execute_now(s, c))
<1> DEFINE u == [s EXCEPT !.status = "Executing"]
           e == <<Emit("StateChanged"), ExecuteTool(c)>>
<1>1. "Executing" \in Statuses /\ "Executing" # "Verifying"
  BY DEF Statuses
<1>2. u \in AgentStates
  BY <1>1, Zenon DEF AgentStates
<1>3. Untouched(s, u) /\ u.messages = s.messages /\ u.status = "Executing"
  BY <1>2, Zenon DEF AgentStates, Untouched
<1>4. execute_now(s, c) = With(u, e)
  BY DEF execute_now
<1>5. /\ Emit("StateChanged") \in Effects /\ Emit("StateChanged").kind = "Emit"
      /\ ExecuteTool(c) \in Effects /\ ExecuteTool(c).kind = "ExecuteTool"
  <2>1. ExecuteTool(c).kind = "ExecuteTool"
    BY DEF ExecuteTool
  <2> QED BY <2>1, EffectTypes DEF Events
<1>6. e \in Seq(Effects)
  BY <1>5
<1>7. EffectsIn(e) = {Emit("StateChanged"), ExecuteTool(c)}
  BY EffectsOfTwo
<1> HIDE DEF u, e
<1>8. \A x \in EffectsIn(e) :
         /\ x.kind \notin {"ExecuteBackend", "CancelBackend", "CancelTools"}
         /\ x.kind = "FinishRun" => u.active_run = NoRun
  BY <1>5, <1>7
<1>9. Idles(u, With(u, e))
  BY <1>2, <1>6, <1>8, WithIdles
<1>10. Idles(s, u)
  BY <1>1, <1>3, UntouchedIdles
<1> QED BY <1>4, <1>9, <1>10, IdlesComposes

LEMMA AskPermissionIdles ==
    ASSUME NEW s \in AgentStates, NEW c \in ToolCalls
    PROVE  Idles(s, ask_permission(s, c))
<1> DEFINE x == s.pending_permissions \cup {c}
           u == [s EXCEPT !.status = "WaitingForPermission", !.pending_permissions = x]
<1>1. "WaitingForPermission" \in Statuses /\ "WaitingForPermission" # "Verifying"
  BY DEF Statuses
<1>2. x \in SUBSET ToolCalls
  BY FieldTypes
<1>3. ask_permission(s, c) = With(u, <<Emit("PermissionRequested")>>)
  BY DEF ask_permission
<1> HIDE DEF x
<1>4. u \in AgentStates
  BY <1>1, <1>2, Zenon DEF AgentStates
<1>5. Untouched(s, u) /\ u.messages = s.messages /\ u.status = "WaitingForPermission"
  BY <1>4, Zenon DEF AgentStates, Untouched
<1> HIDE DEF u
<1>6. Idles(u, With(u, <<Emit("PermissionRequested")>>))
  BY <1>4, EmitIdles DEF Events
<1>7. Idles(s, u)
  BY <1>1, <1>5, UntouchedIdles
<1> QED BY <1>3, <1>6, <1>7, IdlesComposes

\* What admitting the pending call c can come to.
Handles(s, t, c) ==
    \/ Idles(s, t)
    \/ Replies(s, t, c)
    \/ \E v : Replies(s, v, c) /\ Idles(v, t)

LEMMA AdmitToHandles ==
    ASSUME NEW s \in AgentStates, NEW c \in ToolCalls, c \in s.pending_tools, NEW mode, NEW o
    PROVE  Handles(s, AdmitTo(s, c, mode, o), c)
<1> DEFINE t == [s EXCEPT !.tool_calls = @ + 1]
<1>1. s.tool_calls + 1 \in Nat
  BY FieldTypes
<1>2. t \in AgentStates
  BY <1>1, Zenon DEF AgentStates
<1>3. Untouched(s, t) /\ t.messages = s.messages /\ t.status = s.status
  BY <1>2, Zenon DEF AgentStates, Untouched
<1>4. AdmitTo(s, c, mode, o) \in {tool_failed(s, c, "Denied", o), ask_permission(t, c), execute_now(t, c)}
  BY DEF AdmitTo
<1> HIDE DEF t
<1>5. Idles(s, t)
  BY <1>3, UntouchedIdles
<1>6. Idles(s, ask_permission(t, c)) /\ Idles(s, execute_now(t, c))
  BY <1>2, <1>5, AskPermissionIdles, ExecuteNowIdles, IdlesComposes
<1>7. Replies(s, tool_failed(s, c, "Denied", o), c)
  BY ToolFailedReplies
<1> QED BY <1>4, <1>6, <1>7 DEF Handles

LEMMA ToolRequestedHandles ==
    ASSUME NEW s \in AgentStates, NEW c \in ToolCalls, NEW o
    PROVE  \E u, v : /\ Declares(s, u, c) /\ Idles(u, v)
                     /\ v.backend_in_flight = u.backend_in_flight
                     /\ c \in v.pending_tools
                     /\ Handles(v, tool_requested(s, c, o), c)
<1> DEFINE u == record_tool_request(s, c)
           outcome == evaluate(s, "PreToolUse", o)
           v == apply_rule_outcome(u, outcome)
           d == tool_failed(u, c, "Denied", o)
           x == tool_failed(v, c, "Denied", o)
           y == AdmitTo(v, c, approval_for(s, c, outcome.decision), o)
           t == tool_requested(s, c, o)
<1>1. t \in {d, fail(x), y}
  BY DEF tool_requested
<1>2. Declares(s, u, c) /\ u \in AgentStates
  BY RecordToolRequestDeclares DEF Declares
<1>3. outcome \in Outcome
  BY EvaluateType DEF RuleEvents
<1> HIDE DEF u
<1>4. Idles(u, v) /\ v \in AgentStates /\ v.backend_in_flight = u.backend_in_flight
  BY <1>2, <1>3, ApplyRuleOutcomeIdles, IdlesType
<1>5. c \in u.pending_tools /\ c \in v.pending_tools
  BY <1>2, <1>4 DEF Declares, Idles, Keeps, Extends
<1> HIDE DEF v, outcome, t
<1>6. Replies(u, d, c) /\ Replies(v, x, c)
  BY <1>2, <1>4, <1>5, ToolFailedReplies
<1>7. Handles(v, y, c)
  BY <1>4, <1>5, AdmitToHandles
<1>8. x \in AgentStates
  BY <1>6 DEF Replies, Moves, Idles, Inquires, Keeps, Extends
<1>9. Handles(v, fail(x), c)
  BY <1>6, <1>8, FailIdles DEF Handles
<1>10. Handles(u, d, c)
  BY <1>6 DEF Handles
<1>11. CASE t = d
  BY <1>2, <1>5, <1>10, <1>11, IdlesReflexive DEF t
<1>12. CASE t \in {fail(x), y}
  BY <1>2, <1>4, <1>5, <1>7, <1>9, <1>12 DEF t
<1> QED BY <1>1, <1>11, <1>12

LEMMA PermissionResolvedHandles ==
    ASSUME NEW s \in AgentStates, NEW c \in ToolCalls, NEW yes, NEW o
    PROVE  \E v : /\ Idles(s, v)
                  /\ LET t == permission_resolved(s, c, yes, o)
                     IN t = v \/ (c \in v.pending_tools /\ (Idles(v, t) \/ Replies(v, t, c)))
<1> DEFINE x == s.pending_permissions \ {c}
           v == [s EXCEPT !.pending_permissions = x]
           t == permission_resolved(s, c, yes, o)
<1>1. x \in SUBSET ToolCalls
  BY FieldTypes
<1>2. \/ t = s
      \/ t = v
      \/ c \in v.pending_tools /\ t \in {execute_now(v, c), tool_failed(v, c, "Denied", o)}
  BY DEF permission_resolved
<1> HIDE DEF x
<1>3. v \in AgentStates
  BY <1>1, Zenon DEF AgentStates
<1>4. Untouched(s, v) /\ v.messages = s.messages /\ v.status = s.status
  BY <1>3, Zenon DEF AgentStates, Untouched
<1> HIDE DEF v, t
<1>5. Idles(s, v)
  BY <1>4, UntouchedIdles
<1>6. c \in v.pending_tools => Replies(v, tool_failed(v, c, "Denied", o), c)
  BY <1>3, ToolFailedReplies
<1>7. Idles(v, execute_now(v, c))
  BY <1>3, ExecuteNowIdles
<1>8. CASE t = s
  BY <1>8, IdlesReflexive DEF t
<1>9. CASE t = v
  BY <1>5, <1>9 DEF t
<1>10. CASE c \in v.pending_tools /\ t \in {execute_now(v, c), tool_failed(v, c, "Denied", o)}
  <2>1. Idles(v, t) \/ Replies(v, t, c)
    BY <1>6, <1>7, <1>10
  <2> QED BY <1>5, <1>10, <2>1 DEF t
<1> QED BY <1>2, <1>8, <1>9, <1>10

-----------------------------------------------------------------------------
(***************************************************************************)
(* Proposing an answer, backend events, controls and children.             *)
(***************************************************************************)
LEMMA SendAnswerBackMoves ==
    ASSUME NEW s \in AgentStates, NEW o
    PROVE  LET t == send_answer_back(s, o) IN Idles(s, t) \/ Inquires(s, t)
<1> DEFINE m == Append(s.messages, UserMessage)
           u == [s EXCEPT !.gate_continuations = @ + 1, !.messages = m]
           t == RequestTurn(u, "WaitingForBackend", o)
<1>1. send_answer_back(s, o) = t
  BY DEF send_answer_back
<1>2. s.messages \in Seq(Messages) /\ UserMessage \in Messages /\ UserMessage.block = "Text"
  BY FieldTypes, MessageTypes DEF UserMessage
<1>3. m \in Seq(Messages) /\ s.gate_continuations + 1 \in Nat
  BY <1>2, FieldTypes
<1>4. CallsOf(m, "ToolUse") = CallsOf(s.messages, "ToolUse")
  BY <1>2, AppendCallsOf
<1>5. CallsOf(m, "ToolResult") = CallsOf(s.messages, "ToolResult")
  BY <1>2, AppendCallsOf
<1> HIDE DEF m
<1>6. CallsIn(m) = CallsIn(s.messages) /\ Answers(m) = Answers(s.messages)
  BY <1>2, <1>3, <1>4, <1>5, CallsInOf DEF Answers
<1>7. u \in AgentStates
  BY <1>3, Zenon DEF AgentStates
<1>8. Untouched(s, u) /\ u.messages = m /\ u.status = s.status
  BY <1>7, Zenon DEF AgentStates, Untouched
<1> HIDE DEF u
<1>9. Idles(s, u)
  BY <1>6, <1>8, UntouchedIdles
<1>10. "WaitingForBackend" \in Statuses /\ "WaitingForBackend" # "Verifying"
  BY DEF Statuses
<1>11. Idles(u, t) \/ Inquires(u, t)
  BY <1>7, <1>10, RequestTurnInquires
<1> HIDE DEF t
<1> QED BY <1>1, <1>9, <1>11, IdlesComposes, IdlesThenInquires

LEMMA GateDecidedMoves ==
    ASSUME NEW s \in AgentStates, NEW failures, NEW o
    PROVE  LET t == gate_decided(s, failures, o) IN Idles(s, t) \/ Inquires(s, t)
<1> DEFINE u == With(s, <<Emit("CompletionGateEvaluated")>>)
           t == gate_decided(s, failures, o)
<1>1. t \in {finish_success(u), send_answer_back(u, o), fail(u)}
  BY DEF gate_decided
<1>2. Idles(s, u) /\ u \in AgentStates
  BY EmitIdles, IdlesType DEF Events
<1> HIDE DEF u
<1>3. Idles(u, finish_success(u)) /\ Idles(u, fail(u))
  BY <1>2, FinishSuccessIdles, FailIdles
<1>4. Idles(u, send_answer_back(u, o)) \/ Inquires(u, send_answer_back(u, o))
  BY <1>2, SendAnswerBackMoves
<1> HIDE DEF t
<1>5. Idles(s, t) \/ Inquires(s, t)
  BY <1>1, <1>2, <1>3, <1>4, IdlesComposes, IdlesThenInquires
<1> QED BY <1>5 DEF t

\* s waits for a verdict on its answer.
Verifies(s, t) ==
    /\ Keeps(s, t)
    /\ Queries(t) = Queries(s) /\ Hangups(t) = Hangups(s)
    /\ t.active_run = s.active_run /\ t.backend_in_flight = s.backend_in_flight
    /\ Finishes(t) => Finishes(s)
    /\ \A n \in Nat : Budget(s, n) => Budget(t, n)

LEMMA ProposeCompletionMoves ==
    ASSUME NEW s \in AgentStates, NEW failures, NEW o
    PROVE  LET t == propose_completion(s, failures, o)
           IN Idles(s, t) \/ Inquires(s, t) \/ Verifies(s, t)
<1> DEFINE u == [s EXCEPT !.gate_attempts = @ + 1]
           v == [u EXCEPT !.status = "Verifying"]
           x == EvaluateCompletion(u.active_run, u.gate_attempts, u.profile)
           e == <<Emit("StateChanged"), x>>
           w == With(v, e)
           t == propose_completion(s, failures, o)
<1>1. t \in {finish_success(s), gate_decided(u, failures, o), w}
  BY DEF propose_completion
<1>2. s.gate_attempts + 1 \in Nat /\ "Verifying" \in Statuses
  BY FieldTypes DEF Statuses
<1>3. u \in AgentStates
  BY <1>2, Zenon DEF AgentStates
<1>4. Untouched(s, u) /\ u.messages = s.messages /\ u.status = s.status
  BY <1>3, Zenon DEF AgentStates, Untouched
<1> HIDE DEF u
<1>5. Idles(s, u)
  BY <1>4, UntouchedIdles
<1>6. v \in AgentStates
  BY <1>2, <1>3, Zenon DEF AgentStates
<1>7. Untouched(u, v) /\ v.messages = u.messages
  BY <1>3, <1>6, Zenon DEF AgentStates, Untouched
<1>8. /\ Emit("StateChanged") \in Effects /\ Emit("StateChanged").kind = "Emit"
      /\ x \in Effects /\ x.kind = "EvaluateCompletion"
  BY <1>3, FieldTypes, EffectTypes DEF Events
<1>9. e \in Seq(Effects)
  BY <1>8
<1>10. EffectsIn(e) = {Emit("StateChanged"), x}
  BY EffectsOfTwo
<1> HIDE DEF v, e, x
<1>11. /\ w \in AgentStates /\ w.messages = v.messages
       /\ w.pending_tools = v.pending_tools /\ w.queued_inputs = v.queued_inputs
       /\ w.next_run = v.next_run /\ w.active_run = v.active_run
       /\ w.backend_in_flight = v.backend_in_flight /\ w.profile = v.profile
       /\ w.switches = v.switches /\ w.turns = v.turns /\ w.final_turn = v.final_turn
       /\ w.final_grace_used = v.final_grace_used
       /\ EffectsIn(w.fx) = EffectsIn(v.fx) \cup EffectsIn(e) /\ Extends(v, w)
  BY <1>6, <1>9, WithFields
<1> HIDE DEF w
<1>12. EffectsIn(w.fx) = EffectsIn(s.fx) \cup {Emit("StateChanged"), x} /\ Extends(s, w)
  BY <1>4, <1>7, <1>10, <1>11 DEF Untouched, Extends
<1>13. /\ w.messages = s.messages /\ w.pending_tools = s.pending_tools
       /\ w.queued_inputs = s.queued_inputs /\ w.next_run = s.next_run
       /\ w.active_run = s.active_run /\ w.backend_in_flight = s.backend_in_flight
       /\ w.profile = s.profile /\ w.switches = s.switches /\ w.turns = s.turns
       /\ w.final_turn = s.final_turn /\ w.final_grace_used = s.final_grace_used
  BY <1>4, <1>7, <1>11 DEF Untouched
<1>14. Queries(w) = Queries(s) /\ Hangups(w) = Hangups(s)
  BY <1>8, <1>12 DEF Queries, Hangups, OfKind
<1>15. Drops(w) = Drops(s)
  BY <1>8, <1>12 DEF Drops, Dropped, OfKind
<1>16. Finishes(w) => Finishes(s)
  <2>1. FinishRun.kind = "FinishRun"
    BY EffectTypes
  <2> QED BY <2>1, <1>8, <1>12 DEF Finishes
<1>17. \A n \in Nat : Budget(s, n) => Budget(w, n)
  BY <1>13, SameBudget
<1>18. Verifies(s, w)
  BY <1>11, <1>12, <1>13, <1>14, <1>15, <1>16, <1>17 DEF Verifies, Keeps
<1>19. Idles(s, finish_success(s))
  BY FinishSuccessIdles
<1>20. LET g == gate_decided(u, failures, o) IN Idles(u, g) \/ Inquires(u, g)
  BY <1>3, GateDecidedMoves
<1> HIDE DEF t
<1>21. Idles(s, t) \/ Inquires(s, t) \/ Verifies(s, t)
  BY <1>1, <1>5, <1>18, <1>19, <1>20, IdlesComposes, IdlesThenInquires
<1> QED BY <1>21 DEF t

LEMMA CompletionEvaluatedMoves ==
    ASSUME NEW s \in AgentStates, NEW r, NEW attempt, NEW failures, NEW o
    PROVE  LET t == completion_evaluated(s, r, attempt, failures, o)
           IN Idles(s, t) \/ (s.status = "Verifying" /\ Inquires(s, t))
<1>1. \/ completion_evaluated(s, r, attempt, failures, o) = s
      \/ /\ s.status = "Verifying"
         /\ completion_evaluated(s, r, attempt, failures, o) = gate_decided(s, failures, o)
  BY DEF completion_evaluated, VerdictExpected
<1> QED BY <1>1, GateDecidedMoves, IdlesReflexive

LEMMA TextDeltaIdles ==
    ASSUME NEW s \in AgentStates
    PROVE  Idles(s, text_delta(s))
<1> DEFINE m == append_assistant_text(s.messages)
           t == [s EXCEPT !.status = "Streaming", !.messages = m]
<1>1. s.messages \in Seq(Messages) /\ TextMessage \in Messages /\ TextMessage.block = "Text"
  BY FieldTypes, MessageTypes DEF TextMessage
<1>2. m \in {s.messages, FillOrAppend(s.messages, TextMessage)}
  BY DEF append_assistant_text
<1>3. text_delta(s) = With(t, <<Emit("AssistantTextDelta")>>)
  BY DEF text_delta
<1> HIDE DEF m
<1>4. m \in Seq(Messages)
  BY <1>1, <1>2, FillOrAppendCalls
<1>5. CallsOf(m, "ToolUse") = CallsOf(s.messages, "ToolUse")
  BY <1>1, <1>2, FillCallsOf
<1>6. CallsOf(m, "ToolResult") = CallsOf(s.messages, "ToolResult")
  BY <1>1, <1>2, FillCallsOf
<1>7. CallsIn(m) = CallsIn(s.messages) /\ Answers(m) = Answers(s.messages)
  BY <1>1, <1>4, <1>5, <1>6, CallsInOf DEF Answers
<1>8. "Streaming" \in Statuses /\ "Streaming" # "Verifying"
  BY DEF Statuses
<1>9. t \in AgentStates
  BY <1>4, <1>8, Zenon DEF AgentStates
<1>10. Untouched(s, t) /\ t.messages = m /\ t.status = "Streaming"
  BY <1>9, Zenon DEF AgentStates, Untouched
<1> HIDE DEF t
<1>11. Idles(s, t)
  BY <1>7, <1>8, <1>10, UntouchedIdles
<1>12. Idles(t, With(t, <<Emit("AssistantTextDelta")>>))
  BY <1>9, EmitIdles DEF Events
<1> QED BY <1>3, <1>11, <1>12, IdlesComposes

LEMMA ReasoningDeltaIdles ==
    ASSUME NEW s \in AgentStates
    PROVE  Idles(s, reasoning_delta(s))
<1> DEFINE m == assistant_message_id(s.messages)
           t == [s EXCEPT !.messages = m]
<1>1. s.messages \in Seq(Messages) /\ EmptyMessage \in Messages /\ EmptyMessage.block = "Empty"
  BY FieldTypes, MessageTypes DEF EmptyMessage
<1>2. m \in {s.messages, Append(s.messages, EmptyMessage)}
  BY DEF assistant_message_id
<1>3. reasoning_delta(s) = With(t, <<Emit("ReasoningDelta")>>)
  BY DEF reasoning_delta
<1> HIDE DEF m
<1>4. m \in Seq(Messages)
  BY <1>1, <1>2
<1>8. ASSUME NEW b \in {"ToolUse", "ToolResult"}
      PROVE  CallsOf(m, b) = CallsOf(s.messages, b)
  <2>1. CallsOf(Append(s.messages, EmptyMessage), b) = CallsOf(s.messages, b)
    BY <1>1, AppendCallsOf
  <2> QED BY <1>2, <2>1
<1>5. CallsOf(m, "ToolUse") = CallsOf(s.messages, "ToolUse")
  BY <1>8
<1>6. CallsOf(m, "ToolResult") = CallsOf(s.messages, "ToolResult")
  BY <1>8
<1>7. CallsIn(m) = CallsIn(s.messages) /\ Answers(m) = Answers(s.messages)
  BY <1>1, <1>4, <1>5, <1>6, CallsInOf DEF Answers
<1>9. t \in AgentStates
  BY <1>4, Zenon DEF AgentStates
<1>10. Untouched(s, t) /\ t.messages = m /\ t.status = s.status
  BY <1>9, Zenon DEF AgentStates, Untouched
<1> HIDE DEF t
<1>11. Idles(s, t)
  BY <1>7, <1>10, UntouchedIdles
<1>12. Idles(t, With(t, <<Emit("ReasoningDelta")>>))
  BY <1>9, EmitIdles DEF Events
<1> QED BY <1>3, <1>11, <1>12, IdlesComposes

\* The request of s is over.
Closes(s, u) ==
    /\ Keeps(s, u)
    /\ Queries(u) = Queries(s) /\ Hangups(u) = Hangups(s)
    /\ u.active_run = s.active_run /\ u.backend_in_flight = FALSE
    /\ u.status = s.status
    /\ Finishes(u) => Finishes(s)
    /\ \A n \in Nat : Budget(s, n) => Budget(u, n)

LEMMA CompletedCloses ==
    ASSUME NEW s \in AgentStates, NEW reason, NEW failures, NEW o
    PROVE  LET t == completed(s, reason, failures, o)
           IN \E u : Closes(s, u) /\ (Moves(u, t) \/ Verifies(u, t))
<1> DEFINE m == discard_trailing_empty_assistant_message(s.messages)
           u == [s EXCEPT !.backend_in_flight = FALSE, !.messages = m]
           t == completed(s, reason, failures, o)
<1>1. m \in Seq(Messages) /\ CallsIn(m) = CallsIn(s.messages) /\ Answers(m) = Answers(s.messages)
  BY FieldTypes, DiscardType, DiscardCallsOf, CallsInOf DEF Answers
<1>2. t \in {fail(u), continue_after_tools(u, o), propose_completion(u, failures, o)}
  BY DEF completed
<1> HIDE DEF m
<1>3. u \in AgentStates
  BY <1>1, Zenon DEF AgentStates
<1>4. /\ u.messages = m /\ u.pending_tools = s.pending_tools /\ u.fx = s.fx
      /\ u.queued_inputs = s.queued_inputs /\ u.next_run = s.next_run /\ u.status = s.status
      /\ u.active_run = s.active_run /\ u.backend_in_flight = FALSE /\ u.profile = s.profile
      /\ u.switches = s.switches /\ u.turns = s.turns /\ u.final_turn = s.final_turn
      /\ u.final_grace_used = s.final_grace_used
  BY Zenon DEF AgentStates
<1> HIDE DEF u
<1>5. \A n \in Nat : Budget(s, n) => Budget(u, n)
  BY <1>4, SameBudget
<1>6. Keeps(s, u) /\ Queries(u) = Queries(s) /\ Hangups(u) = Hangups(s) /\ (Finishes(u) <=> Finishes(s))
  BY <1>1, <1>3, <1>4 DEF Keeps, Queries, Hangups, Drops, Finishes, Extends
<1>7. Closes(s, u)
  BY <1>4, <1>5, <1>6 DEF Closes
<1>8. Idles(u, fail(u)) /\ Moves(u, continue_after_tools(u, o))
  BY <1>3, FailIdles, ContinueAfterToolsMoves
<1>9. LET x == propose_completion(u, failures, o) IN Idles(u, x) \/ Inquires(u, x) \/ Verifies(u, x)
  BY <1>3, ProposeCompletionMoves
<1> HIDE DEF t
<1>10. ~u.backend_in_flight
  BY <1>4
<1>11. Moves(u, t) \/ Verifies(u, t)
  BY <1>2, <1>8, <1>9, <1>10 DEF Moves
<1> QED BY <1>7, <1>11 DEF t

\* s becomes t by a Cancel that finds something to cancel.
Cancels(s, t) ==
    /\ t \in AgentStates
    /\ t.messages = s.messages /\ t.pending_tools = {}
    /\ t.queued_inputs = s.queued_inputs /\ t.next_run = s.next_run
    /\ t.active_run = NoRun /\ t.backend_in_flight = FALSE /\ t.status = "Cancelled"
    /\ Drops(t) = Drops(s) \cup s.pending_tools
    /\ Queries(t) = Queries(s)
    /\ \A h \in Hangups(t) : h \in Hangups(s) \/ h.run = s.active_run
    /\ \A e \in Verdicts(t) : e \in Verdicts(s) \/ e = CancelEvaluation(s.active_run)
    /\ Finishes(t) => Finishes(s)
    /\ \A n \in Nat : Budget(s, n) => Budget(t, n)

LEMMA EffectsOfThree == \A a, b, c : EffectsIn(<<a, b, c>>) = {a, b, c}
<1>1. ASSUME NEW a, NEW b, NEW c PROVE EffectsIn(<<a, b, c>>) = {a, b, c}
  <2> DEFINE e == <<a, b, c>>
  <2>1. Len(e) = 3 /\ e[1] = a /\ e[2] = b /\ e[3] = c
    OBVIOUS
  <2> HIDE DEF e
  <2>2. EffectsIn(e) = {a, b, c}
    BY <2>1 DEF EffectsIn
  <2> QED BY <2>2 DEF e
<1> QED BY <1>1

LEMMA CancelCancels ==
    ASSUME NEW s \in AgentStates
    PROVE  cancel(s) = s \/ Cancels(s, cancel(s))
<1> DEFINE u == [s EXCEPT !.status = "Cancelled", !.active_run = NoRun,
                          !.backend_in_flight = FALSE, !.pending_tools = {},
                          !.pending_permissions = {}, !.children = {}]
           e1 == IF s.active_run = NoRun THEN <<>> ELSE <<CancelBackend(s.active_run)>>
           e2 == IF s.active_run # NoRun /\ s.status = "Verifying"
                 THEN <<CancelEvaluation(s.active_run)>> ELSE <<>>
           x == CancelTools(s.pending_tools)
           y == CancelChildren(s.children)
           z == Emit("Completed")
           e3 == <<x, y, z>>
           e == e1 \o e2 \o e3
           t == With(u, e)
<1>1. cancel(s) \in {s, t}
  BY DEF cancel
<1>2. s.active_run \in Nat /\ s.pending_tools \in SUBSET ToolCalls /\ s.children \in SUBSET Children
  BY FieldTypes
<1>3. <<>> \in Seq(Effects) /\ EffectsIn(<<>>) = {}
  BY DEF EffectsIn
<1>4. /\ e1 \in Seq(Effects)
      /\ \A d \in EffectsIn(e1) : d.kind = "CancelBackend" /\ d.run = s.active_run
  <2> DEFINE d == CancelBackend(s.active_run)
  <2>1. d \in Effects /\ d.kind = "CancelBackend" /\ d.run = s.active_run
    BY <1>2, EffectTypes DEF CancelBackend
  <2> HIDE DEF d
  <2>2. <<d>> \in Seq(Effects) /\ EffectsIn(<<d>>) = {d}
    BY <2>1, EffectsOfOne
  <2>3. e1 = <<>> \/ e1 = <<d>>
    BY DEF d
  <2> QED BY <1>3, <2>1, <2>2, <2>3
<1>5. /\ e2 \in Seq(Effects)
      /\ \A d \in EffectsIn(e2) : d.kind = "CancelEvaluation" /\ d = CancelEvaluation(s.active_run)
  <2> DEFINE d == CancelEvaluation(s.active_run)
  <2>1. d \in Effects /\ d.kind = "CancelEvaluation"
    BY <1>2, EffectTypes
  <2> HIDE DEF d
  <2>2. <<d>> \in Seq(Effects) /\ EffectsIn(<<d>>) = {d}
    BY <2>1, EffectsOfOne
  <2>3. e2 = <<>> \/ e2 = <<d>>
    BY DEF d
  <2>4. d = CancelEvaluation(s.active_run)
    BY DEF d
  <2> QED BY <1>3, <2>1, <2>2, <2>3, <2>4
<1>6. /\ x \in Effects /\ y \in Effects /\ z \in Effects
      /\ x.kind = "CancelTools" /\ y.kind = "CancelChildren" /\ z.kind = "Emit"
      /\ x.calls = s.pending_tools
  <2>1. x.calls = s.pending_tools
    BY DEF CancelTools
  <2> QED BY <2>1, <1>2, EffectTypes DEF Events
<1> HIDE DEF x, y, z
<1>7. e3 \in Seq(Effects) /\ EffectsIn(e3) = {x, y, z}
  BY <1>6, EffectsOfThree
<1> HIDE DEF e1, e2, e3
<1>8. e \in Seq(Effects) /\ EffectsIn(e) = (EffectsIn(e1) \cup EffectsIn(e2)) \cup {x, y, z}
  <2>1. e1 \o e2 \in Seq(Effects) /\ EffectsIn(e1 \o e2) = EffectsIn(e1) \cup EffectsIn(e2)
    BY <1>4, <1>5, EffectsInConcat
  <2> DEFINE d == e1 \o e2
  <2>2. e = d \o e3 /\ d \in Seq(Effects) /\ EffectsIn(d) = EffectsIn(e1) \cup EffectsIn(e2)
    BY <2>1
  <2> HIDE DEF d, e
  <2>3. d \o e3 \in Seq(Effects)
    BY <1>7, <2>2
  <2>4. EffectsIn(d \o e3) = EffectsIn(d) \cup EffectsIn(e3)
    BY <1>7, <2>2, EffectsInConcat
  <2> QED BY <1>7, <2>2, <2>3, <2>4
<1> HIDE DEF e
<1>9. "Cancelled" \in Statuses /\ NoRun \in Nat /\ {} \in SUBSET ToolCalls /\ {} \in SUBSET Children
  BY DEF Statuses, NoRun
<1>10. u \in AgentStates
  BY <1>9, Zenon DEF AgentStates
<1>11. /\ u.messages = s.messages /\ u.pending_tools = {} /\ u.fx = s.fx
      /\ u.queued_inputs = s.queued_inputs /\ u.next_run = s.next_run /\ u.status = "Cancelled"
      /\ u.active_run = NoRun /\ u.backend_in_flight = FALSE /\ u.profile = s.profile
      /\ u.switches = s.switches /\ u.turns = s.turns /\ u.final_turn = s.final_turn
      /\ u.final_grace_used = s.final_grace_used
  BY Zenon DEF AgentStates
<1> HIDE DEF u
<1>12. /\ t \in AgentStates /\ t.messages = u.messages /\ t.status = u.status
      /\ t.pending_tools = u.pending_tools /\ t.queued_inputs = u.queued_inputs
      /\ t.next_run = u.next_run /\ t.active_run = u.active_run
      /\ t.backend_in_flight = u.backend_in_flight /\ t.profile = u.profile
      /\ t.switches = u.switches /\ t.turns = u.turns /\ t.final_turn = u.final_turn
      /\ t.final_grace_used = u.final_grace_used
      /\ EffectsIn(t.fx) = EffectsIn(u.fx) \cup EffectsIn(e)
  BY <1>8, <1>10, WithFields
<1> HIDE DEF t
<1>13. EffectsIn(t.fx) = EffectsIn(s.fx) \cup ((EffectsIn(e1) \cup EffectsIn(e2)) \cup {x, y, z})
  BY <1>8, <1>11, <1>12
<1>14. Queries(t) = Queries(s)
  BY <1>4, <1>5, <1>6, <1>13 DEF Queries, OfKind
<1>15. \A h \in Hangups(t) : h \in Hangups(s) \/ h.run = s.active_run
  BY <1>4, <1>5, <1>6, <1>13 DEF Hangups, OfKind
<1>16. Drops(t) = Drops(s) \cup s.pending_tools
  <2>1. OfKind(EffectsIn(t.fx), "CancelTools") = OfKind(EffectsIn(s.fx), "CancelTools") \cup {x}
    BY <1>4, <1>5, <1>6, <1>13 DEF OfKind
  <2> QED BY <1>6, <2>1 DEF Drops, Dropped
<1>17. Finishes(t) => Finishes(s)
  <2>1. FinishRun.kind = "FinishRun"
    BY EffectTypes
  <2> QED BY <2>1, <1>4, <1>5, <1>6, <1>13 DEF Finishes
<1>18. \A n \in Nat : Budget(s, n) => Budget(t, n)
  BY <1>11, <1>12, SameBudget
<1>19. \A d \in Verdicts(t) : d \in Verdicts(s) \/ d = CancelEvaluation(s.active_run)
  BY <1>4, <1>5, <1>6, <1>13 DEF Verdicts
<1>20. Cancels(s, t)
  BY <1>11, <1>12, <1>14, <1>15, <1>16, <1>17, <1>18, <1>19 DEF Cancels
<1> QED BY <1>1, <1>20

LEMMA PauseIdles ==
    ASSUME NEW s \in AgentStates
    PROVE  Idles(s, pause(s))
<1>1. "Paused" \in Statuses /\ "Paused" # "Verifying" /\ "StateChanged" \in Events
  BY DEF Statuses, Events
<1>2. Idles(s, With([s EXCEPT !.status = "Paused"], <<Emit("StateChanged")>>))
  BY <1>1, StatusIdles
<1> QED BY <1>2, IdlesReflexive DEF pause

\* A resumed run asks whatever is still out: only what Keeps says holds of it.
LEMMA ResumeKeeps ==
    ASSUME NEW s \in AgentStates
    PROVE  /\ Keeps(s, resume(s)) /\ resume(s).active_run = s.active_run
           /\ Finishes(resume(s)) => Finishes(s) \/ s.active_run = NoRun
<1> DEFINE t == With([s EXCEPT !.status = "Idle"], <<Emit("StateChanged")>>)
           u == With([s EXCEPT !.status = "WaitingForBackend"], <<Emit("StateChanged")>>)
<1>1. /\ "Idle" \in Statuses /\ "Idle" # "Verifying" /\ "StateChanged" \in Events
      /\ "WaitingForBackend" \in Statuses /\ "WaitingForBackend" # "Verifying"
  BY DEF Statuses, Events
<1>2. /\ Idles(s, t) /\ t.active_run = s.active_run
      /\ Idles(s, u) /\ u.active_run = s.active_run
  BY <1>1, StatusIdles
<1>3. \/ resume(s) = s
      \/ s.active_run = NoRun /\ resume(s) = t
      \/ s.active_run # NoRun /\ resume(s) = build_request(u)
  BY DEF resume
<1> HIDE DEF t, u
<1>4. Sends(u, build_request(u))
  BY <1>2, BuildRequestSends, IdlesType
<1>5. CASE resume(s) = s
  BY <1>5, IdlesReflexive DEF Idles
<1>6. CASE s.active_run # NoRun /\ resume(s) = build_request(u)
  BY <1>2, <1>4, <1>6, KeepsComposes DEF Idles, Sends
<1>7. CASE s.active_run = NoRun /\ resume(s) = t
  BY <1>2, <1>7 DEF Idles
<1> QED BY <1>3, <1>5, <1>6, <1>7

LEMMA ChildrenIdles ==
    ASSUME NEW s \in AgentStates, NEW ks \in SUBSET Children
    PROVE  LET t == [s EXCEPT !.children = ks] IN Idles(s, t) /\ t.active_run = s.active_run
<1> DEFINE t == [s EXCEPT !.children = ks]
<1>1. t \in AgentStates
  BY Zenon DEF AgentStates
<1>2. Untouched(s, t) /\ t.messages = s.messages /\ t.status = s.status
  BY <1>1, Zenon DEF AgentStates, Untouched
<1> HIDE DEF t
<1>3. Idles(s, t) /\ t.active_run = s.active_run
  BY <1>2, UntouchedIdles DEF Untouched
<1> QED BY <1>3 DEF t

LEMMA ChildSpawnedIdles ==
    ASSUME NEW s \in AgentStates, NEW k \in Children, NEW awaiting
    PROVE  LET t == child_spawned(s, k, awaiting) IN Idles(s, t) /\ t.active_run = s.active_run
<1> DEFINE t == [s EXCEPT !.children = @ \cup {k}]
           u == With([t EXCEPT !.status = "WaitingForChildren"], <<Emit("StateChanged")>>)
<1>1. s.children \cup {k} \in SUBSET Children
  BY FieldTypes
<1>2. Idles(s, t) /\ t \in AgentStates /\ t.active_run = s.active_run
  BY <1>1, ChildrenIdles, IdlesType
<1>3. "WaitingForChildren" \in Statuses /\ "WaitingForChildren" # "Verifying"
      /\ "StateChanged" \in Events
  BY DEF Statuses, Events
<1>4. child_spawned(s, k, awaiting) \in {t, u}
  BY DEF child_spawned
<1> HIDE DEF t
<1>5. Idles(s, u) /\ u.active_run = s.active_run
  BY <1>2, <1>3, StatusIdles, IdlesComposes
<1> QED BY <1>2, <1>4, <1>5

LEMMA ChildEndedIdles ==
    ASSUME NEW s \in AgentStates, NEW k
    PROVE  LET t == child_ended(s, k) IN Idles(s, t) /\ t.active_run = s.active_run
<1> DEFINE t == [s EXCEPT !.children = @ \ {k}]
           idle == t.children = {} /\ t.status = "WaitingForChildren"
           status == IF idle THEN "Idle" ELSE t.status
           u == [t EXCEPT !.status = status]
           e == <<Emit("ChildAgentCompleted")>>
<1>1. s.children \ {k} \in SUBSET Children
  BY FieldTypes
<1>2. Idles(s, t) /\ t \in AgentStates /\ t.active_run = s.active_run
  BY <1>1, ChildrenIdles, IdlesType
<1>3. child_ended(s, k) = With(u, e)
  BY DEF child_ended
<1> HIDE DEF t
<1>4. status \in Statuses /\ (status = t.status \/ status # "Verifying")
  BY <1>2, FieldTypes DEF Statuses
<1> HIDE DEF status
<1>5. u \in AgentStates
  BY <1>2, <1>4, Zenon DEF AgentStates
<1>6. Untouched(t, u) /\ u.messages = t.messages /\ u.status = status
  BY <1>2, <1>5, Zenon DEF AgentStates, Untouched
<1> HIDE DEF u
<1>7. Idles(t, u) /\ u.active_run = t.active_run
  BY <1>4, <1>6, UntouchedIdles DEF Untouched
<1>8. Idles(u, With(u, e)) /\ With(u, e).active_run = u.active_run
  <2>1. e \in Seq(Effects)
    BY EffectTypes DEF Events
  <2> HIDE DEF e
  <2> QED BY <1>5, <2>1, WithFields, EmitIdles DEF Events, e
<1> HIDE DEF e
<1> QED BY <1>2, <1>3, <1>7, <1>8, IdlesComposes

LEMMA SpawnCommandIdles ==
    ASSUME NEW s \in AgentStates
    PROVE  Idles(s, With(s, <<SpawnAgent>>))
<1> DEFINE e == <<SpawnAgent>>
<1>1. SpawnAgent \in Effects /\ SpawnAgent.kind = "SpawnAgent"
  BY EffectTypes
<1>2. e \in Seq(Effects)
  BY <1>1
<1>3. EffectsIn(e) = {SpawnAgent}
  BY EffectsOfOne
<1> HIDE DEF e
<1>4. Idles(s, With(s, e))
  BY <1>1, <1>2, <1>3, WithIdles
<1> QED BY <1>4 DEF e

-----------------------------------------------------------------------------
(***************************************************************************)
(* Transcripts that validate_transcript finds nothing wrong with but calls *)
(* without a result.                                                       *)
(***************************************************************************)
\* The calls of the blocks of one kind before position i.
Before(m, i, block) == {m[j].call : j \in {k \in 1..(i - 1) : m[k].block = block}}

\* Position i continues what is before it: a call is new, a result answers an open
\* call, a user message comes when all calls are answered.
InPlace(m, i) ==
    /\ m[i].block = "ToolUse" => /\ m[i].role = "Assistant"
                                 /\ m[i].call \notin Before(m, i, "ToolUse")
    /\ m[i].block = "ToolResult" => /\ m[i].role = "Tool"
                                    /\ m[i].call \in Before(m, i, "ToolUse")
                                    /\ m[i].call \notin Before(m, i, "ToolResult")
    /\ m[i].role = "User" => Before(m, i, "ToolUse") \subseteq Before(m, i, "ToolResult")

Ordered(m) == \A i \in 1..Len(m) : InPlace(m, i)

LEMMA BeforeNext ==
    ASSUME NEW m, NEW i \in Nat, i # 0, NEW b
    PROVE  Before(m, i + 1, b) = Before(m, i, b) \cup (IF m[i].block = b THEN {m[i].call} ELSE {})
<1>1. \A j \in 1..((i + 1) - 1) : j = i \/ j \in 1..(i - 1)
  OBVIOUS
<1>2. i \in 1..((i + 1) - 1) /\ \A j \in 1..(i - 1) : j \in 1..((i + 1) - 1)
  OBVIOUS
<1>3. ASSUME NEW c \in Before(m, i + 1, b)
      PROVE  c \in Before(m, i, b) \cup (IF m[i].block = b THEN {m[i].call} ELSE {})
  <2>1. PICK j \in 1..((i + 1) - 1) : m[j].block = b /\ c = m[j].call
    BY <1>3 DEF Before
  <2>2. CASE j = i
    BY <2>1, <2>2
  <2>3. CASE j \in 1..(i - 1)
    BY <2>1, <2>3 DEF Before
  <2> QED BY <1>1, <2>2, <2>3
<1>4. ASSUME NEW c \in Before(m, i, b) PROVE c \in Before(m, i + 1, b)
  BY <1>2, <1>4 DEF Before
<1>5. m[i].block = b => m[i].call \in Before(m, i + 1, b)
  BY <1>2 DEF Before
<1> QED BY <1>3, <1>4, <1>5

LEMMA BeforeEnd ==
    ASSUME NEW m \in Seq(Messages), NEW b
    PROVE  Before(m, Len(m) + 1, b) = CallsOf(m, b)
<1>1. (Len(m) + 1) - 1 = Len(m)
  OBVIOUS
<1> QED BY <1>1 DEF Before, CallsOf

\* What is in place stays so when the messages behind it change.
LEMMA SamePrefix ==
    ASSUME NEW m, NEW n, NEW k \in Nat, \A i \in 1..k : n[i] = m[i]
    PROVE  /\ \A b : \A i \in 1..(k + 1) : Before(n, i, b) = Before(m, i, b)
           /\ \A i \in 1..k : InPlace(m, i) => InPlace(n, i)
<1>1. \A i \in 1..(k + 1) : \A j \in 1..(i - 1) : j \in 1..k
  OBVIOUS
<1>2. \A b : \A i \in 1..(k + 1) : Before(n, i, b) = Before(m, i, b)
  BY <1>1 DEF Before
<1>3. \A i \in 1..k : i \in 1..(k + 1)
  OBVIOUS
<1> QED BY <1>2, <1>3 DEF InPlace

\* What a message must be to continue the messages m.
Continues(m, msg) ==
    /\ msg.block = "ToolUse" => msg.role = "Assistant" /\ msg.call \notin CallsOf(m, "ToolUse")
    /\ msg.block = "ToolResult" => /\ msg.role = "Tool"
                                   /\ msg.call \in CallsOf(m, "ToolUse")
                                   /\ msg.call \notin CallsOf(m, "ToolResult")
    /\ msg.role = "User" => CallsOf(m, "ToolUse") \subseteq CallsOf(m, "ToolResult")

LEMMA AppendOrdered ==
    ASSUME NEW m \in Seq(Messages), NEW msg \in Messages, Ordered(m), Continues(m, msg)
    PROVE  Ordered(Append(m, msg))
<1> DEFINE n == Append(m, msg)
           k == Len(m)
<1>1. Len(n) = k + 1 /\ n[k + 1] = msg /\ (\A i \in 1..k : n[i] = m[i]) /\ k \in Nat
  OBVIOUS
<1>2. \A b : Before(m, k + 1, b) = CallsOf(m, b)
  BY BeforeEnd
<1> HIDE DEF n, k
<1>3. /\ \A b : \A i \in 1..(k + 1) : Before(n, i, b) = Before(m, i, b)
      /\ \A i \in 1..k : InPlace(m, i) => InPlace(n, i)
  BY <1>1, SamePrefix
<1>4. \A b : Before(n, k + 1, b) = CallsOf(m, b)
  <2>1. k + 1 \in 1..(k + 1)
    BY <1>1
  <2> QED BY <1>2, <1>3, <2>1
<1>5. InPlace(n, k + 1)
  BY <1>1, <1>4 DEF InPlace, Continues
<1>6. \A i \in 1..(k + 1) : i = k + 1 \/ i \in 1..k
  BY <1>1
<1>7. Ordered(n)
  BY <1>1, <1>3, <1>5, <1>6 DEF Ordered, k
<1> QED BY <1>7 DEF n

\* The messages without the last one.
LEMMA FrontOrdered ==
    ASSUME NEW m \in Seq(Messages), NEW k \in Nat, Len(m) = k + 1, Ordered(m)
    PROVE  /\ SubSeq(m, 1, k) \in Seq(Messages) /\ Len(SubSeq(m, 1, k)) = k
           /\ \A i \in 1..k : SubSeq(m, 1, k)[i] = m[i]
           /\ Ordered(SubSeq(m, 1, k))
<1>1. \A i \in 1..k : m[i] \in Messages
  OBVIOUS
<1>2. /\ SubSeq(m, 1, k) \in Seq(Messages)
      /\ Len(SubSeq(m, 1, k)) = (IF 1 <= k THEN k - 1 + 1 ELSE 0)
      /\ \A i \in 1..k - 1 + 1 : SubSeq(m, 1, k)[i] = m[1 + i - 1]
  BY <1>1, SubSeqProperties
<1> DEFINE n == SubSeq(m, 1, k)
<1>3. n \in Seq(Messages) /\ Len(n) = k /\ \A i \in 1..k : n[i] = m[i]
  BY <1>2
<1> HIDE DEF n
<1>4. \A i \in 1..k : InPlace(n, i)
  BY <1>3, SamePrefix DEF Ordered
<1>5. Ordered(n)
  BY <1>3, <1>4 DEF Ordered
<1> QED BY <1>3, <1>5 DEF n

LEMMA DiscardOrdered ==
    ASSUME NEW m \in Seq(Messages), Ordered(m)
    PROVE  Ordered(discard_trailing_empty_assistant_message(m))
<1>1. CASE ~EndsIn(m, EmptyMessage)
  BY <1>1 DEF discard_trailing_empty_assistant_message
<1>2. CASE EndsIn(m, EmptyMessage)
  <2>1. Len(m) \in Nat /\ Len(m) # 0
    BY <1>2 DEF EndsIn
  <2>2. Len(m) - 1 \in Nat /\ Len(m) = (Len(m) - 1) + 1
    BY <2>1
  <2>3. Ordered(SubSeq(m, 1, Len(m) - 1))
    BY <2>2, FrontOrdered
  <2> QED BY <1>2, <2>3 DEF discard_trailing_empty_assistant_message
<1> QED BY <1>1, <1>2

LEMMA FillOrdered ==
    ASSUME NEW m \in Seq(Messages), NEW msg \in Messages, Ordered(m), Continues(m, msg)
    PROVE  Ordered(FillOrAppend(m, msg))
<1>1. CASE ~EndsIn(m, EmptyMessage)
  BY <1>1, AppendOrdered DEF FillOrAppend
<1>2. CASE EndsIn(m, EmptyMessage)
  <2> DEFINE n == [m EXCEPT ![Len(m)] = msg]
             k == Len(m) - 1
  <2>1. Len(m) \in Nat /\ Len(m) # 0 /\ m[Len(m)].block = "Empty"
    BY <1>2 DEF EndsIn, EmptyMessage
  <2>2. k \in Nat /\ Len(m) = k + 1 /\ m[k + 1].block = "Empty"
    BY <2>1
  <2>3. Len(n) = k + 1 /\ n[k + 1] = msg /\ \A i \in 1..k : n[i] = m[i]
    BY <2>1, <2>2
  <2>4. FillOrAppend(m, msg) = n
    BY <1>2 DEF FillOrAppend
  <2> HIDE DEF n, k
  <2>5. \A b : b # "Empty" => Before(m, k + 1, b) = CallsOf(m, b)
    <3> TAKE b
    <3>1. HAVE b # "Empty"
    <3>2. \A i \in 1..Len(m) : m[i].block = b => i \in 1..((k + 1) - 1)
      BY <2>2, <3>1
    <3>3. \A i \in 1..((k + 1) - 1) : i \in 1..Len(m)
      BY <2>2
    <3> QED BY <3>2, <3>3 DEF Before, CallsOf
  <2>6. /\ \A b : \A i \in 1..(k + 1) : Before(n, i, b) = Before(m, i, b)
        /\ \A i \in 1..k : InPlace(m, i) => InPlace(n, i)
    BY <2>2, <2>3, SamePrefix
  <2>7. k + 1 \in 1..(k + 1) /\ \A i \in 1..(k + 1) : i = k + 1 \/ i \in 1..k
    BY <2>2
  <2>8. /\ Before(n, k + 1, "ToolUse") = CallsOf(m, "ToolUse")
        /\ Before(n, k + 1, "ToolResult") = CallsOf(m, "ToolResult")
    <3>1. "ToolUse" # "Empty" /\ "ToolResult" # "Empty"
      OBVIOUS
    <3> QED BY <2>5, <2>6, <2>7, <3>1
  <2>9. InPlace(n, k + 1)
    BY <2>3, <2>8 DEF InPlace, Continues
  <2>10. Ordered(n)
    <3>1. \A i \in 1..k : InPlace(m, i)
      BY <2>2 DEF Ordered
    <3> QED BY <2>3, <2>6, <2>7, <2>9, <3>1 DEF Ordered
  <2> QED BY <2>4, <2>10
<1> QED BY <1>1, <1>2

-----------------------------------------------------------------------------
(***************************************************************************)
(* What the walk of validate_transcript finds in such a transcript.        *)
(***************************************************************************)
LEMMA LeastNumber ==
    ASSUME NEW S \in SUBSET Nat, S # {}
    PROVE  \E m \in S : \A k \in S : m <= k
<1> DEFINE R == OpToRel(<, Nat)
<1>1. IsWellFoundedOn(R, Nat)
  BY NatLessThanWellFounded
<1>2. \A x, y \in Nat : <<y, x>> \in R <=> y < x
  BY DEF OpToRel
<1> HIDE DEF R
<1>3. PICK x \in S : \A y \in S : ~(<<y, x>> \in R)
  BY <1>1, WFMin, Zenon
<1>4. \A y \in S : ~(y < x)
  BY <1>2, <1>3
<1>5. \A y \in S : x <= y
  BY <1>4
<1> QED BY <1>5

LEMMA UpToLength ==
    ASSUME NEW n \in Nat, NEW S, 0 \in S, \A i \in 0..n : i < n /\ i \in S => i + 1 \in S
    PROVE  0..n \subseteq S
<1> DEFINE Bad == {i \in 0..n : i \notin S}
<1> SUFFICES ASSUME Bad # {} PROVE FALSE
  OBVIOUS
<1>1. Bad \in SUBSET Nat
  OBVIOUS
<1>2. PICK m \in Bad : \A k \in Bad : m <= k
  BY <1>1, LeastNumber
<1>3. m \in 0..n /\ m \notin S /\ m # 0
  OBVIOUS
<1>4. m - 1 \in 0..n /\ m - 1 < n /\ ~(m <= m - 1) /\ (m - 1) + 1 = m
  BY <1>3
<1>5. m - 1 \in S
  BY <1>2, <1>4
<1> QED BY <1>3, <1>4, <1>5

Nothing == [pending |-> <<>>, error |-> "None"]

WalkOf(m, walk) ==
    walk = [i \in 0..Len(m) |-> IF i = 0 THEN Nothing ELSE ValidateStep(m, walk[i - 1], i)]

\* The recursion of validate_transcript has a solution.
LEMMA WalkExists ==
    ASSUME NEW m \in Seq(Messages)
    PROVE  \E walk : WalkOf(m, walk)
<1> DEFINE Upto(k, f) == f = [i \in 0..k |-> IF i = 0 THEN Nothing ELSE ValidateStep(m, f[i - 1], i)]
           n == Len(m)
           S == {k \in 0..n : \E f : Upto(k, f)}
<1>1. n \in Nat
  OBVIOUS
<1>2. 0 \in S
  <2>1. Upto(0, [i \in 0..0 |-> Nothing])
    OBVIOUS
  <2>2. \E f : Upto(0, f)
    BY <2>1, Zenon
  <2>3. 0 \in 0..n
    BY <1>1
  <2> QED BY <2>2, <2>3
<1>3. ASSUME NEW k \in 0..n, k < n, k \in S
      PROVE  k + 1 \in S
  <2>1. PICK f : Upto(k, f)
    BY <1>3
  <2> DEFINE g == [i \in 0..(k + 1) |-> IF i = k + 1 THEN ValidateStep(m, f[k], k + 1) ELSE f[i]]
  <2>2. \A i \in 0..k : f[i] = IF i = 0 THEN Nothing ELSE ValidateStep(m, f[i - 1], i)
    BY <2>1
  <2> HIDE DEF Upto
  <2>3. \A i \in 0..(k + 1) : g[i] = IF i = 0 THEN Nothing ELSE ValidateStep(m, g[i - 1], i)
    <3> TAKE i \in 0..(k + 1)
    <3>1. CASE i = k + 1
      <4>1. i # 0 /\ i - 1 = k /\ k \in 0..(k + 1) /\ k # k + 1
        BY <3>1, <1>1
      <4>2. g[i] = ValidateStep(m, f[k], k + 1) /\ g[i - 1] = f[k]
        BY <3>1, <4>1
      <4> QED BY <3>1, <4>1, <4>2
    <3>2. CASE i # k + 1
      <4>1. i \in 0..k /\ (i # 0 => i - 1 \in 0..k)
        BY <3>2, <1>1
      <4>2. g[i] = f[i] /\ (i # 0 => g[i - 1] = f[i - 1])
        BY <3>2, <4>1, <1>1
      <4> QED BY <2>2, <4>1, <4>2
    <3> QED BY <3>1, <3>2
  <2>4. Upto(k + 1, g)
    <3>1. g = [i \in 0..(k + 1) |-> g[i]]
      OBVIOUS
    <3> HIDE DEF g
    <3> QED BY <2>3, <3>1 DEF Upto
  <2>5. k + 1 \in 0..n
    BY <1>1, <1>3
  <2> HIDE DEF g
  <2> QED BY <2>4, <2>5
<1>4. n \in S
  <2> HIDE DEF S
  <2>1. 0..n \subseteq S
    BY <1>1, <1>2, <1>3, UpToLength
  <2> QED BY <2>1, <1>1
<1> QED BY <1>4 DEF WalkOf

LEMMA ValidateWalks ==
    ASSUME NEW m \in Seq(Messages)
    PROVE  \E walk : /\ WalkOf(m, walk)
                     /\ validate_transcript(m) =
                          IF walk[Len(m)].error = "None" /\ walk[Len(m)].pending # <<>>
                          THEN "UnresolvedToolCall" ELSE walk[Len(m)].error
<1> DEFINE walk[i \in 0..Len(m)] ==
             IF i = 0 THEN [pending |-> <<>>, error |-> "None"] ELSE ValidateStep(m, walk[i - 1], i)
<1>1. \E f : f = [i \in 0..Len(m) |-> IF i = 0 THEN [pending |-> <<>>, error |-> "None"]
                                      ELSE ValidateStep(m, f[i - 1], i)]
  BY WalkExists, Zenon DEF WalkOf, Nothing
<1>2. walk = [i \in 0..Len(m) |-> IF i = 0 THEN [pending |-> <<>>, error |-> "None"]
                                  ELSE ValidateStep(m, walk[i - 1], i)]
  BY <1>1, Zenon
<1>3. validate_transcript(m) = IF walk[Len(m)].error = "None" /\ walk[Len(m)].pending # <<>>
                               THEN "UnresolvedToolCall" ELSE walk[Len(m)].error
  BY Zenon DEF validate_transcript
<1> HIDE DEF walk
<1>4. WalkOf(m, walk)
  BY <1>2, Zenon DEF WalkOf, Nothing
<1> QED BY <1>3, <1>4

Distinct(p) == \A i, j \in 1..Len(p) : p[i] = p[j] => i = j

Elements(p) == {p[i] : i \in 1..Len(p)}

LEMMA AppendDistinct ==
    ASSUME NEW T, NEW p \in Seq(T), NEW c \in T, Distinct(p), c \notin Elements(p)
    PROVE  LET r == Append(p, c)
           IN r \in Seq(T) /\ Distinct(r) /\ Elements(r) = Elements(p) \cup {c}
<1> DEFINE r == Append(p, c)
           n == Len(p)
<1>1. /\ r \in Seq(T) /\ Len(r) = n + 1 /\ r[n + 1] = c /\ (\A i \in 1..n : r[i] = p[i])
      /\ n \in Nat
  OBVIOUS
<1>2. \A i \in 1..n : p[i] # c
  BY DEF Elements
<1> HIDE DEF r
<1>3. (\A i \in 1..(n + 1) : i = n + 1 \/ i \in 1..n) /\ (\A i \in 1..n : i \in 1..(n + 1)) /\ n + 1 \in 1..(n + 1)
  BY <1>1
<1>4. Distinct(r)
  BY <1>1, <1>2, <1>3 DEF Distinct
<1>5. Elements(r) = Elements(p) \cup {c}
  BY <1>1, <1>3 DEF Elements
<1> QED BY <1>1, <1>4, <1>5 DEF r

LEMMA RemoveDistinct ==
    ASSUME NEW T, NEW p \in Seq(T), NEW c, Distinct(p), c \in Elements(p)
    PROVE  LET r == RemoveFirst(p, c)
           IN r \in Seq(T) /\ Distinct(r) /\ Elements(r) = Elements(p) \ {c}
<1> DEFINE r == RemoveFirst(p, c)
           n == Len(p)
<1>1. PICK k \in 1..n : p[k] = c
  BY DEF Elements
<1>2. n \in Nat /\ k \in Nat /\ k >= 1 /\ k <= n
  OBVIOUS
<1>3. {i \in 1..n : p[i] = c} = {k}
  BY <1>1 DEF Distinct
<1>4. Min({k}) = k
  BY <1>2 DEF Min
<1>5. SelectInSeq(p, LAMBDA v : v = c) = k
  BY <1>3, <1>4 DEF SelectInSeq
<1> DEFINE x == SubSeq(p, 1, k - 1)
           y == SubSeq(p, k + 1, n)
<1>6. r = x \o y
  BY <1>1, <1>5 DEF RemoveFirst, RemoveAt
<1>7. x \in Seq(T) /\ Len(x) = k - 1 /\ \A i \in 1..(k - 1) : x[i] = p[i]
  <2>1. \A i \in 1..(k - 1) : p[i] \in T
    BY <1>2
  <2>2. /\ x \in Seq(T) /\ Len(x) = (IF 1 <= k - 1 THEN (k - 1) - 1 + 1 ELSE 0)
        /\ \A i \in 1..((k - 1) - 1 + 1) : x[i] = p[1 + i - 1]
    BY <1>2, <2>1, SubSeqProperties
  <2> HIDE DEF x
  <2> QED BY <1>2, <2>2
<1>8. y \in Seq(T) /\ Len(y) = n - k /\ \A i \in 1..(n - k) : y[i] = p[k + i]
  <2>1. \A i \in (k + 1)..n : p[i] \in T
    BY <1>2
  <2>2. /\ y \in Seq(T) /\ Len(y) = (IF k + 1 <= n THEN n - (k + 1) + 1 ELSE 0)
        /\ \A i \in 1..(n - (k + 1) + 1) : y[i] = p[(k + 1) + i - 1]
    BY <1>2, <2>1, SubSeqProperties
  <2> HIDE DEF y
  <2>3. ASSUME NEW i \in 1..(n - k) PROVE y[i] = p[k + i]
    <3>1. i \in 1..(n - (k + 1) + 1) /\ (k + 1) + i - 1 = k + i
      BY <1>2
    <3>2. y[i] = p[(k + 1) + i - 1]
      BY <2>2, <3>1
    <3> QED BY <3>1, <3>2
  <2>4. Len(y) = n - k
    BY <1>2, <2>2
  <2> QED BY <2>2, <2>3, <2>4
<1> HIDE DEF x, y, r
<1>9. /\ r \in Seq(T) /\ Len(r) = n - 1
      /\ \A i \in 1..(n - 1) : r[i] = IF i < k THEN p[i] ELSE p[i + 1]
  <2>0. /\ r \in Seq(T) /\ Len(r) = Len(x) + Len(y)
        /\ \A i \in 1..(Len(x) + Len(y)) : r[i] = IF i <= Len(x) THEN x[i] ELSE y[i - Len(x)]
    BY <1>6, <1>7, <1>8, ConcatProperties
  <2>1. r \in Seq(T) /\ Len(x) + Len(y) = n - 1 /\ Len(r) = n - 1
    BY <1>2, <1>7, <1>8, <2>0
  <2>2. ASSUME NEW i \in 1..(n - 1) PROVE r[i] = IF i < k THEN p[i] ELSE p[i + 1]
    <3>1. r[i] = IF i <= Len(x) THEN x[i] ELSE y[i - Len(x)]
      BY <2>0, <2>1
    <3>2. CASE i < k
      <4>1. i <= k - 1 /\ i \in 1..(k - 1)
        BY <1>2, <3>2
      <4> QED BY <3>1, <3>2, <4>1, <1>7
    <3>3. CASE ~(i < k)
      <4>1. ~(i <= k - 1) /\ i - (k - 1) \in 1..(n - k) /\ k + (i - (k - 1)) = i + 1
        BY <1>2, <3>3
      <4> QED BY <3>1, <3>3, <4>1, <1>7, <1>8
    <3> QED BY <3>2, <3>3
  <2> QED BY <2>1, <2>2
<1>10. Distinct(r)
  <2> SUFFICES ASSUME NEW i \in 1..(n - 1), NEW j \in 1..(n - 1), r[i] = r[j] PROVE i = j
    BY <1>9 DEF Distinct
  <2> DEFINE P(z) == IF z < k THEN z ELSE z + 1
  <2>1. r[i] = p[P(i)] /\ r[j] = p[P(j)] /\ P(i) \in 1..n /\ P(j) \in 1..n
    BY <1>2, <1>9
  <2>2. P(i) = P(j)
    BY <2>1 DEF Distinct
  <2> QED BY <1>2, <2>2
<1>11. ASSUME NEW e \in Elements(r) PROVE e \in Elements(p) \ {c}
  <2>1. PICK i \in 1..(n - 1) : r[i] = e
    BY <1>9, <1>11 DEF Elements
  <2> DEFINE z == IF i < k THEN i ELSE i + 1
  <2>2. e = p[z] /\ z \in 1..n /\ z # k
    BY <1>2, <1>9, <2>1
  <2>3. e # c
    BY <1>1, <2>2 DEF Distinct
  <2> QED BY <2>2, <2>3 DEF Elements
<1>12. ASSUME NEW e \in Elements(p) \ {c} PROVE e \in Elements(r)
  <2>1. PICK i \in 1..n : p[i] = e
    BY <1>12 DEF Elements
  <2>2. i # k
    BY <1>1, <1>12, <2>1
  <2> DEFINE z == IF i < k THEN i ELSE i - 1
  <2>3. z \in 1..(n - 1) /\ r[z] = e
    BY <1>2, <1>9, <2>1, <2>2
  <2> QED BY <1>9, <2>3 DEF Elements
<1> QED BY <1>9, <1>10, <1>11, <1>12 DEF r

\* After i messages: no problem yet, and the calls that wait are those without a result.
Walked(m, acc, i) ==
    /\ acc = [pending |-> acc.pending, error |-> "None"]
    /\ acc.pending \in Seq(ToolCalls \cup {NoCall}) /\ Distinct(acc.pending)
    /\ Before(m, i + 1, "ToolResult") \subseteq Before(m, i + 1, "ToolUse")
    /\ Elements(acc.pending) = Before(m, i + 1, "ToolUse") \ Before(m, i + 1, "ToolResult")

LEMMA StepWalked ==
    ASSUME NEW m \in Seq(Messages), NEW i \in Nat, i < Len(m), NEW acc, Walked(m, acc, i),
           InPlace(m, i + 1)
    PROVE  Walked(m, ValidateStep(m, acc, i + 1), i + 1)
<1> DEFINE j == i + 1
           U == Before(m, j, "ToolUse")
           A == Before(m, j, "ToolResult")
           msg == m[j]
           T == ToolCalls \cup {NoCall}
           new == ValidateStep(m, acc, j)
<1>1. j \in Nat /\ j # 0 /\ j \in 1..Len(m) /\ msg \in Messages
  OBVIOUS
<1>2. msg.call \in T
  BY <1>1 DEF Messages
<1>3. /\ Before(m, j + 1, "ToolUse") = U \cup (IF msg.block = "ToolUse" THEN {msg.call} ELSE {})
      /\ Before(m, j + 1, "ToolResult") = A \cup (IF msg.block = "ToolResult" THEN {msg.call} ELSE {})
  BY <1>1, BeforeNext
<1>4. /\ acc = [pending |-> acc.pending, error |-> "None"] /\ acc.pending \in Seq(T)
      /\ Distinct(acc.pending) /\ A \subseteq U /\ Elements(acc.pending) = U \ A
      /\ acc.error = "None"
  BY DEF Walked
<1>5. /\ msg.block = "ToolUse" => msg.role = "Assistant" /\ msg.call \notin U
      /\ msg.block = "ToolResult" => msg.role = "Tool" /\ msg.call \in U /\ msg.call \notin A
      /\ msg.role = "User" => U \subseteq A
  BY DEF InPlace
<1>6. CASE msg.block = "ToolUse"
  <2> DEFINE p == Append(acc.pending, msg.call)
  <2>1. new = [acc EXCEPT !.pending = p]
    BY <1>4, <1>5, <1>6 DEF ValidateStep
  <2>2. msg.call \notin Elements(acc.pending)
    BY <1>4, <1>5, <1>6
  <2>3. p \in Seq(T) /\ Distinct(p) /\ Elements(p) = Elements(acc.pending) \cup {msg.call}
    BY <1>2, <1>4, <2>2, AppendDistinct
  <2> HIDE DEF p
  <2>4. new = [pending |-> p, error |-> "None"]
    BY <1>4, <2>1
  <2>5. /\ Before(m, j + 1, "ToolUse") = U \cup {msg.call}
        /\ Before(m, j + 1, "ToolResult") = A
    BY <1>3, <1>6
  <2> HIDE DEF new, U, A, j, msg
  <2>6. Elements(p) = (U \cup {msg.call}) \ A
    BY <1>4, <1>5, <1>6, <2>3
  <2>7. new = [pending |-> new.pending, error |-> "None"] /\ new.pending = p
    BY <2>4
  <2>8. A \subseteq U \cup {msg.call}
    BY <1>4
  <2>9. Walked(m, new, j)
    BY <2>3, <2>5, <2>6, <2>7, <2>8 DEF Walked
  <2> QED BY <2>9 DEF new, j
<1>7. CASE msg.block = "ToolResult"
  <2> DEFINE p == RemoveFirst(acc.pending, msg.call)
  <2>1. msg.call \in Elements(acc.pending)
    BY <1>4, <1>5, <1>7
  <2>2. Contains(acc.pending, msg.call)
    BY <2>1 DEF Elements, Contains
  <2>3. new = [acc EXCEPT !.pending = p]
    BY <1>4, <1>5, <1>7, <2>2 DEF ValidateStep
  <2>4. p \in Seq(T) /\ Distinct(p) /\ Elements(p) = Elements(acc.pending) \ {msg.call}
    BY <1>4, <2>1, RemoveDistinct
  <2> HIDE DEF p
  <2>5. new = [pending |-> p, error |-> "None"]
    BY <1>4, <2>3
  <2>6. /\ Before(m, j + 1, "ToolUse") = U
        /\ Before(m, j + 1, "ToolResult") = A \cup {msg.call}
    BY <1>3, <1>7
  <2> HIDE DEF new, U, A, j, msg
  <2>7. Elements(p) = U \ (A \cup {msg.call})
    BY <1>4, <2>4
  <2>8. new = [pending |-> new.pending, error |-> "None"] /\ new.pending = p
    BY <2>5
  <2>9. A \cup {msg.call} \subseteq U
    BY <1>4, <1>5, <1>7
  <2>10. Walked(m, new, j)
    BY <2>4, <2>6, <2>7, <2>8, <2>9 DEF Walked
  <2> QED BY <2>10 DEF new, j
<1>8. CASE msg.block \notin {"ToolUse", "ToolResult"}
  <2>1. ~(msg.role = "User" /\ acc.pending # <<>>)
    <3>1. msg.role = "User" => Elements(acc.pending) = {}
      BY <1>4, <1>5
    <3>2. Elements(acc.pending) = {} => acc.pending = <<>>
      <4>1. Len(acc.pending) \in Nat /\ (Len(acc.pending) # 0 => 1 \in 1..Len(acc.pending))
        BY <1>4
      <4>2. Elements(acc.pending) = {} => Len(acc.pending) = 0
        BY <4>1 DEF Elements
      <4> QED BY <1>4, <4>2
    <3> QED BY <3>1, <3>2
  <2>2. new = acc
    BY <1>4, <1>8, <2>1 DEF ValidateStep
  <2>3. Before(m, j + 1, "ToolUse") = U /\ Before(m, j + 1, "ToolResult") = A
    BY <1>3, <1>8
  <2> HIDE DEF new, U, A, msg
  <2> QED BY <1>4, <2>2, <2>3 DEF Walked, new
<1> QED BY <1>6, <1>7, <1>8

\* In such a transcript only calls without a result can be wrong.
LEMMA OrderedIsSound ==
    ASSUME NEW m \in Seq(Messages), Ordered(m)
    PROVE  /\ validate_transcript(m) \in {"None", "UnresolvedToolCall"}
           /\ ValidTranscript(m) => CallsOf(m, "ToolUse") \subseteq CallsOf(m, "ToolResult")
           /\ CallsOf(m, "ToolResult") \subseteq CallsOf(m, "ToolUse")
<1>1. PICK walk : /\ WalkOf(m, walk)
                  /\ validate_transcript(m) =
                       IF walk[Len(m)].error = "None" /\ walk[Len(m)].pending # <<>>
                       THEN "UnresolvedToolCall" ELSE walk[Len(m)].error
  BY ValidateWalks
<1> DEFINE n == Len(m)
           S == {k \in 0..n : Walked(m, walk[k], k)}
<1>2. n \in Nat
  OBVIOUS
<1>3. \A i \in 0..n : walk[i] = IF i = 0 THEN Nothing ELSE ValidateStep(m, walk[i - 1], i)
  BY <1>1 DEF WalkOf
<1>4. 0 \in S
  <2>1. walk[0] = Nothing /\ 0 \in 0..n
    BY <1>2, <1>3
  <2>2. \A b : Before(m, 0 + 1, b) = {}
    BY DEF Before
  <2>3. Nothing = [pending |-> Nothing.pending, error |-> "None"] /\ Nothing.pending = <<>>
    BY DEF Nothing
  <2>4. <<>> \in Seq(ToolCalls \cup {NoCall}) /\ Distinct(<<>>) /\ Elements(<<>>) = {}
    BY DEF Distinct, Elements
  <2> QED BY <2>1, <2>2, <2>3, <2>4 DEF Walked
<1>5. ASSUME NEW k \in 0..n, k < n, k \in S
      PROVE  k + 1 \in S
  <2>1. k + 1 \in 0..n /\ k + 1 # 0 /\ (k + 1) - 1 = k /\ k \in Nat /\ k + 1 \in 1..n
    BY <1>2, <1>5
  <2>2. walk[k + 1] = ValidateStep(m, walk[k], k + 1)
    BY <1>3, <2>1
  <2>3. Walked(m, walk[k], k) /\ InPlace(m, k + 1)
    BY <1>5, <2>1 DEF Ordered
  <2> QED BY <1>5, <2>1, <2>2, <2>3, StepWalked
<1>6. n \in S
  <2> HIDE DEF S
  <2>1. 0..n \subseteq S
    BY <1>2, <1>4, <1>5, UpToLength
  <2> QED BY <2>1, <1>2
<1>7. Walked(m, walk[n], n)
  BY <1>6
<1>8. \A b : Before(m, n + 1, b) = CallsOf(m, b)
  BY BeforeEnd
<1>9. walk[n].error = "None"
  BY <1>7 DEF Walked
<1>10. walk[n].pending = <<>> => Elements(walk[n].pending) = {}
  BY DEF Elements
<1>11. /\ CallsOf(m, "ToolResult") \subseteq CallsOf(m, "ToolUse")
       /\ Elements(walk[n].pending) = CallsOf(m, "ToolUse") \ CallsOf(m, "ToolResult")
  BY <1>7, <1>8 DEF Walked
<1> QED BY <1>1, <1>9, <1>10, <1>11 DEF ValidTranscript

-----------------------------------------------------------------------------
(***************************************************************************)
(* What the operators do to the order of the transcript, and to the gate's *)
(* evaluations among the effects.                                          *)
(***************************************************************************)
Follows(s, t) ==
    /\ Ordered(s.messages) => Ordered(t.messages)
    /\ Verdicts(t) = Verdicts(s)

\* The call c of s has no result.
Owes(s, c) == c \in CallsOf(s.messages, "ToolUse") /\ c \notin CallsOf(s.messages, "ToolResult")

\* Every call of s has its result.
Resolved(s) == CallsOf(s.messages, "ToolUse") \subseteq CallsOf(s.messages, "ToolResult")

LEMMA FollowsTransitive ==
    ASSUME NEW s, NEW t, NEW u, Follows(s, t), Follows(t, u)
    PROVE  Follows(s, u)
BY DEF Follows

LEMMA SameFollows ==
    ASSUME NEW s, NEW t, t.messages = s.messages, t.fx = s.fx
    PROVE  Follows(s, t)
BY DEF Follows, Verdicts

LEMMA WithFollows ==
    ASSUME NEW s \in AgentStates, NEW e \in Seq(Effects),
           \A x \in EffectsIn(e) : x.kind \notin {"EvaluateCompletion", "CancelEvaluation"}
    PROVE  Follows(s, With(s, e))
<1>1. /\ With(s, e).messages = s.messages
      /\ EffectsIn(With(s, e).fx) = EffectsIn(s.fx) \cup EffectsIn(e)
  BY WithFields
<1> QED BY <1>1 DEF Follows, Verdicts

LEMMA EmitFollows ==
    ASSUME NEW s \in AgentStates, NEW event \in Events
    PROVE  Follows(s, With(s, <<Emit(event)>>))
<1> DEFINE e == <<Emit(event)>>
<1>1. e \in Seq(Effects) /\ EffectsIn(e) = {Emit(event)} /\ Emit(event).kind = "Emit"
  BY EmitsOne, EffectTypes, EffectsOfOne
<1> HIDE DEF e
<1>2. Follows(s, With(s, e))
  BY <1>1, WithFollows
<1> QED BY <1>2 DEF e

LEMMA FinishFollows ==
    ASSUME NEW s \in AgentStates, NEW event \in Events
    PROVE  Follows(s, With(s, <<Emit(event), FinishRun>>))
<1> DEFINE e == <<Emit(event), FinishRun>>
<1>1. /\ e \in Seq(Effects) /\ EffectsIn(e) = {Emit(event), FinishRun}
      /\ Emit(event).kind = "Emit" /\ FinishRun.kind = "FinishRun"
  BY EmitsAndFinishes, EffectTypes, EffectsOfTwo
<1> HIDE DEF e
<1>2. Follows(s, With(s, e))
  BY <1>1, WithFollows
<1> QED BY <1>2 DEF e

LEMMA FailFollows ==
    ASSUME NEW s \in AgentStates
    PROVE  Follows(s, fail(s))
<1> DEFINE m == discard_trailing_empty_assistant_message(s.messages)
           t == [s EXCEPT !.messages = m, !.status = "Failed", !.active_run = NoRun,
                          !.backend_in_flight = FALSE, !.runs = @ + 1]
<1>1. s.messages \in Seq(Messages) /\ m \in Seq(Messages) /\ s.runs + 1 \in Nat
      /\ "Failed" \in Statuses /\ NoRun \in Nat
  BY FieldTypes, DiscardType DEF Statuses, NoRun
<1>2. Ordered(s.messages) => Ordered(m)
  BY <1>1, DiscardOrdered
<1> HIDE DEF m
<1>3. t \in AgentStates /\ t.messages = m /\ t.fx = s.fx
  BY <1>1, Zenon DEF AgentStates
<1>4. fail(s) = With(t, <<Emit("Failed"), FinishRun>>)
  BY DEF fail, m
<1> HIDE DEF t
<1>5. Follows(s, t)
  BY <1>2, <1>3 DEF Follows, Verdicts
<1> QED BY <1>3, <1>4, <1>5, FinishFollows, FollowsTransitive DEF Events

LEMMA FinishSuccessFollows ==
    ASSUME NEW s \in AgentStates
    PROVE  Follows(s, finish_success(s))
<1> DEFINE t == [s EXCEPT !.status = "Idle", !.active_run = NoRun, !.runs = @ + 1]
<1>1. s.runs + 1 \in Nat /\ "Idle" \in Statuses /\ NoRun \in Nat
  BY FieldTypes DEF Statuses, NoRun
<1>2. t \in AgentStates /\ t.messages = s.messages /\ t.fx = s.fx
  BY <1>1, Zenon DEF AgentStates
<1>3. finish_success(s) = With(t, <<Emit("Completed"), FinishRun>>)
  BY DEF finish_success
<1> HIDE DEF t
<1> QED BY <1>2, <1>3, SameFollows, FinishFollows, FollowsTransitive DEF Events

LEMMA ApplyRuleOutcomeFollows ==
    ASSUME NEW s \in AgentStates, NEW outcome \in Outcome
    PROVE  LET t == apply_rule_outcome(s, outcome)
           IN Follows(s, t) /\ t.messages = s.messages
<1> DEFINE t == [s EXCEPT !.pending_profile = outcome.switch]
<1>1. t.messages = s.messages /\ t.fx = s.fx
  BY Zenon DEF AgentStates
<1>2. apply_rule_outcome(s, outcome) \in {s, t}
  BY DEF apply_rule_outcome
<1> HIDE DEF t
<1> QED BY <1>1, <1>2, SameFollows

LEMMA RunRulesFollows ==
    ASSUME NEW s \in AgentStates, NEW event \in RuleEvents, NEW o
    PROVE  Follows(s, RunRules(s, event, o))
<1> DEFINE t == apply_rule_outcome(s, evaluate(s, event, o))
<1>1. Follows(s, t) /\ t \in AgentStates
  BY EvaluateType, ApplyRuleOutcomeFollows, ApplyRuleOutcomeIdles, IdlesType
<1>2. RunRules(s, event, o) \in {t, fail(t)}
  BY DEF RunRules
<1> HIDE DEF t
<1> QED BY <1>1, <1>2, FailFollows, FollowsTransitive

LEMMA ResetRunFollows ==
    ASSUME NEW s \in AgentStates
    PROVE  LET t == ResetRun(s)
           IN t \in AgentStates /\ t.messages = s.messages /\ t.fx = s.fx
<1>1. 0 \in Nat
  OBVIOUS
<1> QED BY <1>1, Zenon DEF AgentStates, ResetRun

LEMMA ApplySwitchFollows ==
    ASSUME NEW s \in AgentStates, NEW p \in Profiles
    PROVE  Follows(s, apply_switch(s, p))
<1> DEFINE r == ResetRun(s)
           u == [r EXCEPT !.profile = p, !.switches = s.switches + 1, !.entered = TRUE]
           t == With(u, <<Emit("ProfileChanged")>>)
<1>1. r \in AgentStates /\ r.messages = s.messages /\ r.fx = s.fx
  BY ResetRunFollows
<1>2. u = switched_to(s, p) /\ u \in AgentStates
  BY SwitchedToIdles, IdlesType DEF switched_to
<1>3. apply_switch(s, p) \in {s, t, fail(t)}
  BY <1>2 DEF apply_switch
<1> HIDE DEF r
<1>4. u.messages = s.messages /\ u.fx = s.fx
  BY <1>1, Zenon DEF AgentStates
<1> HIDE DEF u
<1>5. Follows(u, t) /\ t \in AgentStates
  BY <1>2, EmitFollows, EmitIdles, IdlesType DEF Events
<1> HIDE DEF t
<1>6. Follows(s, t) /\ Follows(s, s)
  BY <1>4, <1>5, SameFollows, FollowsTransitive
<1> QED BY <1>3, <1>5, <1>6, FailFollows, FollowsTransitive

LEMMA TakePendingProfileFollows ==
    ASSUME NEW s \in AgentStates
    PROVE  Follows(s, TakePendingProfile(s))
<1> DEFINE t == [s EXCEPT !.pending_profile = NoProfile]
<1>1. t \in AgentStates /\ t.messages = s.messages /\ t.fx = s.fx
  BY Zenon DEF AgentStates
<1>2. TakePendingProfile(s) = s \/ (s.pending_profile # NoProfile /\
                                    TakePendingProfile(s) = apply_switch(t, s.pending_profile))
  BY DEF TakePendingProfile
<1> HIDE DEF t
<1>3. s.pending_profile # NoProfile => Follows(t, apply_switch(t, s.pending_profile))
  BY <1>1, FieldTypes, ApplySwitchFollows
<1> QED BY <1>1, <1>2, <1>3, SameFollows, FollowsTransitive

LEMMA SetBehaviorProfileFollows ==
    ASSUME NEW s \in AgentStates, NEW p \in Profiles
    PROVE  LET t == set_behavior_profile(s, p)
           IN Follows(s, t) /\ (s.active_run # NoRun => t.gate_attempts = s.gate_attempts)
<1> DEFINE t == [s EXCEPT !.pending_profile = p]
<1>1. t.messages = s.messages /\ t.fx = s.fx /\ t.gate_attempts = s.gate_attempts
  BY Zenon DEF AgentStates
<1>2. set_behavior_profile(s, p) = IF s.active_run # NoRun THEN t ELSE apply_switch(s, p)
  BY DEF set_behavior_profile
<1> HIDE DEF t
<1> QED BY <1>1, <1>2, SameFollows, ApplySwitchFollows

LEMMA CountTurnFollows ==
    ASSUME NEW s \in AgentStates
    PROVE  Follows(s, CountTurn(s))
<1> DEFINE g == [s EXCEPT !.final_grace_used = @ + 1]
           f == \/ Reached(Limits[s.profile].max_turns, s.turns + 1)
                \/ Reached(Limits[s.profile].max_tool_calls, s.tool_calls)
           u == [s EXCEPT !.turns = @ + 1, !.final_turn = f]
<1>1. CountTurn(s) \in {fail(s), g, u}
  BY DEF CountTurn
<1> HIDE DEF f
<1>2. g.messages = s.messages /\ g.fx = s.fx /\ u.messages = s.messages /\ u.fx = s.fx
  BY Zenon DEF AgentStates
<1> HIDE DEF g, u
<1> QED BY <1>1, <1>2, SameFollows, FailFollows

LEMMA EnterProfileFollows ==
    ASSUME NEW s \in AgentStates, NEW o
    PROVE  Follows(s, enter_profile(s, o))
<1> DEFINE t == [s EXCEPT !.entered = FALSE]
<1>1. t \in AgentStates /\ t.messages = s.messages /\ t.fx = s.fx
  BY Zenon DEF AgentStates
<1>2. enter_profile(s, o) = s \/ enter_profile(s, o) = RunRules(t, "ProfileEntered", o)
  BY DEF enter_profile
<1> HIDE DEF t
<1>3. Follows(t, RunRules(t, "ProfileEntered", o))
  BY <1>1, RunRulesFollows DEF RuleEvents
<1> QED BY <1>1, <1>2, <1>3, SameFollows, FollowsTransitive

LEMMA BeginTurnFollows ==
    ASSUME NEW s \in AgentStates, NEW o
    PROVE  Follows(s, begin_turn(s, o))
<1> DEFINE a == TakePendingProfile(s)
           b == IF a.active_run = NoRun THEN a ELSE enter_profile(a, o)
           c == IF b.active_run = NoRun THEN b ELSE CountTurn(b)
           d == IF c.active_run = NoRun THEN c ELSE RunRules(c, "BeforeModelRequest", o)
<1>1. begin_turn(s, o) = d
  BY DEF begin_turn, IfRunning
<1>2. Follows(s, a) /\ a \in AgentStates
  BY TakePendingProfileFollows, TakePendingProfileIdles, IdlesType
<1> HIDE DEF a
<1>3. Follows(s, b) /\ b \in AgentStates
  BY <1>2, EnterProfileFollows, EnterProfileIdles, IdlesType, FollowsTransitive
<1> HIDE DEF b
<1>4. Follows(s, c) /\ c \in AgentStates
  BY <1>3, CountTurnFollows, CountTurnIdles, IdlesType, FollowsTransitive
<1> HIDE DEF c
<1>5. Follows(s, d)
  BY <1>4, RunRulesFollows, FollowsTransitive DEF RuleEvents
<1> QED BY <1>1, <1>5

LEMMA BuildRequestFollows ==
    ASSUME NEW s \in AgentStates
    PROVE  Follows(s, build_request(s))
<1> DEFINE u == [s EXCEPT !.backend_in_flight = TRUE, !.next_request = @ + 1]
           x == ExecuteBackend(s.next_request, s.active_run)
           e == <<x>>
<1>1. s.next_request \in Nat /\ s.next_request + 1 \in Nat /\ s.active_run \in Nat
  BY FieldTypes
<1>2. u \in AgentStates /\ u.messages = s.messages /\ u.fx = s.fx
  BY <1>1, Zenon DEF AgentStates
<1>3. x \in Effects /\ x.kind = "ExecuteBackend"
  BY <1>1, EffectTypes
<1>4. e \in Seq(Effects) /\ EffectsIn(e) = {x}
  BY <1>3, EffectsOfOne
<1>5. build_request(s) = With(u, e)
  BY DEF build_request
<1> HIDE DEF u, e, x
<1>6. Follows(u, With(u, e))
  BY <1>2, <1>3, <1>4, WithFollows
<1> QED BY <1>2, <1>5, <1>6, SameFollows, FollowsTransitive

LEMMA StatusFollows ==
    ASSUME NEW s \in AgentStates, NEW status \in Statuses, NEW event \in Events
    PROVE  LET t == With([s EXCEPT !.status = status], <<Emit(event)>>)
           IN Follows(s, t) /\ t.gate_attempts = s.gate_attempts
<1> DEFINE u == [s EXCEPT !.status = status]
           t == With(u, <<Emit(event)>>)
<1>1. u \in AgentStates /\ u.messages = s.messages /\ u.fx = s.fx /\ u.gate_attempts = s.gate_attempts
  BY Zenon DEF AgentStates
<1> HIDE DEF u
<1>2. Follows(u, t)
  BY <1>1, EmitFollows
<1>3. t.gate_attempts = u.gate_attempts
  BY <1>1, Zenon DEF With, AgentStates
<1> HIDE DEF t
<1>4. Follows(s, t) /\ t.gate_attempts = s.gate_attempts
  BY <1>1, <1>2, <1>3, SameFollows, FollowsTransitive
<1> QED BY <1>4 DEF t, u

LEMMA RequestTurnFollows ==
    ASSUME NEW s \in AgentStates, NEW status \in Statuses, NEW o
    PROVE  Follows(s, RequestTurn(s, status, o))
<1> DEFINE b == begin_turn(s, o)
           u == [b EXCEPT !.status = status]
           c == With(u, <<Emit("StateChanged")>>)
           t == build_request(c)
<1>1. Follows(s, b) /\ b \in AgentStates
  BY BeginTurnFollows, BeginTurnIdles, IdlesType
<1>2. RequestTurn(s, status, o) = IF b.active_run = NoRun THEN b ELSE t
  BY DEF RequestTurn, IfRunning
<1> HIDE DEF b
<1>3. u \in AgentStates
  BY <1>1, Zenon DEF AgentStates
<1>4. Follows(b, c)
  BY <1>1, StatusFollows DEF Events
<1> HIDE DEF u
<1>5. c \in AgentStates
  BY <1>3, EmitIdles, IdlesType DEF Events
<1> HIDE DEF c
<1>6. Follows(c, t)
  BY <1>5, BuildRequestFollows
<1> HIDE DEF t
<1> QED BY <1>1, <1>2, <1>4, <1>6, FollowsTransitive

\* A request is made only when no call is pending.
Paces(s, t) == Queries(t) = Queries(s) \/ t.pending_tools = {}

LEMMA ContinueAfterToolsFollows ==
    ASSUME NEW s \in AgentStates, NEW o
    PROVE  LET t == continue_after_tools(s, o) IN Follows(s, t) /\ Paces(s, t)
<1> DEFINE t == continue_after_tools(s, o)
<1>1. t = s \/ (s.pending_tools = {} /\ t = RequestTurn(s, "WaitingForBackend", o))
  BY DEF continue_after_tools
<1>2. "WaitingForBackend" \in Statuses
  BY DEF Statuses
<1>3. Keeps(s, t)
  BY ContinueAfterToolsMoves DEF Moves, Idles, Inquires
<1> HIDE DEF t
<1>4. Follows(s, t)
  BY <1>1, <1>2, SameFollows, RequestTurnFollows
<1>5. Paces(s, t)
  BY <1>1, <1>3 DEF Paces, Keeps
<1> QED BY <1>4, <1>5 DEF t

LEMMA StartRunFollows ==
    ASSUME NEW s \in AgentStates, s.active_run = NoRun, NEW input, NEW o, Ordered(s.messages)
    PROVE  LET t == start_run(s, input, o)
           IN Follows(s, t) /\ (t.active_run # NoRun => Resolved(s))
<1> DEFINE p == TakePendingProfile(s)
           r == ResetRun(p)
           m == Append(r.messages, UserMessage)
           u == [r EXCEPT !.messages = m, !.status = "PreparingContext",
                          !.active_run = r.next_run, !.next_run = @ + 1]
           a == RunRules(u, "RunStart", o)
           q == IF a.active_run = NoRun THEN a ELSE RequestTurn(a, "PreparingContext", o)
           e == <<Emit("RunStarted")>>
           t == IF q.active_run = NoRun THEN q ELSE With(q, e)
<1>1. \/ start_run(s, input, o) = fail(s)
      \/ ValidTranscript(s.messages) /\ start_run(s, input, o) = t
  BY DEF start_run, IfRunning
<1>2. Follows(s, fail(s)) /\ fail(s).active_run = NoRun
  BY FailFollows, FailIdles
<1>3. ASSUME ValidTranscript(s.messages) PROVE Resolved(s) /\ Follows(s, t)
  <2>1. s.messages \in Seq(Messages)
    BY FieldTypes
  <2>2. Resolved(s)
    BY <1>3, <2>1, OrderedIsSound DEF Resolved
  <2>3. Idles(s, p) /\ p \in AgentStates /\ Follows(s, p)
    BY TakePendingProfileIdles, TakePendingProfileFollows, IdlesType
  <2> HIDE DEF p
  <2>4. r \in AgentStates /\ r.messages = p.messages /\ r.fx = p.fx
    BY <2>3, ResetRunFollows
  <2> HIDE DEF r
  <2>5. /\ r.messages \in Seq(Messages) /\ p.messages \in Seq(Messages)
        /\ UserMessage \in Messages /\ UserMessage.block = "Text"
        /\ r.next_run \in Nat /\ r.next_run + 1 \in Nat /\ "PreparingContext" \in Statuses
    BY <2>3, <2>4, FieldTypes, MessageTypes DEF UserMessage, Statuses
  <2>6. /\ CallsOf(p.messages, "ToolUse") = CallsOf(s.messages, "ToolUse")
        /\ CallsOf(p.messages, "ToolResult") = CallsOf(s.messages, "ToolResult")
    BY <2>1, <2>3, <2>5, CallsInOf DEF Idles, Keeps, Answers
  <2>7. Ordered(r.messages) /\ Continues(r.messages, UserMessage)
    BY <2>2, <2>3, <2>4, <2>5, <2>6 DEF Follows, Continues, Resolved
  <2>8. Ordered(m) /\ m \in Seq(Messages)
    BY <2>5, <2>7, AppendOrdered
  <2> HIDE DEF m
  <2>9. u \in AgentStates /\ u.messages = m /\ u.fx = r.fx
    BY <2>4, <2>5, <2>8, Zenon DEF AgentStates
  <2> HIDE DEF u
  <2>10. Follows(s, u)
    BY <2>3, <2>4, <2>8, <2>9 DEF Follows, Verdicts
  <2>11. Follows(s, a) /\ a \in AgentStates
    BY <2>9, <2>10, RunRulesFollows, RunRulesIdles, IdlesType, FollowsTransitive DEF RuleEvents
  <2> HIDE DEF a
  <2>12. Follows(s, q) /\ q \in AgentStates
    <3> DEFINE x == RequestTurn(a, "PreparingContext", o)
    <3>1. Follows(a, x)
      BY <2>5, <2>11, RequestTurnFollows
    <3>2. x \in AgentStates
      BY <2>5, <2>11, RequestTurnInquires DEF Idles, Inquires, Keeps
    <3> HIDE DEF x
    <3>3. q \in {a, x}
      BY DEF x
    <3> QED BY <2>11, <3>1, <3>2, <3>3, FollowsTransitive
  <2> HIDE DEF q
  <2>13. Follows(q, With(q, e))
    BY <2>12, EmitFollows DEF Events
  <2> HIDE DEF e
  <2> QED BY <2>2, <2>12, <2>13, FollowsTransitive
<1> HIDE DEF t
<1> QED BY <1>1, <1>2, <1>3

LEMMA NextAfterResultFollows ==
    ASSUME NEW s \in AgentStates, NEW stop, NEW o
    PROVE  LET t == next_after_result(s, stop, o) IN Follows(s, t) /\ Paces(s, t)
<1> DEFINE u == [s EXCEPT !.timeouts = 0]
           t == next_after_result(s, stop, o)
<1>1. 0 \in Nat
  OBVIOUS
<1>2. u \in AgentStates /\ u.messages = s.messages /\ u.fx = s.fx
  BY <1>1, Zenon DEF AgentStates
<1>3. t \in {fail(s), fail(u), continue_after_tools(s, o)}
  BY DEF next_after_result
<1> HIDE DEF u, t
<1>4. Follows(s, fail(s)) /\ Follows(s, fail(u))
  BY <1>2, FailFollows, SameFollows, FollowsTransitive
<1>5. Queries(u) = Queries(s)
  BY <1>2 DEF Queries
<1>6. Queries(fail(s)) = Queries(s) /\ Queries(fail(u)) = Queries(s)
  BY <1>2, <1>5, FailIdles DEF Idles
<1>7. Follows(s, t) /\ Paces(s, t)
  BY <1>3, <1>4, <1>6, ContinueAfterToolsFollows DEF Paces
<1> QED BY <1>7 DEF t

LEMMA RecordToolResultFollows ==
    ASSUME NEW s \in AgentStates, NEW c \in ToolCalls, NEW executed, NEW o, Owes(s, c)
    PROVE  LET t == record_tool_result(s, c, executed, o) IN Follows(s, t) /\ Paces(s, t)
<1> DEFINE outcome == IF executed THEN evaluate(s, "PostToolUse", o) ELSE Quiet
           a == apply_rule_outcome(s, outcome)
           msg == ToolResultMessage(c, "recorded")
           m == Append(a.messages, msg)
           v == [a EXCEPT !.messages = m]
           u == With(v, <<Emit("ToolCallCompleted")>>)
           t == next_after_result(u, outcome.stop, o)
<1>1. outcome \in Outcome
  BY EvaluateType DEF RuleEvents, Quiet, Outcome
<1>2. record_tool_result(s, c, executed, o) = t
  BY DEF record_tool_result
<1> HIDE DEF outcome
<1>3. Idles(s, a) /\ a \in AgentStates /\ Follows(s, a) /\ a.messages = s.messages
  BY <1>1, ApplyRuleOutcomeIdles, ApplyRuleOutcomeFollows, IdlesType
<1> HIDE DEF a
<1>4. msg \in Messages /\ msg.block = "ToolResult" /\ msg.call = c /\ msg.role = "Tool"
  BY MessageTypes DEF ToolResultMessage
<1>5. a.messages \in Seq(Messages)
  BY <1>3, FieldTypes
<1> HIDE DEF msg
<1>6. Continues(a.messages, msg)
  BY <1>3, <1>4 DEF Continues, Owes
<1>7. m \in Seq(Messages) /\ (Ordered(a.messages) => Ordered(m))
  BY <1>4, <1>5, <1>6, AppendOrdered
<1> HIDE DEF m
<1>8. v \in AgentStates /\ v.messages = m /\ v.fx = a.fx
  BY <1>3, <1>7, Zenon DEF AgentStates
<1> HIDE DEF v
<1>9. Follows(s, v) /\ Queries(v) = Queries(s)
  BY <1>3, <1>7, <1>8 DEF Follows, Verdicts, Idles, Queries
<1>10. Follows(v, u) /\ Idles(v, u) /\ u \in AgentStates
  BY <1>8, EmitFollows, EmitIdles, IdlesType DEF Events
<1> HIDE DEF u
<1>11. Follows(s, u) /\ Queries(u) = Queries(s)
  BY <1>9, <1>10, FollowsTransitive DEF Idles
<1>12. Follows(u, t) /\ Paces(u, t)
  BY <1>10, NextAfterResultFollows
<1> HIDE DEF t
<1> QED BY <1>2, <1>11, <1>12, FollowsTransitive DEF Paces

LEMMA SettleFollows ==
    ASSUME NEW s \in AgentStates, NEW c \in ToolCalls, NEW k \in Nat, NEW executed, NEW o, Owes(s, c)
    PROVE  LET t == record_tool_result([Settle(s, c) EXCEPT !.timeouts = k], c, executed, o)
           IN Follows(s, t) /\ Paces(s, t)
<1> DEFINE r == Settle(s, c)
           v == [r EXCEPT !.timeouts = k]
           t == record_tool_result(v, c, executed, o)
<1>1. s.pending_tools \ {c} \in SUBSET ToolCalls /\ s.pending_permissions \ {c} \in SUBSET ToolCalls
  BY FieldTypes
<1>2. r \in AgentStates /\ r.messages = s.messages /\ r.fx = s.fx
  BY <1>1, Zenon DEF AgentStates, Settle
<1> HIDE DEF r
<1>3. v \in AgentStates /\ v.messages = s.messages /\ v.fx = s.fx
  BY <1>2, Zenon DEF AgentStates
<1> HIDE DEF v
<1>4. Owes(v, c) /\ Follows(s, v) /\ Queries(v) = Queries(s)
  BY <1>3, SameFollows DEF Owes, Queries
<1>5. Follows(v, t) /\ Paces(v, t)
  BY <1>3, <1>4, RecordToolResultFollows
<1> HIDE DEF t
<1>6. Follows(s, t) /\ Paces(s, t)
  BY <1>4, <1>5, FollowsTransitive DEF Paces
<1> QED BY <1>6 DEF t, v, r

LEMMA ToolCompletedFollows ==
    ASSUME NEW s \in AgentStates, NEW c \in ToolCalls, NEW o, c \in s.pending_tools => Owes(s, c)
    PROVE  LET t == tool_completed(s, c, o) IN Follows(s, t) /\ Paces(s, t)
<1> DEFINE executed == TRUE
           x == record_tool_result([Settle(s, c) EXCEPT !.timeouts = 0], c, executed, o)
<1>1. tool_completed(s, c, o) = IF c \notin s.pending_tools THEN s ELSE x
  BY DEF tool_completed
<1> HIDE DEF executed
<1>2. c \in s.pending_tools => Follows(s, x) /\ Paces(s, x)
  BY SettleFollows
<1> HIDE DEF x
<1> QED BY <1>1, <1>2, SameFollows DEF Paces

LEMMA ToolFailedFollows ==
    ASSUME NEW s \in AgentStates, NEW c \in ToolCalls, NEW error, NEW o,
           c \in s.pending_tools => Owes(s, c)
    PROVE  LET t == tool_failed(s, c, error, o) IN Follows(s, t) /\ Paces(s, t)
<1> DEFINE k == IF error = "Timeout" THEN s.timeouts + 1 ELSE 0
           executed == error # "Denied"
           x == record_tool_result([Settle(s, c) EXCEPT !.timeouts = k], c, executed, o)
<1>1. k \in Nat
  BY FieldTypes
<1>2. Settle(s, c).timeouts = s.timeouts
  BY Zenon DEF AgentStates, Settle
<1>3. tool_failed(s, c, error, o) = IF c \notin s.pending_tools THEN s ELSE x
  BY <1>2 DEF tool_failed
<1> HIDE DEF k, executed
<1>4. c \in s.pending_tools => Follows(s, x) /\ Paces(s, x)
  BY <1>1, SettleFollows
<1> HIDE DEF x
<1> QED BY <1>3, <1>4, SameFollows DEF Paces

LEMMA RecordToolRequestFollows ==
    ASSUME NEW s \in AgentStates, NEW c \in ToolCalls, c \notin CallsIn(s.messages),
           CallsOf(s.messages, "ToolResult") \subseteq CallsOf(s.messages, "ToolUse")
    PROVE  LET t == record_tool_request(s, c) IN Follows(s, t) /\ Owes(t, c)
<1> DEFINE msg == ToolUseMessage(c)
           m == push_tool_use(s.messages, c)
           x == s.pending_tools \cup {c}
           v == [s EXCEPT !.messages = m, !.pending_tools = x]
           u == With(v, <<Emit("ToolCallRequested")>>)
<1>1. record_tool_request(s, c) = u
  BY DEF record_tool_request
<1>2. msg \in Messages /\ msg.block = "ToolUse" /\ msg.call = c /\ msg.role = "Assistant"
  BY MessageTypes DEF ToolUseMessage
<1>3. s.messages \in Seq(Messages) /\ x \in SUBSET ToolCalls
  BY FieldTypes
<1>4. m = FillOrAppend(s.messages, msg)
  BY DEF push_tool_use
<1> HIDE DEF msg, m, x
<1>5. c \notin CallsOf(s.messages, "ToolUse")
  BY <1>3, CallsInOf
<1>6. Continues(s.messages, msg)
  BY <1>2, <1>5 DEF Continues
<1>7. m \in Seq(Messages) /\ (Ordered(s.messages) => Ordered(m))
  BY <1>2, <1>3, <1>4, <1>6, FillOrAppendCalls, FillOrdered
<1>8. CallsOf(m, "ToolUse") = CallsOf(s.messages, "ToolUse") \cup {c}
  BY <1>2, <1>3, <1>4, FillCallsOf
<1>9. CallsOf(m, "ToolResult") = CallsOf(s.messages, "ToolResult")
  BY <1>2, <1>3, <1>4, FillCallsOf
<1>10. v \in AgentStates /\ v.messages = m /\ v.fx = s.fx
  BY <1>3, <1>7, Zenon DEF AgentStates
<1> HIDE DEF v
<1>11. Follows(s, v)
  BY <1>7, <1>10 DEF Follows, Verdicts
<1>12. Follows(v, u)
  BY <1>10, EmitFollows DEF Events
<1>13. u.messages = v.messages
  BY <1>10, EmitsOne, WithFields DEF Events
<1> HIDE DEF u
<1>14. Owes(u, c)
  BY <1>5, <1>8, <1>9, <1>10, <1>13 DEF Owes
<1> QED BY <1>1, <1>11, <1>12, <1>14, FollowsTransitive

LEMMA ExecuteNowFollows ==
    ASSUME NEW s \in AgentStates, NEW c \in ToolCalls
    PROVE  Follows(s, execute_now(s, c))
<1> DEFINE u == [s EXCEPT !.status = "Executing"]
           e == <<Emit("StateChanged"), ExecuteTool(c)>>
<1>1. "Executing" \in Statuses
  BY DEF Statuses
<1>2. u \in AgentStates /\ u.messages = s.messages /\ u.fx = s.fx
  BY <1>1, Zenon DEF AgentStates
<1>3. execute_now(s, c) = With(u, e)
  BY DEF execute_now
<1>4. /\ Emit("StateChanged") \in Effects /\ Emit("StateChanged").kind = "Emit"
      /\ ExecuteTool(c) \in Effects /\ ExecuteTool(c).kind = "ExecuteTool"
  <2>1. ExecuteTool(c).kind = "ExecuteTool"
    BY DEF ExecuteTool
  <2> QED BY <2>1, EffectTypes DEF Events
<1>5. e \in Seq(Effects) /\ EffectsIn(e) = {Emit("StateChanged"), ExecuteTool(c)}
  BY <1>4, EffectsOfTwo
<1> HIDE DEF u, e
<1>6. Follows(u, With(u, e))
  BY <1>2, <1>4, <1>5, WithFollows
<1> QED BY <1>2, <1>3, <1>6, SameFollows, FollowsTransitive

LEMMA AskPermissionFollows ==
    ASSUME NEW s \in AgentStates, NEW c \in ToolCalls
    PROVE  Follows(s, ask_permission(s, c))
<1> DEFINE x == s.pending_permissions \cup {c}
           u == [s EXCEPT !.status = "WaitingForPermission", !.pending_permissions = x]
<1>1. "WaitingForPermission" \in Statuses /\ x \in SUBSET ToolCalls
  BY FieldTypes DEF Statuses
<1>2. ask_permission(s, c) = With(u, <<Emit("PermissionRequested")>>)
  BY DEF ask_permission
<1> HIDE DEF x
<1>3. u \in AgentStates /\ u.messages = s.messages /\ u.fx = s.fx
  BY <1>1, Zenon DEF AgentStates
<1> HIDE DEF u
<1>4. Follows(u, With(u, <<Emit("PermissionRequested")>>))
  BY <1>3, EmitFollows DEF Events
<1> QED BY <1>2, <1>3, <1>4, SameFollows, FollowsTransitive

LEMMA AdmitToFollows ==
    ASSUME NEW s \in AgentStates, NEW c \in ToolCalls, Owes(s, c), NEW mode, NEW o
    PROVE  Follows(s, AdmitTo(s, c, mode, o))
<1> DEFINE t == [s EXCEPT !.tool_calls = @ + 1]
<1>1. s.tool_calls + 1 \in Nat
  BY FieldTypes
<1>2. t \in AgentStates /\ t.messages = s.messages /\ t.fx = s.fx
  BY <1>1, Zenon DEF AgentStates
<1>3. AdmitTo(s, c, mode, o) \in {tool_failed(s, c, "Denied", o), ask_permission(t, c), execute_now(t, c)}
  BY DEF AdmitTo
<1> HIDE DEF t
<1>4. Follows(s, ask_permission(t, c)) /\ Follows(s, execute_now(t, c))
  BY <1>2, SameFollows, AskPermissionFollows, ExecuteNowFollows, FollowsTransitive
<1>5. Follows(s, tool_failed(s, c, "Denied", o))
  BY ToolFailedFollows
<1> QED BY <1>3, <1>4, <1>5

LEMMA ToolRequestedFollows ==
    ASSUME NEW s \in AgentStates, NEW c \in ToolCalls, NEW o, c \notin CallsIn(s.messages),
           CallsOf(s.messages, "ToolResult") \subseteq CallsOf(s.messages, "ToolUse")
    PROVE  Follows(s, tool_requested(s, c, o))
<1> DEFINE u == record_tool_request(s, c)
           outcome == evaluate(s, "PreToolUse", o)
           v == apply_rule_outcome(u, outcome)
           d == tool_failed(u, c, "Denied", o)
           x == tool_failed(v, c, "Denied", o)
           y == AdmitTo(v, c, approval_for(s, c, outcome.decision), o)
<1>1. tool_requested(s, c, o) \in {d, fail(x), y}
  BY DEF tool_requested
<1>2. Follows(s, u) /\ Owes(u, c) /\ u \in AgentStates
  BY RecordToolRequestFollows, RecordToolRequestType
<1>3. outcome \in Outcome
  BY EvaluateType DEF RuleEvents
<1> HIDE DEF u
<1>4. Follows(u, v) /\ v.messages = u.messages /\ v \in AgentStates
  BY <1>2, <1>3, ApplyRuleOutcomeFollows, ApplyRuleOutcomeIdles, IdlesType
<1> HIDE DEF v, outcome
<1>5. Owes(v, c)
  BY <1>2, <1>4 DEF Owes
<1>6. Follows(u, d) /\ Follows(v, x) /\ Follows(v, y)
  BY <1>2, <1>4, <1>5, ToolFailedFollows, AdmitToFollows
<1>7. x \in AgentStates
  BY <1>4, ToolFailedSteps, StepsType
<1> HIDE DEF d, x, y
<1>8. Follows(x, fail(x))
  BY <1>7, FailFollows
<1> QED BY <1>1, <1>2, <1>4, <1>6, <1>8, FollowsTransitive

LEMMA PermissionResolvedFollows ==
    ASSUME NEW s \in AgentStates, NEW c \in ToolCalls, NEW yes, NEW o, c \in s.pending_tools => Owes(s, c)
    PROVE  LET t == permission_resolved(s, c, yes, o) IN Follows(s, t) /\ Paces(s, t)
<1> DEFINE x == s.pending_permissions \ {c}
           v == [s EXCEPT !.pending_permissions = x]
           t == permission_resolved(s, c, yes, o)
<1>1. x \in SUBSET ToolCalls
  BY FieldTypes
<1>2. t \in {s, v, execute_now(v, c), tool_failed(v, c, "Denied", o)}
  BY DEF permission_resolved
<1> HIDE DEF x
<1>3. v \in AgentStates /\ v.messages = s.messages /\ v.fx = s.fx /\ v.pending_tools = s.pending_tools
  BY <1>1, Zenon DEF AgentStates
<1> HIDE DEF v, t
<1>4. Follows(s, v) /\ Queries(v) = Queries(s) /\ (c \in v.pending_tools => Owes(v, c))
  BY <1>3, SameFollows DEF Queries, Owes
<1>5. /\ Follows(v, execute_now(v, c)) /\ Queries(execute_now(v, c)) = Queries(v)
      /\ Follows(v, tool_failed(v, c, "Denied", o)) /\ Paces(v, tool_failed(v, c, "Denied", o))
  BY <1>3, <1>4, ExecuteNowFollows, ExecuteNowIdles, ToolFailedFollows DEF Idles
<1>6. Follows(s, s)
  BY SameFollows
<1>7. Follows(s, t) /\ Paces(s, t)
  BY <1>2, <1>4, <1>5, <1>6, FollowsTransitive DEF Paces
<1> QED BY <1>7 DEF t

LEMMA SendAnswerBackFollows ==
    ASSUME NEW s \in AgentStates, NEW o, Resolved(s)
    PROVE  Follows(s, send_answer_back(s, o))
<1> DEFINE m == Append(s.messages, UserMessage)
           u == [s EXCEPT !.gate_continuations = @ + 1, !.messages = m]
<1>1. send_answer_back(s, o) = RequestTurn(u, "WaitingForBackend", o)
  BY DEF send_answer_back
<1>2. s.messages \in Seq(Messages) /\ UserMessage \in Messages /\ UserMessage.block = "Text"
  BY FieldTypes, MessageTypes DEF UserMessage
<1>3. Continues(s.messages, UserMessage)
  BY <1>2 DEF Continues, Resolved
<1>4. /\ m \in Seq(Messages) /\ s.gate_continuations + 1 \in Nat /\ "WaitingForBackend" \in Statuses
      /\ Ordered(s.messages) => Ordered(m)
  BY <1>2, <1>3, FieldTypes, AppendOrdered DEF Statuses
<1> HIDE DEF m
<1>5. u \in AgentStates /\ u.messages = m /\ u.fx = s.fx
  BY <1>4, Zenon DEF AgentStates
<1> HIDE DEF u
<1>6. Follows(s, u)
  BY <1>4, <1>5 DEF Follows, Verdicts
<1> QED BY <1>1, <1>4, <1>5, <1>6, RequestTurnFollows, FollowsTransitive

LEMMA GateDecidedFollows ==
    ASSUME NEW s \in AgentStates, NEW failures, NEW o, Resolved(s)
    PROVE  Follows(s, gate_decided(s, failures, o))
<1> DEFINE u == With(s, <<Emit("CompletionGateEvaluated")>>)
           t == gate_decided(s, failures, o)
<1>1. t \in {finish_success(u), send_answer_back(u, o), fail(u)}
  BY DEF gate_decided
<1>2. u \in AgentStates /\ Follows(s, u)
  BY EmitIdles, EmitFollows, IdlesType DEF Events
<1>3. u.messages = s.messages
  BY EmitsOne, WithFields DEF Events
<1> HIDE DEF u
<1>4. Resolved(u)
  BY <1>3 DEF Resolved
<1>5. Follows(u, finish_success(u)) /\ Follows(u, send_answer_back(u, o)) /\ Follows(u, fail(u))
  BY <1>2, <1>4, FinishSuccessFollows, SendAnswerBackFollows, FailFollows
<1> HIDE DEF t
<1>6. Follows(s, t)
  BY <1>1, <1>2, <1>5, FollowsTransitive
<1> QED BY <1>6 DEF t

\* s proposes its answer and t waits for the verdict.
Submits(s, t) ==
    /\ Verifies(s, t) /\ t.messages = s.messages
    /\ Verdicts(t) = Verdicts(s) \cup {EvaluateCompletion(t.active_run, t.gate_attempts, t.profile)}

LEMMA ProposeCompletionFollows ==
    ASSUME NEW s \in AgentStates, NEW failures, NEW o, Resolved(s)
    PROVE  LET t == propose_completion(s, failures, o)
           IN (Follows(s, t) /\ (Idles(s, t) \/ Inquires(s, t))) \/ Submits(s, t)
<1> DEFINE u == [s EXCEPT !.gate_attempts = @ + 1]
           v == [u EXCEPT !.status = "Verifying"]
           x == EvaluateCompletion(u.active_run, u.gate_attempts, u.profile)
           e == <<Emit("StateChanged"), x>>
           w == With(v, e)
           t == propose_completion(s, failures, o)
<1>1. t \in {finish_success(s), gate_decided(u, failures, o), w}
  BY DEF propose_completion
<1>2. s.gate_attempts + 1 \in Nat /\ "Verifying" \in Statuses
  BY FieldTypes DEF Statuses
<1>3. u \in AgentStates
  BY <1>2, Zenon DEF AgentStates
<1>4. Untouched(s, u) /\ u.messages = s.messages /\ u.status = s.status
  BY <1>3, Zenon DEF AgentStates, Untouched
<1> HIDE DEF u
<1>5. Idles(s, u) /\ Follows(s, u) /\ Resolved(u)
  BY <1>4, UntouchedIdles, SameFollows DEF Untouched, Resolved
<1>6. v \in AgentStates
  BY <1>2, <1>3, Zenon DEF AgentStates
<1>7. Untouched(u, v) /\ v.messages = u.messages /\ v.gate_attempts = u.gate_attempts
  BY <1>3, <1>6, Zenon DEF AgentStates, Untouched
<1>8. /\ Emit("StateChanged") \in Effects /\ Emit("StateChanged").kind = "Emit"
      /\ x \in Effects /\ x.kind = "EvaluateCompletion"
  BY <1>3, FieldTypes, EffectTypes DEF Events
<1>9. e \in Seq(Effects) /\ EffectsIn(e) = {Emit("StateChanged"), x}
  BY <1>8, EffectsOfTwo
<1> HIDE DEF v, e
<1>10. w.gate_attempts = v.gate_attempts
  BY <1>6, Zenon DEF With, AgentStates
<1>11. /\ w \in AgentStates /\ w.messages = v.messages
       /\ w.pending_tools = v.pending_tools /\ w.queued_inputs = v.queued_inputs
       /\ w.next_run = v.next_run /\ w.active_run = v.active_run
       /\ w.backend_in_flight = v.backend_in_flight /\ w.profile = v.profile
       /\ w.switches = v.switches /\ w.turns = v.turns /\ w.final_turn = v.final_turn
       /\ w.final_grace_used = v.final_grace_used
       /\ EffectsIn(w.fx) = EffectsIn(v.fx) \cup EffectsIn(e) /\ Extends(v, w)
  BY <1>6, <1>9, WithFields
<1> HIDE DEF w
<1>12. x = EvaluateCompletion(w.active_run, w.gate_attempts, w.profile)
  BY <1>7, <1>10, <1>11 DEF Untouched
<1> HIDE DEF x
<1>13. EffectsIn(w.fx) = EffectsIn(s.fx) \cup {Emit("StateChanged"), x} /\ Extends(s, w)
  BY <1>4, <1>7, <1>9, <1>11 DEF Untouched, Extends
<1>14. /\ w.messages = s.messages /\ w.pending_tools = s.pending_tools
       /\ w.queued_inputs = s.queued_inputs /\ w.next_run = s.next_run
       /\ w.active_run = s.active_run /\ w.backend_in_flight = s.backend_in_flight
       /\ w.profile = s.profile /\ w.switches = s.switches /\ w.turns = s.turns
       /\ w.final_turn = s.final_turn /\ w.final_grace_used = s.final_grace_used
  BY <1>4, <1>7, <1>11 DEF Untouched
<1>15. Queries(w) = Queries(s) /\ Hangups(w) = Hangups(s)
  BY <1>8, <1>13 DEF Queries, Hangups, OfKind
<1>16. Drops(w) = Drops(s)
  BY <1>8, <1>13 DEF Drops, Dropped, OfKind
<1>17. Finishes(w) => Finishes(s)
  <2>1. FinishRun.kind = "FinishRun"
    BY EffectTypes
  <2> QED BY <2>1, <1>8, <1>13 DEF Finishes
<1>18. \A n \in Nat : Budget(s, n) => Budget(w, n)
  BY <1>14, SameBudget
<1>19. Verifies(s, w)
  BY <1>11, <1>13, <1>14, <1>15, <1>16, <1>17, <1>18 DEF Verifies, Keeps
<1>20. Verdicts(w) = Verdicts(s) \cup {x}
  BY <1>8, <1>13 DEF Verdicts
<1>21. Submits(s, w)
  BY <1>12, <1>14, <1>19, <1>20 DEF Submits
<1>22. Idles(s, finish_success(s)) /\ Follows(s, finish_success(s))
  BY FinishSuccessIdles, FinishSuccessFollows
<1>23. LET g == gate_decided(u, failures, o) IN (Idles(u, g) \/ Inquires(u, g)) /\ Follows(u, g)
  BY <1>3, <1>5, GateDecidedMoves, GateDecidedFollows
<1> HIDE DEF t
<1>24. (Follows(s, t) /\ (Idles(s, t) \/ Inquires(s, t))) \/ Submits(s, t)
  BY <1>1, <1>5, <1>21, <1>22, <1>23, IdlesComposes, IdlesThenInquires, FollowsTransitive
<1> QED BY <1>24 DEF t

LEMMA CompletionEvaluatedFollows ==
    ASSUME NEW s \in AgentStates, NEW r, NEW attempt, NEW failures, NEW o,
           VerdictExpected(s, r, attempt) => Resolved(s)
    PROVE  Follows(s, completion_evaluated(s, r, attempt, failures, o))
<1>1. \/ completion_evaluated(s, r, attempt, failures, o) = s
      \/ /\ VerdictExpected(s, r, attempt)
         /\ completion_evaluated(s, r, attempt, failures, o) = gate_decided(s, failures, o)
  BY DEF completion_evaluated
<1> QED BY <1>1, GateDecidedFollows, SameFollows

LEMMA CompletedFollows ==
    ASSUME NEW s \in AgentStates, NEW reason, NEW failures, NEW o,
           reason \notin {"tool_use", "max_tokens"} => Resolved(s) /\ s.pending_tools = {}
    PROVE  LET t == completed(s, reason, failures, o)
           IN \E u : /\ Closes(s, u) /\ Follows(s, u)
                     /\ \/ Moves(u, t) /\ Follows(u, t) /\ Paces(u, t)
                        \/ Submits(u, t) /\ s.pending_tools = {}
<1> DEFINE m == discard_trailing_empty_assistant_message(s.messages)
           u == [s EXCEPT !.backend_in_flight = FALSE, !.messages = m]
           t == completed(s, reason, failures, o)
<1>1. /\ s.messages \in Seq(Messages) /\ m \in Seq(Messages)
      /\ CallsOf(m, "ToolUse") = CallsOf(s.messages, "ToolUse")
      /\ CallsOf(m, "ToolResult") = CallsOf(s.messages, "ToolResult")
      /\ Ordered(s.messages) => Ordered(m)
  BY FieldTypes, DiscardType, DiscardCallsOf, DiscardOrdered
<1>2. \/ t \in {fail(u), continue_after_tools(u, o)}
      \/ reason \notin {"tool_use", "max_tokens"} /\ t = propose_completion(u, failures, o)
  BY DEF completed
<1> HIDE DEF m
<1>3. u \in AgentStates
  BY <1>1, Zenon DEF AgentStates
<1>4. /\ u.messages = m /\ u.pending_tools = s.pending_tools /\ u.fx = s.fx
      /\ u.queued_inputs = s.queued_inputs /\ u.next_run = s.next_run /\ u.status = s.status
      /\ u.active_run = s.active_run /\ u.backend_in_flight = FALSE /\ u.profile = s.profile
      /\ u.switches = s.switches /\ u.turns = s.turns /\ u.final_turn = s.final_turn
      /\ u.final_grace_used = s.final_grace_used
  BY Zenon DEF AgentStates
<1> HIDE DEF u, t
<1>5. \A n \in Nat : Budget(s, n) => Budget(u, n)
  BY <1>4, SameBudget
<1>6. Keeps(s, u) /\ Queries(u) = Queries(s) /\ Hangups(u) = Hangups(s) /\ (Finishes(u) <=> Finishes(s))
  BY <1>1, <1>3, <1>4, CallsInOf DEF Keeps, Queries, Hangups, Drops, Finishes, Extends, Answers
<1>7. Closes(s, u) /\ Follows(s, u)
  BY <1>1, <1>4, <1>5, <1>6 DEF Closes, Follows, Verdicts
<1>8. ASSUME t \in {fail(u), continue_after_tools(u, o)}
      PROVE  Moves(u, t) /\ Follows(u, t) /\ Paces(u, t)
  BY <1>3, <1>8, FailIdles, FailFollows, ContinueAfterToolsMoves, ContinueAfterToolsFollows
     DEF Moves, Paces, Idles
<1>9. ASSUME reason \notin {"tool_use", "max_tokens"}, t = propose_completion(u, failures, o)
      PROVE  (Moves(u, t) /\ Follows(u, t) /\ Paces(u, t)) \/ (Submits(u, t) /\ s.pending_tools = {})
  <2>1. Resolved(u) /\ u.pending_tools = {} /\ ~u.backend_in_flight /\ s.pending_tools = {}
    BY <1>1, <1>4, <1>9 DEF Resolved
  <2>2. (Follows(u, t) /\ (Idles(u, t) \/ Inquires(u, t))) \/ Submits(u, t)
    BY <1>3, <1>9, <2>1, ProposeCompletionFollows
  <2>3. Idles(u, t) \/ Inquires(u, t) => Moves(u, t) /\ Paces(u, t)
    BY <2>1 DEF Moves, Paces, Idles, Inquires, Keeps
  <2> QED BY <2>1, <2>2, <2>3
<1>10. (Moves(u, t) /\ Follows(u, t) /\ Paces(u, t)) \/ (Submits(u, t) /\ s.pending_tools = {})
  BY <1>2, <1>8, <1>9
<1> QED BY <1>7, <1>10 DEF t

LEMMA TextDeltaFollows ==
    ASSUME NEW s \in AgentStates
    PROVE  Follows(s, text_delta(s))
<1> DEFINE m == append_assistant_text(s.messages)
           t == [s EXCEPT !.status = "Streaming", !.messages = m]
<1>1. /\ s.messages \in Seq(Messages) /\ TextMessage \in Messages /\ TextMessage.block = "Text"
      /\ TextMessage.role = "Assistant" /\ "Streaming" \in Statuses
  BY FieldTypes, MessageTypes DEF TextMessage, Statuses
<1>2. m \in {s.messages, FillOrAppend(s.messages, TextMessage)}
  BY DEF append_assistant_text
<1>3. text_delta(s) = With(t, <<Emit("AssistantTextDelta")>>)
  BY DEF text_delta
<1>4. Continues(s.messages, TextMessage)
  BY <1>1 DEF Continues
<1> HIDE DEF m
<1>5. m \in Seq(Messages) /\ (Ordered(s.messages) => Ordered(m))
  BY <1>1, <1>2, <1>4, FillOrAppendCalls, FillOrdered
<1>6. t \in AgentStates /\ t.messages = m /\ t.fx = s.fx
  BY <1>1, <1>5, Zenon DEF AgentStates
<1> HIDE DEF t
<1>7. Follows(s, t)
  BY <1>5, <1>6 DEF Follows, Verdicts
<1> QED BY <1>3, <1>6, <1>7, EmitFollows, FollowsTransitive DEF Events

LEMMA ReasoningDeltaFollows ==
    ASSUME NEW s \in AgentStates
    PROVE  Follows(s, reasoning_delta(s))
<1> DEFINE m == assistant_message_id(s.messages)
           t == [s EXCEPT !.messages = m]
<1>1. /\ s.messages \in Seq(Messages) /\ EmptyMessage \in Messages /\ EmptyMessage.block = "Empty"
      /\ EmptyMessage.role = "Assistant"
  BY FieldTypes, MessageTypes DEF EmptyMessage
<1>2. m \in {s.messages, Append(s.messages, EmptyMessage)}
  BY DEF assistant_message_id
<1>3. reasoning_delta(s) = With(t, <<Emit("ReasoningDelta")>>)
  BY DEF reasoning_delta
<1>4. Continues(s.messages, EmptyMessage)
  BY <1>1 DEF Continues
<1> HIDE DEF m
<1>5. m \in Seq(Messages) /\ (Ordered(s.messages) => Ordered(m))
  <2>1. Append(s.messages, EmptyMessage) \in Seq(Messages)
    BY <1>1
  <2>2. Ordered(s.messages) => Ordered(Append(s.messages, EmptyMessage))
    BY <1>1, <1>4, AppendOrdered
  <2> QED BY <1>1, <1>2, <2>1, <2>2
<1>6. t \in AgentStates /\ t.messages = m /\ t.fx = s.fx
  BY <1>5, Zenon DEF AgentStates
<1> HIDE DEF t
<1>7. Follows(s, t)
  BY <1>5, <1>6 DEF Follows, Verdicts
<1> QED BY <1>3, <1>6, <1>7, EmitFollows, FollowsTransitive DEF Events

\* Commands that leave a verdict awaited as it is.
Abides(s, t) == Follows(s, t) /\ t.gate_attempts = s.gate_attempts

LEMMA PauseAbides ==
    ASSUME NEW s \in AgentStates
    PROVE  Abides(s, pause(s))
<1>1. "Paused" \in Statuses /\ "StateChanged" \in Events
  BY DEF Statuses, Events
<1>2. Abides(s, With([s EXCEPT !.status = "Paused"], <<Emit("StateChanged")>>))
  BY <1>1, StatusFollows DEF Abides
<1> QED BY <1>2, SameFollows DEF pause, Abides

LEMMA ChildrenAbides ==
    ASSUME NEW s \in AgentStates, NEW ks \in SUBSET Children
    PROVE  LET t == [s EXCEPT !.children = ks] IN t \in AgentStates /\ Abides(s, t)
<1> DEFINE t == [s EXCEPT !.children = ks]
<1>1. t \in AgentStates /\ t.messages = s.messages /\ t.fx = s.fx /\ t.gate_attempts = s.gate_attempts
  BY Zenon DEF AgentStates
<1> HIDE DEF t
<1>2. t \in AgentStates /\ Abides(s, t)
  BY <1>1, SameFollows DEF Abides
<1> QED BY <1>2 DEF t

LEMMA ChildSpawnedAbides ==
    ASSUME NEW s \in AgentStates, NEW k \in Children, NEW awaiting
    PROVE  Abides(s, child_spawned(s, k, awaiting))
<1> DEFINE t == [s EXCEPT !.children = @ \cup {k}]
           u == With([t EXCEPT !.status = "WaitingForChildren"], <<Emit("StateChanged")>>)
<1>1. s.children \cup {k} \in SUBSET Children
  BY FieldTypes
<1>2. t \in AgentStates /\ Abides(s, t)
  BY <1>1, ChildrenAbides
<1>3. "WaitingForChildren" \in Statuses /\ "StateChanged" \in Events
  BY DEF Statuses, Events
<1>4. child_spawned(s, k, awaiting) \in {t, u}
  BY DEF child_spawned
<1> HIDE DEF t
<1>5. Abides(t, u)
  BY <1>2, <1>3, StatusFollows DEF Abides
<1> HIDE DEF u
<1> QED BY <1>2, <1>4, <1>5, FollowsTransitive DEF Abides

LEMMA ChildEndedAbides ==
    ASSUME NEW s \in AgentStates, NEW k
    PROVE  Abides(s, child_ended(s, k))
<1> DEFINE t == [s EXCEPT !.children = @ \ {k}]
           idle == t.children = {} /\ t.status = "WaitingForChildren"
           status == IF idle THEN "Idle" ELSE t.status
           u == With([t EXCEPT !.status = status], <<Emit("ChildAgentCompleted")>>)
<1>1. s.children \ {k} \in SUBSET Children
  BY FieldTypes
<1>2. t \in AgentStates /\ Abides(s, t)
  BY <1>1, ChildrenAbides
<1>3. child_ended(s, k) = u
  BY DEF child_ended
<1> HIDE DEF t
<1>4. status \in Statuses
  BY <1>2, FieldTypes DEF Statuses
<1> HIDE DEF status
<1>5. Abides(t, u)
  BY <1>2, <1>4, StatusFollows DEF Abides, Events
<1> HIDE DEF u
<1> QED BY <1>2, <1>3, <1>5, FollowsTransitive DEF Abides

LEMMA SpawnCommandAbides ==
    ASSUME NEW s \in AgentStates
    PROVE  Abides(s, With(s, <<SpawnAgent>>))
<1> DEFINE e == <<SpawnAgent>>
<1>1. SpawnAgent \in Effects /\ SpawnAgent.kind = "SpawnAgent"
  BY EffectTypes
<1>2. e \in Seq(Effects) /\ EffectsIn(e) = {SpawnAgent}
  BY <1>1, EffectsOfOne
<1> HIDE DEF e
<1>3. Follows(s, With(s, e))
  BY <1>1, <1>2, WithFollows
<1>4. With(s, e).gate_attempts = s.gate_attempts
  BY Zenon DEF With, AgentStates
<1>5. Abides(s, With(s, e))
  BY <1>3, <1>4 DEF Abides
<1> QED BY <1>5 DEF e

LEMMA QueueAbides ==
    ASSUME NEW s \in AgentStates, NEW queue \in Seq(Inputs)
    PROVE  Abides(s, [s EXCEPT !.queued_inputs = queue])
<1> DEFINE t == [s EXCEPT !.queued_inputs = queue]
<1>1. t.messages = s.messages /\ t.fx = s.fx /\ t.gate_attempts = s.gate_attempts
  BY Zenon DEF AgentStates
<1> HIDE DEF t
<1>2. Abides(s, t)
  BY <1>1, SameFollows DEF Abides
<1> QED BY <1>2 DEF t

-----------------------------------------------------------------------------
(***************************************************************************)
(* What the operators leave a run with: calls that are pending, a request, *)
(* or an answer before the gate.                                           *)
(***************************************************************************)
Pressed(t) == t.active_run # NoRun => t.pending_tools # {} \/ t.backend_in_flight

Judging(t) ==
    /\ t.status = "Verifying" /\ GateEvaluators(t.profile) # {}
    /\ EvaluateCompletion(t.active_run, t.gate_attempts, t.profile) \in EffectsIn(t.fx)

LEMMA RequestTurnPresses ==
    ASSUME NEW s \in AgentStates, NEW o
    PROVE  Pressed(RequestTurn(s, "WaitingForBackend", o))
<1>1. "WaitingForBackend" \in Statuses /\ "WaitingForBackend" # "Verifying"
  BY DEF Statuses
<1> QED BY <1>1, RequestTurnInquires DEF Pressed, Inquires

LEMMA ContinueAfterToolsPresses ==
    ASSUME NEW s \in AgentStates, NEW o
    PROVE  Pressed(continue_after_tools(s, o))
BY RequestTurnPresses DEF continue_after_tools, Pressed

LEMMA NextAfterResultPresses ==
    ASSUME NEW s \in AgentStates, NEW stop, NEW o
    PROVE  Pressed(next_after_result(s, stop, o))
<1> DEFINE t == [s EXCEPT !.timeouts = 0]
<1>1. t \in AgentStates
  <2>1. 0 \in Nat
    OBVIOUS
  <2> QED BY <2>1, Zenon DEF AgentStates
<1>2. next_after_result(s, stop, o) \in {fail(s), fail(t), continue_after_tools(s, o)}
  BY DEF next_after_result
<1> HIDE DEF t
<1>3. fail(s).active_run = NoRun /\ fail(t).active_run = NoRun
  BY <1>1, FailIdles
<1> QED BY <1>2, <1>3, ContinueAfterToolsPresses DEF Pressed

LEMMA RecordToolResultPresses ==
    ASSUME NEW s \in AgentStates, NEW c \in ToolCalls, NEW executed, NEW o
    PROVE  Pressed(record_tool_result(s, c, executed, o))
<1> DEFINE outcome == IF executed THEN evaluate(s, "PostToolUse", o) ELSE Quiet
           t == apply_rule_outcome(s, outcome)
           msg == ToolResultMessage(c, "recorded")
           m == Append(t.messages, msg)
           v == [t EXCEPT !.messages = m]
           e == <<Emit("ToolCallCompleted")>>
           u == With(v, e)
<1>1. outcome \in Outcome
  BY EvaluateType DEF RuleEvents, Quiet, Outcome
<1>2. record_tool_result(s, c, executed, o) = next_after_result(u, outcome.stop, o)
  BY DEF record_tool_result
<1> HIDE DEF outcome
<1>3. t \in AgentStates
  BY <1>1, ApplyRuleOutcomeIdles, IdlesType
<1> HIDE DEF t
<1>4. msg \in Messages
  BY MessageTypes DEF ToolResultMessage, Messages, Roles, Outcomes
<1> HIDE DEF msg
<1>5. m \in Seq(Messages)
  BY <1>3, <1>4, FieldTypes
<1> HIDE DEF m
<1>6. v \in AgentStates
  BY <1>3, <1>5, Zenon DEF AgentStates
<1> HIDE DEF v
<1>7. u \in AgentStates
  BY <1>6, EmitIdles, IdlesType DEF Events
<1> HIDE DEF u
<1> QED BY <1>2, <1>7, NextAfterResultPresses

LEMMA SettlePresses ==
    ASSUME NEW s \in AgentStates, NEW c \in ToolCalls, NEW k \in Nat, NEW executed, NEW o
    PROVE  Pressed(record_tool_result([Settle(s, c) EXCEPT !.timeouts = k], c, executed, o))
<1> DEFINE r == Settle(s, c)
           v == [r EXCEPT !.timeouts = k]
<1>1. s.pending_tools \ {c} \in SUBSET ToolCalls /\ s.pending_permissions \ {c} \in SUBSET ToolCalls
  BY FieldTypes
<1>2. r \in AgentStates
  BY <1>1, Zenon DEF AgentStates, Settle
<1> HIDE DEF r
<1>3. v \in AgentStates
  BY <1>2, Zenon DEF AgentStates
<1> HIDE DEF v
<1>4. Pressed(record_tool_result(v, c, executed, o))
  BY <1>3, RecordToolResultPresses
<1> QED BY <1>4 DEF v, r

LEMMA ToolCompletedPresses ==
    ASSUME NEW s \in AgentStates, NEW c \in s.pending_tools, NEW o
    PROVE  Pressed(tool_completed(s, c, o))
<1> DEFINE executed == TRUE
<1>1. tool_completed(s, c, o)
        = record_tool_result([Settle(s, c) EXCEPT !.timeouts = 0], c, executed, o)
  BY DEF tool_completed
<1>2. c \in ToolCalls
  BY FieldTypes
<1> HIDE DEF executed
<1> QED BY <1>1, <1>2, SettlePresses

LEMMA ToolCompletedSettles ==
    ASSUME NEW s \in AgentStates, NEW c \in s.pending_tools, NEW o
    PROVE  Steps(s, tool_completed(s, c, o), {c})
<1>1. c \in ToolCalls /\ 0 \in Nat
  BY FieldTypes
<1> QED BY <1>1, SettleAndRecordSteps DEF tool_completed

LEMMA ToolFailedPresses ==
    ASSUME NEW s \in AgentStates, NEW c \in s.pending_tools, NEW error, NEW o
    PROVE  Pressed(tool_failed(s, c, error, o))
<1> DEFINE k == IF error = "Timeout" THEN s.timeouts + 1 ELSE 0
           executed == error # "Denied"
<1>1. k \in Nat /\ c \in ToolCalls
  BY FieldTypes
<1>2. Settle(s, c).timeouts = s.timeouts
  BY Zenon DEF AgentStates, Settle
<1>3. tool_failed(s, c, error, o)
        = record_tool_result([Settle(s, c) EXCEPT !.timeouts = k], c, executed, o)
  BY <1>2 DEF tool_failed
<1> HIDE DEF k, executed
<1> QED BY <1>1, <1>3, SettlePresses

LEMMA PermissionResolvedPresses ==
    ASSUME NEW s \in AgentStates, NEW c \in s.pending_permissions, c \in s.pending_tools,
           NEW approves, NEW o
    PROVE  Pressed(permission_resolved(s, c, approves, o))
<1> DEFINE t == [s EXCEPT !.pending_permissions = @ \ {c}]
<1>1. s.pending_permissions \ {c} \in SUBSET ToolCalls /\ c \in ToolCalls
  BY FieldTypes
<1>2. t \in AgentStates /\ t.pending_tools = s.pending_tools
  BY <1>1, Zenon DEF AgentStates
<1>3. permission_resolved(s, c, approves, o)
        = IF approves THEN execute_now(t, c) ELSE tool_failed(t, c, "Denied", o)
  BY <1>2 DEF permission_resolved
<1> HIDE DEF t
<1>4. Idles(t, execute_now(t, c))
  BY <1>1, <1>2, ExecuteNowIdles
<1>5. Pressed(execute_now(t, c))
  BY <1>2, <1>4 DEF Idles, Keeps, Pressed
<1>6. Pressed(tool_failed(t, c, "Denied", o))
  BY <1>2, ToolFailedPresses
<1> QED BY <1>3, <1>5, <1>6

LEMMA GateDecidedPresses ==
    ASSUME NEW s \in AgentStates, NEW failures, NEW o
    PROVE  Pressed(gate_decided(s, failures, o))
<1> DEFINE u == With(s, <<Emit("CompletionGateEvaluated")>>)
           m == Append(u.messages, UserMessage)
           v == [u EXCEPT !.gate_continuations = @ + 1, !.messages = m]
<1>1. gate_decided(s, failures, o)
        \in {finish_success(u), RequestTurn(v, "WaitingForBackend", o), fail(u)}
  BY DEF gate_decided, send_answer_back
<1>2. u \in AgentStates
  BY EmitIdles, IdlesType DEF Events
<1> HIDE DEF u
<1>3. u.messages \in Seq(Messages) /\ UserMessage \in Messages /\ u.gate_continuations + 1 \in Nat
  BY <1>2, FieldTypes, MessageTypes
<1>4. m \in Seq(Messages)
  BY <1>3
<1> HIDE DEF m
<1>5. v \in AgentStates
  BY <1>2, <1>3, <1>4, Zenon DEF AgentStates
<1> HIDE DEF v
<1>6. finish_success(u).active_run = NoRun /\ fail(u).active_run = NoRun
  BY <1>2, FailIdles, FinishSuccessIdles
<1> QED BY <1>1, <1>5, <1>6, RequestTurnPresses DEF Pressed

LEMMA CompletionEvaluatedPresses ==
    ASSUME NEW s \in AgentStates, NEW r, NEW attempt, NEW failures, NEW o
    PROVE  LET t == completion_evaluated(s, r, attempt, failures, o)
           IN \/ Pressed(t)
              \/ t = s /\ (VerdictExpected(s, r, attempt) => GateEvaluators(s.profile) = {})
BY GateDecidedPresses DEF completion_evaluated, GateEvaluators

LEMMA ProposeCompletionPresses ==
    ASSUME NEW s \in AgentStates, NEW failures, NEW o
    PROVE  LET t == propose_completion(s, failures, o) IN Pressed(t) \/ Judging(t)
<1> DEFINE u == [s EXCEPT !.gate_attempts = @ + 1]
           v == [u EXCEPT !.status = "Verifying"]
           x == EvaluateCompletion(u.active_run, u.gate_attempts, u.profile)
           e == <<Emit("StateChanged"), x>>
           w == With(v, e)
           t == propose_completion(s, failures, o)
<1>1. s.gate_attempts + 1 \in Nat /\ "Verifying" \in Statuses
  BY FieldTypes DEF Statuses
<1>2. u \in AgentStates /\ u.profile = s.profile
  BY <1>1, Zenon DEF AgentStates
<1>3. \/ t \in {finish_success(s), gate_decided(u, failures, o)}
      \/ t = w /\ GateEvaluators(s.profile) # {}
  BY DEF propose_completion, GateEvaluators
<1> HIDE DEF u
<1>4. v \in AgentStates
  BY <1>1, <1>2, Zenon DEF AgentStates
<1>5. /\ v.status = "Verifying" /\ v.active_run = u.active_run /\ v.profile = u.profile
      /\ v.gate_attempts = u.gate_attempts
  BY <1>2, Zenon DEF AgentStates
<1>6. Emit("StateChanged") \in Effects /\ x \in Effects
  BY <1>2, FieldTypes, EffectTypes DEF Events
<1>7. e \in Seq(Effects)
  BY <1>6
<1>8. EffectsIn(e) = {Emit("StateChanged"), x}
  BY EffectsOfTwo
<1> HIDE DEF v, e
<1>9. /\ w.status = v.status /\ w.active_run = v.active_run /\ w.profile = v.profile
      /\ EffectsIn(w.fx) = EffectsIn(v.fx) \cup EffectsIn(e)
  BY <1>4, <1>7, WithFields
<1>10. w.gate_attempts = v.gate_attempts
  BY <1>4, Zenon DEF With, AgentStates
<1> HIDE DEF w, t
<1>11. t = w /\ GateEvaluators(s.profile) # {} => Judging(t)
  BY <1>2, <1>5, <1>8, <1>9, <1>10 DEF Judging
<1>12. finish_success(s).active_run = NoRun
  BY FinishSuccessIdles
<1>13. Pressed(t) \/ Judging(t)
  BY <1>2, <1>3, <1>11, <1>12, GateDecidedPresses DEF Pressed
<1> QED BY <1>13 DEF t

LEMMA CompletedPresses ==
    ASSUME NEW s \in AgentStates, NEW reason, NEW failures, NEW o
    PROVE  LET t == completed(s, reason, failures, o) IN Pressed(t) \/ Judging(t)
<1> DEFINE m == discard_trailing_empty_assistant_message(s.messages)
           u == [s EXCEPT !.backend_in_flight = FALSE, !.messages = m]
<1>1. m \in Seq(Messages)
  BY FieldTypes, DiscardType
<1>2. completed(s, reason, failures, o)
        \in {fail(u), continue_after_tools(u, o), propose_completion(u, failures, o)}
  BY DEF completed
<1> HIDE DEF m
<1>3. u \in AgentStates
  BY <1>1, Zenon DEF AgentStates
<1> HIDE DEF u
<1>4. fail(u).active_run = NoRun
  BY <1>3, FailIdles
<1>5. Pressed(continue_after_tools(u, o))
  BY <1>3, ContinueAfterToolsPresses
<1>6. Pressed(propose_completion(u, failures, o)) \/ Judging(propose_completion(u, failures, o))
  BY <1>3, ProposeCompletionPresses
<1> QED BY <1>2, <1>4, <1>5, <1>6 DEF Pressed
=============================================================================

---------------------------- MODULE MCAgentRunner ---------------------------
(***************************************************************************)
(* Small instances of AgentRunner.  Each configuration picks a scenario:   *)
(* which calls, profiles, rules and host commands there are.               *)
(***************************************************************************)
EXTENDS AgentRunner

CONSTANTS t1, t2, p1, p2, check, verdict

Capped(turns, calls) == [max_turns |-> turns, max_tool_calls |-> calls]

\* Two calls: one runs freely, one needs the user's approval.
FreeAndAsked == (t1 :> "Allow") @@ (t2 :> "Ask")
\* One runs freely, one the session denies.
FreeAndDenied == (t1 :> "Allow") @@ (t2 :> "Deny")
NoCalls == [c \in ToolCalls |-> "Allow"]
OneFree == (t1 :> "Allow")
OneAsked == (t1 :> "Ask")
TwoFree == (t1 :> "Allow") @@ (t2 :> "Allow")

\* One profile without limits, gate or rules.
PlainProfiles == {p1}
PlainLimits == [p \in Profiles |-> Capped(Unlimited, Unlimited)]
PlainRules == [p \in Profiles |-> [e \in RuleEvents |-> {}]]
PlainGates == [p \in Profiles |-> NoGate]
PlainScope == [p \in Profiles |-> ToolCalls]
PlainProfileMode == [p \in Profiles |-> [c \in ToolCalls |-> "Allow"]]

(***************************************************************************)
(* Two profiles.  p1 has a gate with a declarative check and an evaluator  *)
(* that is waived once the continuations are used up; p2 has none, admits  *)
(* no tool beyond t1 and denies it.  A rule of p1 may switch to p2 after a *)
(* tool ran or before a request, a rule of p2 may stop the run on entry.   *)
(***************************************************************************)
TwoProfiles == {p1, p2}
TightLimits == (p1 :> Capped(2, 1)) @@ (p2 :> Capped(1, Unlimited))
Gates == (p1 :> [max_continuations |-> 1, on_exhausted |-> "Fail", checks |-> {check},
                 waived |-> {verdict}, evaluators |-> {verdict}])
         @@ (p2 :> NoGate)
BothGated == [p \in Profiles |-> Gates[p1]]
Does(stop, decision, switch) == [stop |-> stop, decision |-> decision, switch |-> switch]
SwitchRules ==
    (p1 :> [[e \in RuleEvents |-> {}] EXCEPT !["PostToolUse"] = {Does(FALSE, "None", p2)},
                                             !["BeforeModelRequest"] = {Does(FALSE, "None", p2)}])
    @@ (p2 :> [[e \in RuleEvents |-> {}] EXCEPT !["ProfileEntered"] = {Does(TRUE, "None", NoProfile)}])
NarrowScope == (p1 :> ToolCalls) @@ (p2 :> {t1})
DenyingP2 == (p1 :> [c \in ToolCalls |-> "Allow"]) @@ (p2 :> [c \in ToolCalls |-> "Deny"])

\* Rules that allow a call, and one of p2 that stops the run at one.
AllowsCalls == [[e \in RuleEvents |-> {}] EXCEPT !["PreToolUse"] = {Does(FALSE, "Allow", NoProfile)}]
CallRules ==
    (p1 :> AllowsCalls) @@ (p2 :> [AllowsCalls EXCEPT !["PreToolUse"] = @ \cup {Does(TRUE, "None", NoProfile)}])

\* One profile whose rules may stop the run after a call.
StopRules ==
    (p1 :> [[e \in RuleEvents |-> {}] EXCEPT !["PostToolUse"] = {Does(TRUE, "None", NoProfile)}])
=============================================================================

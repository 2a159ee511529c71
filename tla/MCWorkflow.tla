----------------------------- MODULE MCWorkflow -----------------------------
(* A definition with every kind of step that the loop treats differently:  *)
(* an agent with a fallback on failure, a verifier and an approval that    *)
(* send work back to the agent, and the output.                            *)
EXTENDS WorkflowRunner

CONSTANTS input, draft, fallback, review, approve, output

FlowNodes == {input, draft, fallback, review, approve, output}

FlowKind == [n \in FlowNodes |->
    CASE n = input -> "Input" [] n \in {draft, fallback} -> "Agent"
      [] n = review -> "Verify" [] n = approve -> "Approval" [] n = output -> "Output"]

FlowSuccess == [n \in FlowNodes |->
    CASE n = input -> draft [] n \in {draft, fallback} -> review
      [] n = review -> approve [] n = approve -> output [] n = output -> None]

FlowFailure == [n \in FlowNodes |-> IF n = draft THEN fallback ELSE None]

FlowTargets == [n \in FlowNodes |-> IF n \in {review, approve} THEN draft ELSE None]

FlowAttempts == [n \in FlowNodes |-> IF n = draft THEN 2 ELSE 1]

FlowRetryOn == [n \in FlowNodes |->
    IF n = draft THEN {"BackendTimeout", "VerificationFailed"} ELSE {}]

FlowSignals == [n \in FlowNodes |->
    CASE n = draft -> {"usage"} [] n = fallback -> {"permission"} [] OTHER -> {}]
CheckpointSignals == [n \in FlowNodes |-> IF n = draft THEN {"checkpoint"} ELSE {}]

\* Both targets are on the path of the step that sends work back to them.
ASSUME FlowOnThePath == OnThePath
=============================================================================

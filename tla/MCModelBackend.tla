--------------------------- MODULE MCModelBackend ---------------------------
(* Small instances of ModelBackend for TLC. *)
EXTENDS ModelBackend

CONSTANTS r1, r2, r3

\* r1 gives a text answer and may call a tool; the others only fail or finish.
OneTalks == [r \in Requests |-> IF r = r1 THEN 2 ELSE 0]
=============================================================================

---------------------------- MODULE MCSupervision ----------------------------
(* Small trees of agents for TLC. *)
EXTENDS Supervision

Bounded(children, depth) == [max_children |-> children, max_depth |-> depth]

TwoByTwo == Bounded(2, 2)

\* The parent's own limits, tighter ones, and none at all.
SomeBudgets == {Bounded(1, 2), Bounded(2, 2), Bounded(Unlimited, Unlimited)}
=============================================================================

---------------------------- MODULE MCTailoring -----------------------------
(***************************************************************************)
(* Model values for the runs of Tailoring.                                 *)
(***************************************************************************)
EXTENDS Tailoring, TLC

CONSTANTS q1, q2, q3

\* A first version, and two requests that may each repeat, edit or delete it.
Overlapping == (q1 :> {"start"}) @@ (q2 :> {"ai", "user", "delete"})
               @@ (q3 :> {"ai", "user", "delete", "start"})
=============================================================================

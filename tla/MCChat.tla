------------------------------- MODULE MCChat -------------------------------
(***************************************************************************)
(* Model values for the runs of ChatLifecycle.                             *)
(***************************************************************************)
EXTENDS ChatLifecycle, TLC

CONSTANTS r1, r2, save, edit, look

\* Two runs that meet in one conversation; only the first uses a tool, which is
\* guarded.
TwoTurns == (r1 :> {save}) @@ (r2 :> {})

\* One run with two guarded calls and a plain one, which may share a pass with
\* either.
ThreeCalls == r1 :> {save, edit, look}
=============================================================================

---------------------------- MODULE MCSavedJobs ----------------------------
(***************************************************************************)
(* Model values for the runs of SavedJobs.                                 *)
(***************************************************************************)
EXTENDS SavedJobs, TLC

CONSTANTS q1, q2, q3, j1, j2

\* Saves by paste or by URL, and everything that can overtake them: two
\* ingestions of one failed text, a re-extraction, a rebuild, a deletion.
Requested == (q1 :> {"text", "evaluate", "rebuild"})
             @@ (q2 :> {"text", "url", "reextract", "approve"})
             @@ (q3 :> {"url", "text", "reextract", "evaluate", "delete"})

\* A save whose projection a deletion overtakes.
SaveAndDelete == (q1 :> {"text"}) @@ (q2 :> {"delete"})

=============================================================================

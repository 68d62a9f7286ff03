--------------------------- MODULE MCProfileReview ---------------------------
(***************************************************************************)
(* Model values and request mixes for the runs of ProfileReview.           *)
(***************************************************************************)
EXTENDS ProfileReview, TLC

\* Every request that decides a review or can overtake it.
ReviewRequests ==
    {"approve", "discard", "activate", "rename", "read", "crash"}

\* The same beside the set-up of an uploaded CV, and with stores that stay locked
\* or commits that are cut off.
SetupRequests == ReviewRequests \cup {"upload", "retry", "busy", "cutoff"}

\* Deletions, with the uploads and selections around them.  A rename changes a
\* revision that none of these reads.
DeletionRequests == {"delete", "upload", "activate", "crash"}

\* Approvals beside the agent's edits.
EditedRequests == {"approve"}

Symmetry == Permutations(Clients)
=============================================================================

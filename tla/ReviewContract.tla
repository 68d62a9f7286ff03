--------------------------- MODULE ReviewContract ---------------------------
(***************************************************************************)
(* What the re-extraction operations promise, without drafts, streams,     *)
(* turns, revisions or a process: the operation state machine that         *)
(* repositories/profile_reextract_operations.py and its callers are to     *)
(* keep.  An operation of a profile works, may be offered for review, and  *)
(* is closed once; the approved truth of a profile never changes under an  *)
(* offered review except by approving that very review.                    *)
(***************************************************************************)
EXTENDS Naturals

CONSTANTS Profiles, OperationIds, NoProfile

VARIABLES
    phase,  \* per operation
    owner,  \* the profile of an operation that is neither idle nor closed
    truth   \* per profile, the version of its approved content, 0 for none

contractVars == <<phase, owner, truth>>

Of(p) == {o \in OperationIds : owner[o] = p}
Open(o) == phase[o] \in {"working", "offered"}

Closed(ops) ==
    /\ phase' = [o \in OperationIds |-> IF o \in ops THEN "closed" ELSE phase[o]]
    /\ owner' = [o \in OperationIds |-> IF o \in ops THEN NoProfile ELSE owner[o]]

\* Only p gets new content.
Rewritten(p) ==
    /\ truth' \in [Profiles -> Nat]
    /\ truth'[p] # truth[p]
    /\ \A q \in Profiles \ {p} : truth'[q] = truth[q]

Init ==
    /\ phase = [o \in OperationIds |-> "idle"]
    /\ owner = [o \in OperationIds |-> NoProfile]
    /\ truth \in [Profiles -> Nat]

\* A profile has one open operation at most; its withdrawn ones are dropped.
Claim(p, o) ==
    /\ phase[o] = "idle"
    /\ \A q \in Of(p) : ~ Open(q)
    /\ phase' = [q \in OperationIds |->
         IF q = o THEN "working" ELSE IF q \in Of(p) THEN "closed" ELSE phase[q]]
    /\ owner' = [q \in OperationIds |->
         IF q = o THEN p ELSE IF q \in Of(p) THEN NoProfile ELSE owner[q]]
    /\ UNCHANGED truth

Offer(o) ==
    /\ phase[o] = "working"
    /\ phase' = [phase EXCEPT ![o] = "offered"]
    /\ UNCHANGED <<owner, truth>>

\* Failure, cancellation, recovery after a crash, or a review gone stale.
Withdraw(ops) ==
    /\ ops # {}
    /\ \A o \in ops : Open(o)
    /\ phase' = [o \in OperationIds |-> IF o \in ops THEN "withdrawn" ELSE phase[o]]
    /\ UNCHANGED <<owner, truth>>

Approve(o) ==
    /\ phase[o] = "offered"
    /\ Rewritten(owner[o])
    /\ Closed({o})

Discard(o) ==
    /\ phase[o] \in {"offered", "withdrawn"}
    /\ Closed({o})
    /\ UNCHANGED truth

\* The metadata of withdrawn operations is dropped.
Purge(ops) ==
    /\ \A o \in ops : phase[o] = "withdrawn"
    /\ Closed(ops)
    /\ UNCHANGED truth

\* The approval of an ordinary draft of the agent.
Revise(p) ==
    /\ \A o \in Of(p) : phase[o] # "offered"
    /\ Rewritten(p)
    /\ UNCHANGED <<phase, owner>>

\* The deletion of a profile takes its operations with it.
Remove(p) ==
    /\ Closed(Of(p))
    /\ truth' = [truth EXCEPT ![p] = 0]

Next ==
    \/ \E o \in OperationIds : \/ \E p \in Profiles : Claim(p, o)
                               \/ Offer(o)
                               \/ Approve(o)
                               \/ Discard(o)
    \/ \E ops \in SUBSET OperationIds : Withdraw(ops) \/ Purge(ops)
    \/ \E p \in Profiles : Revise(p) \/ Remove(p)

Spec == Init /\ [][Next]_contractVars
=============================================================================

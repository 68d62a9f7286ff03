--------------------------- MODULE ChatLifecycle ---------------------------
(***************************************************************************)
(* Chat runs together with what else touches their rows: creation and      *)
(* deletion of conversations (services/conversations.py,                   *)
(* services/conversation_deletion.py) and the end of the backend process.  *)
(***************************************************************************)
EXTENDS ChatRun

CONSTANTS
    Deletable,       \* bound: the conversations the user may delete
    MaxCrashes       \* bound on the ends of the process

ASSUME CrashAssumption == MaxCrashes \in Nat

VARIABLES
    deletion,        \* the DELETE request of each conversation
    crashes

vars == <<chatRunVars, deletion, crashes>>

DeletionStates == {"none", "dropping", "reading", "removing"}
NoDeletion == [pc |-> "none", runs |-> {}, last |-> FALSE]
Deletion == [pc: DeletionStates, runs: SUBSET Runs, last: BOOLEAN]

ChatTypeOK ==
    /\ StoreTypeOK
    /\ TaskTypeOK
    /\ StreamTypeOK
    /\ deletion \in [Conversations -> Deletion]
    /\ crashes \in 0..MaxCrashes

Init ==
    /\ StoreInit
    /\ TaskInit
    /\ StreamInit
    /\ deletion = [c \in Conversations |-> NoDeletion]
    /\ crashes = 0

-----------------------------------------------------------------------------
(* create_conversation *)

\* The gate is read before the insert; a turn that starts in between belongs to
\* another conversation, so the two are one step here.
NewConversation(c) ==
    /\ conversations[c] = "unborn"
    /\ WorkspaceIdle
    /\ conversations' = [conversations EXCEPT ![c] = "open"]
    /\ UNCHANGED <<runs, calls, checkpoints, approvals, effects, task, answer,
                   stream, graph, closing, abandoned, deletion, crashes>>

-----------------------------------------------------------------------------
(* delete_conversation *)

Deletes(c, row) == deletion' = [deletion EXCEPT ![c] = row]

\* Faulty variant: the gate is not asked.
BeginDeleteBusy(c) ==
    /\ c \in Deletable
    /\ deletion[c].pc = "none"
    /\ Open(c)
    /\ Deletes(c, [NoDeletion EXCEPT !.pc = "dropping", !.runs = RunsOf(c)])
    /\ UNCHANGED <<chatRunVars, crashes>>

\* The gate and the list of run ids whose checkpoints go.
BeginDelete(c) ==
    /\ c \in Deletable
    /\ deletion[c].pc = "none"
    /\ Open(c)
    /\ ConversationIdle(c)
    /\ Deletes(c, [NoDeletion EXCEPT !.pc = "dropping", !.runs = RunsOf(c)])
    /\ UNCHANGED <<chatRunVars, crashes>>

DropCheckpoints(c) ==
    /\ deletion[c].pc = "dropping"
    /\ checkpoints' = checkpoints \ deletion[c].runs
    /\ Deletes(c, [deletion[c] EXCEPT !.pc = "reading"])
    /\ UNCHANGED <<conversations, runs, calls, approvals, effects, task, answer,
                   stream, graph, closing, abandoned, crashes>>

\* CONVERSATION_DELETE_CHECKPOINT_FAILED
DropFails(c) ==
    /\ "busy" \in Faults
    /\ deletion[c].pc = "dropping"
    /\ Deletes(c, NoDeletion)
    /\ UNCHANGED <<chatRunVars, crashes>>

\* The reads of delete_and_select.
ReadRemaining(c) ==
    /\ deletion[c].pc = "reading"
    /\ Deletes(c, IF Open(c)
                  THEN [deletion[c] EXCEPT !.pc = "removing",
                          !.last = \A d \in Conversations \ {c} : ~ Open(d)]
                  ELSE NoDeletion)
    /\ UNCHANGED <<chatRunVars, crashes>>

\* Its writes: the row with everything that cascades from it, and a new
\* conversation in its place if it was the last.
DeleteRows(c) ==
    /\ deletion[c].pc = "removing"
    /\ \E replacement \in Conversations :
         /\ IF deletion[c].last THEN conversations[replacement] = "unborn"
                                ELSE replacement = c
         /\ conversations' = [d \in Conversations |->
              IF d = c THEN "gone"
              ELSE IF d = replacement THEN "open" ELSE conversations[d]]
    /\ runs' = CascadeRuns(c)
    /\ calls' = CascadeCalls(c)
    /\ Deletes(c, NoDeletion)
    /\ UNCHANGED <<checkpoints, approvals, effects, task, answer, stream, graph,
                   closing, abandoned, crashes>>

DeletionStep(c) ==
    \/ BeginDelete(c)
    \/ DropCheckpoints(c)
    \/ DropFails(c)
    \/ ReadRemaining(c)
    \/ DeleteRows(c)

-----------------------------------------------------------------------------
(* The process *)

\* What lives in memory is lost.  The start of the backend recovers profile
\* re-extractions and tailoring sessions, and no run of kind chat: one that was
\* running stays so.
Crash ==
    /\ crashes < MaxCrashes
    /\ crashes' = crashes + 1
    /\ stream' = [r \in Runs |-> [stream[r] EXCEPT !.pc = "none"]]
    /\ closing' = [r \in Runs |-> "no"]
    /\ task' = [r \in Runs |-> [a \in Attempts |-> [k \in Calls |-> "idle"]]]
    /\ deletion' = [c \in Conversations |-> NoDeletion]
    /\ abandoned' = abandoned \cup {r \in Runs : runs[r].state = "running"}
    /\ UNCHANGED <<chatStoreVars, answer, graph>>

-----------------------------------------------------------------------------

Next ==
    \/ \E r \in Runs :
        \/ RunStep(r) /\ UNCHANGED <<deletion, crashes>>
        \/ \E a \in Attempts, k \in Calls :
             /\ TaskStep(r, a, k)
             /\ UNCHANGED <<stream, graph, closing, abandoned, deletion, crashes>>
    \/ \E c \in Conversations : NewConversation(c) \/ DeletionStep(c)
    \/ Crash

\* The event loop goes on with every coroutine that is not waiting for a client:
\* provider calls, tools and SQLite are bounded by timeouts.  Clients, faults
\* and crashes owe nothing.
Fairness ==
    \A r \in Runs :
        /\ WF_vars(RunProgress(r) /\ UNCHANGED <<deletion, crashes>>)
        /\ WF_vars(FinalizerProgress(r) /\ UNCHANGED <<deletion, crashes>>)
        /\ \A a \in Attempts, k \in Calls :
             WF_vars(/\ TaskStep(r, a, k)
                     /\ UNCHANGED <<stream, graph, closing, abandoned,
                                    deletion, crashes>>)

Spec == Init /\ [][Next]_vars /\ Fairness

-----------------------------------------------------------------------------
(* Properties *)

\* A running row has somebody who will settle it: the request that drives it, or
\* the finalizer of a request that ended (runner.py, finally of
\* stream_agent_run).  The exceptions are the runs a crash or a locked database
\* left behind, which nothing in the code recovers.
RunningIsServed ==
    \A r \in Runs : runs[r].state = "running" =>
        \/ stream[r].pc \in BusyStreams \cup {"loading"}
        \/ closing[r] \in {"failing", "overwriting"}
        \/ r \in abandoned

\* An interrupted run can be resumed: its checkpoint is there, holds a pass with
\* a guarded call, and that call's row is still open for re-entry
\* (claim_resume, Command(resume=...), allow_running_reentry).
InterruptedResumable ==
    \A r \in Runs : runs[r].state = "interrupted" =>
        /\ r \in checkpoints
        /\ \E k \in graph[r].batch \cap Guarded : calls[r][k] = "running"

\* The side effect of a guarded tool call happens at most once, and only if the
\* user accepted that very call (execute_tool re-entry, claim_resume, an answer
\* used up by the pass that asked for it), whatever tasks of an earlier entry,
\* disconnections and restarts do.
GuardedEffectOnce ==
    \A r \in Runs, k \in Guarded :
        effects[r][k] <= 1 /\ effects[r][k] <= approvals[r][k]

\* A run that completed left no tool execution open: each call the model issued
\* has a stored result (gather in ToolNode, replay and last transaction of
\* execute_tool), tasks of an earlier entry notwithstanding.
CompletedRunHasResults ==
    \A r \in Runs : runs[r].state = "completed" =>
        \A k \in graph[r].issued : calls[r][k] \in TerminalCallStates

\* A checkpoint is only deleted when its run can no longer be resumed: the
\* terminal state is committed first (runner.py, delete_run_checkpoint;
\* conversation_deletion.py, delete_run_checkpoints).
CheckpointOutlivesRun ==
    [][\A r \in checkpoints \ checkpoints' :
         runs[r].state \notin ActiveRunStates]_vars

\* Every running run settles, unless it was abandoned (tool loop limit, timeouts
\* of the provider, finalizer).
RunSettles ==
    \A r \in Runs :
        runs[r].state = "running" ~> (runs[r].state # "running" \/ r \in abandoned)
=============================================================================

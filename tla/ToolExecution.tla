--------------------------- MODULE ToolExecution ---------------------------
(***************************************************************************)
(* execute_tool (services/tool_execution.py) as the tasks of one ToolNode  *)
(* pass run it: one task per tool call, all under one asyncio.gather.      *)
(*                                                                         *)
(* task[r][a][k] is the task for call k in the a-th time the tools node of *)
(* run r is entered.  A resume enters the node again from its start, with  *)
(* new tasks for the same calls, while a task of the earlier entry may be  *)
(* alive: gather does not cancel the siblings of a task that raises, only  *)
(* its own cancellation reaches them.                                      *)
(***************************************************************************)
EXTENDS ChatStore

CONSTANTS
    MaxAttempts,     \* bound on the entries into the tools node of one run
    Faults           \* failures outside the code that the behaviour may have

ASSUME AttemptsAssumption == MaxAttempts \in Nat \ {0}

VARIABLES task, answer

\* answer[r] is what the request that drives r resumed the graph with.
Answers == {"none", "accept", "decline"}

Attempts == 1..MaxAttempts
LiveTasks == {"start", "pending", "claiming", "invoking", "returning", "storing"}
TaskStates == LiveTasks \cup {"idle", "interrupting", "raising", "done"}

TaskTypeOK ==
    /\ task \in [Runs -> [Attempts -> [Calls -> TaskStates]]]
    /\ answer \in [Runs -> Answers]

TaskInit ==
    /\ task = [r \in Runs |-> [a \in Attempts |-> [k \in Calls |-> "idle"]]]
    /\ answer = [r \in Runs |-> "none"]

\* Moves a task on; the rest of the pass is not concerned.
Moves(r, a, k, from, to) ==
    /\ task[r][a][k] = from
    /\ task' = [task EXCEPT ![r][a][k] = to]
    /\ UNCHANGED <<conversations, runs, checkpoints, approvals, answer>>

-----------------------------------------------------------------------------
(* The first transaction: get_or_create_pending *)

\* No row of this identity: insert one.  Its foreign key needs the run.
CreatePending(r, a, k) ==
    /\ calls[r][k] = "none"
    /\ runs[r].state # "gone"
    /\ Moves(r, a, k, "start", "pending")
    /\ calls' = [calls EXCEPT ![r][k] = "pending"]
    /\ UNCHANGED effects

\* A pending row is claimed as if it were new.
AdoptPending(r, a, k) ==
    /\ calls[r][k] = "pending"
    /\ Moves(r, a, k, "start", "pending")
    /\ UNCHANGED <<calls, effects>>

\* A stored result is replayed without the side effect.
Replay(r, a, k) ==
    /\ calls[r][k] \in TerminalCallStates
    /\ Moves(r, a, k, "start", "done")
    /\ UNCHANGED <<calls, effects>>

\* allow_running_reentry: the same row is entered again.
Reenter(r, a, k) ==
    /\ calls[r][k] = "running"
    /\ k \in Guarded
    /\ Moves(r, a, k, "start", "invoking")
    /\ UNCHANGED <<calls, effects>>

\* ToolExecutionInProgressError, or the foreign key of a deleted run.
RefuseCall(r, a, k) ==
    /\ \/ calls[r][k] = "running" /\ k \notin Guarded
       \/ runs[r].state = "gone"
    /\ Moves(r, a, k, "start", "raising")
    /\ UNCHANGED <<calls, effects>>

-----------------------------------------------------------------------------
(* The second transaction: mark_running *)

ReadPending(r, a, k) ==
    /\ Moves(r, a, k, "pending",
             IF calls[r][k] = "pending" THEN "claiming" ELSE "raising")
    /\ UNCHANGED <<calls, effects>>

\* Faulty variant: no CHECK constraint couples the status to the result.
MarkRunningAnyway(r, a, k) ==
    /\ Moves(r, a, k, "claiming", "invoking")
    /\ calls' = [calls EXCEPT ![r][k] = "running"]
    /\ UNCHANGED effects

\* The UPDATE leaves result and duration as they are, so a row that became
\* terminal meanwhile violates terminal_result_duration.
MarkRunning(r, a, k) ==
    LET holds == calls[r][k] \in {"pending", "running"} IN
    /\ Moves(r, a, k, "claiming", IF holds THEN "invoking" ELSE "raising")
    /\ calls' = IF holds THEN [calls EXCEPT ![r][k] = "running"] ELSE calls
    /\ UNCHANGED effects

-----------------------------------------------------------------------------
(* The invoker, outside any transaction *)

\* Without an answer, a guarded invoker raises GraphInterrupt; its row stays
\* running.
AskApproval(r, a, k) ==
    /\ k \in Guarded
    /\ answer[r] = "none"
    /\ Moves(r, a, k, "invoking", "interrupting")
    /\ UNCHANGED <<calls, effects>>

\* Faulty variant: any answer has the side effect.
InvokeAnswered(r, a, k) ==
    /\ k \in Guarded => answer[r] # "none"
    /\ Moves(r, a, k, "invoking", "returning")
    /\ effects' = [effects EXCEPT ![r] =
         [g \in Guarded |-> IF g = k THEN @[g] + 1 ELSE @[g]]]
    /\ UNCHANGED calls

Invoke(r, a, k) ==
    /\ k \in Guarded => answer[r] = "accept"
    /\ Moves(r, a, k, "invoking", "returning")
    /\ effects' = [effects EXCEPT ![r] =
         [g \in Guarded |-> IF g = k THEN @[g] + 1 ELSE @[g]]]
    /\ UNCHANGED calls

\* A validation that fails, a draft that is missing, or an answer that declines:
\* a ToolResult without a side effect.
InvokeRefused(r, a, k) ==
    /\ Moves(r, a, k, "invoking", "returning")
    /\ UNCHANGED <<calls, effects>>

\* An exception the tool did not map to a ToolResult.
InvokeRaises(r, a, k) ==
    /\ "raise" \in Faults
    /\ Moves(r, a, k, "invoking", "raising")
    /\ UNCHANGED <<calls, effects>>

-----------------------------------------------------------------------------
(* The last transaction: complete_execution or fail_execution *)

\* A result another path stored meanwhile replaces this one; a row that is gone
\* or pending has no transition to a terminal state.
ReadLive(r, a, k) ==
    /\ Moves(r, a, k, "returning",
             IF calls[r][k] \in TerminalCallStates THEN "done"
             ELSE IF calls[r][k] = "running" THEN "storing"
             ELSE "raising")
    /\ UNCHANGED <<calls, effects>>

\* Completing a failed row keeps its error_code and violates error_coupling.
StoreResult(r, a, k) ==
    \E status \in TerminalCallStates :
        LET holds == /\ calls[r][k] # "none"
                     /\ status = "completed" => calls[r][k] # "failed"
        IN /\ Moves(r, a, k, "storing", IF holds THEN "done" ELSE "raising")
           /\ calls' = IF holds THEN [calls EXCEPT ![r][k] = status] ELSE calls
           /\ UNCHANGED effects

TaskStep(r, a, k) ==
    \/ CreatePending(r, a, k)
    \/ AdoptPending(r, a, k)
    \/ Replay(r, a, k)
    \/ Reenter(r, a, k)
    \/ RefuseCall(r, a, k)
    \/ ReadPending(r, a, k)
    \/ MarkRunning(r, a, k)
    \/ AskApproval(r, a, k)
    \/ Invoke(r, a, k)
    \/ InvokeRefused(r, a, k)
    \/ InvokeRaises(r, a, k)
    \/ ReadLive(r, a, k)
    \/ StoreResult(r, a, k)
=============================================================================

----------------------------- MODULE ChatStore -----------------------------
(***************************************************************************)
(* The rows one profile's chat lives in: conversations, agent_runs of kind *)
(* chat, tool_executions, and the LangGraph checkpoint threads that share  *)
(* the SQLite file.  As in ProfileStore, the reads of a session run before *)
(* its first write sees the writer lock, so a transaction is a read step   *)
(* and a write step unless it starts with BEGIN IMMEDIATE or with a write. *)
(*                                                                         *)
(* A transition of agent_runs or tool_executions is checked against the    *)
(* row that was read and written by primary key, so the write may meet a   *)
(* row that has moved on.  Two things then still refuse it: the row being  *)
(* gone, and a CHECK constraint that the new columns violate.              *)
(***************************************************************************)
EXTENDS Integers

CONSTANTS
    Conversations,   \* conversation ids of one ready profile
    InitiallyOpen,   \* those that exist before the behaviour starts
    Runs,            \* agent_runs ids, which are also the checkpoint threads
    Calls,           \* tool_call ids the model may issue within a run
    Guarded,         \* those whose tool asks for approval before its effect
    NoConversation   \* the conversation of a run that does not exist

ASSUME ChatStoreAssumption ==
    /\ NoConversation \notin Conversations
    /\ InitiallyOpen \subseteq Conversations
    /\ Guarded \subseteq Calls

VARIABLES
    conversations,   \* state of each conversation row
    runs,            \* agent_runs rows
    calls,           \* status of the tool_executions row of (run, call)
    checkpoints,     \* runs whose thread has checkpoint rows
    approvals,       \* history: how often a resume accepted a guarded call
    effects          \* history: how often the effect of a guarded call happened

chatStoreVars ==
    <<conversations, runs, calls, checkpoints, approvals, effects>>

-----------------------------------------------------------------------------
(* Rows *)

ActiveRunStates == {"running", "interrupted"}
TerminalRunStates == {"completed", "failed"}
RunStates == ActiveRunStates \cup TerminalRunStates \cup {"none", "gone"}
RunRow == [state: RunStates, conversation: Conversations \cup {NoConversation}]

TerminalCallStates == {"completed", "failed"}
CallStates == TerminalCallStates \cup {"none", "pending", "running"}

ConversationStates == {"unborn", "open", "gone"}

StoreTypeOK ==
    /\ conversations \in [Conversations -> ConversationStates]
    /\ runs \in [Runs -> RunRow]
    /\ calls \in [Runs -> [Calls -> CallStates]]
    /\ checkpoints \subseteq Runs
    /\ approvals \in [Runs -> [Guarded -> Nat]]
    /\ effects \in [Runs -> [Guarded -> Nat]]

StoreInit ==
    /\ conversations = [c \in Conversations |->
         IF c \in InitiallyOpen THEN "open" ELSE "unborn"]
    /\ runs = [r \in Runs |-> [state |-> "none",
                               conversation |-> NoConversation]]
    /\ calls = [r \in Runs |-> [k \in Calls |-> "none"]]
    /\ checkpoints = {}
    /\ approvals = [r \in Runs |-> [k \in Guarded |-> 0]]
    /\ effects = [r \in Runs |-> [k \in Guarded |-> 0]]

-----------------------------------------------------------------------------
(* Queries *)

Open(c) == conversations[c] = "open"

RunsOf(c) == {r \in Runs : runs[r].conversation = c}

\* assert_conversation_idle, without tailoring sessions.
ConversationIdle(c) == \A r \in RunsOf(c) : runs[r].state \notin ActiveRunStates

WorkspaceIdle == \A r \in Runs : runs[r].state \notin ActiveRunStates

\* get_interrupted_run
AwaitsApproval(c) == \E r \in RunsOf(c) : runs[r].state = "interrupted"

-----------------------------------------------------------------------------
(* Writes of a transition whose read found the row running *)

\* The UPDATE of fail_run sets every column the CHECK constraints couple, so it
\* overrides any state, terminal ones included; only a missing row refuses it.
FailHolds(r) == runs[r].state # "gone"

\* The UPDATE of interrupt_run leaves completed_at as it is in the row (its value
\* did not change in the session), so completed_at_coupling refuses a terminal
\* row.
InterruptHolds(r) == runs[r].state \in ActiveRunStates

\* persist_terminal_success inserts the reply first and so reads the run under
\* the writer lock: its transition is checked against the committed row.
CompleteHolds(r) == runs[r].state = "running"

SetRunState(r, state) == runs' = [runs EXCEPT ![r].state = state]

\* Foreign keys cascade from a conversation to its messages, runs and calls.
CascadeRuns(c) ==
    [r \in Runs |-> IF r \in RunsOf(c)
                    THEN [state |-> "gone", conversation |-> NoConversation]
                    ELSE runs[r]]
CascadeCalls(c) ==
    [r \in Runs |-> IF r \in RunsOf(c) THEN [k \in Calls |-> "none"]
                                       ELSE calls[r]]
=============================================================================

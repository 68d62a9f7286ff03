------------------------------ MODULE ChatRun ------------------------------
(***************************************************************************)
(* One chat run from the request that creates it to its terminal state:    *)
(* stream_chat_turn and stream_resume (services/chat_turns.py), driving    *)
(* stream_agent_run (agent/runner.py) over the decision node and the tools *)
(* node of agent/graph.py.                                                 *)
(*                                                                         *)
(* stream[r] is the request that drives run r.  The client can go away at  *)
(* any event once the response has started; the generator is then closed,  *)
(* which cancels the graph and what it awaits, and the shielded finalizer  *)
(* of stream_agent_run is closing[r].  A finalizer can outlive its request *)
(* and overlap the one of a later resume.                                  *)
(*                                                                         *)
(* graph[r] is the content of the checkpoint thread: the calls issued so   *)
(* far, those of the current pass, and tool_iteration_count.               *)
(***************************************************************************)
EXTENDS ToolExecution

CONSTANTS
    LoopLimit,       \* TOOL_LOOP_LIMIT
    CallsOf          \* bound: the calls the model may issue in each run

ASSUME ChatRunAssumption ==
    /\ LoopLimit \in Nat \ {0}
    /\ CallsOf \in [Runs -> SUBSET Calls]

VARIABLES stream, graph, closing, abandoned

chatRunVars == <<chatStoreVars, task, answer, stream, graph, closing, abandoned>>

Outcomes == {"none", "completed", "interrupted", "failed"}
BusyStreams == {"opening", "deciding", "tools", "settling", "writing"}
StreamStates == BusyStreams \cup {"none", "creating", "loading", "cleaning"}
Stream == [pc: StreamStates, conversation: Conversations \cup {NoConversation},
           attempt: 0..MaxAttempts, outcome: Outcomes]
ClosingStates == {"no", "failing", "overwriting", "sweeping"}

StreamTypeOK ==
    /\ stream \in [Runs -> Stream]
    /\ graph \in [Runs -> [issued: SUBSET Calls, batch: SUBSET Calls, passes: Nat]]
    /\ closing \in [Runs -> ClosingStates]
    /\ abandoned \subseteq Runs

StreamInit ==
    /\ stream = [r \in Runs |-> [pc |-> "none", conversation |-> NoConversation,
                                 attempt |-> 0, outcome |-> "none"]]
    /\ graph = [r \in Runs |-> [issued |-> {}, batch |-> {}, passes |-> 0]]
    /\ closing = [r \in Runs |-> "no"]
    /\ abandoned = {}

At(r, pc) == stream[r].pc = pc
Goto(r, pc) == stream' = [stream EXCEPT ![r].pc = pc]
Ends(r, outcome) ==
    stream' = [stream EXCEPT ![r].pc = "settling", ![r].outcome = outcome]

\* The request ends without a persisted outcome: its finalizer takes over.
\* Bound: a run has one finalizer at a time.
Close(r) ==
    /\ closing[r] = "no"
    /\ Goto(r, "none")
    /\ closing' = [closing EXCEPT ![r] = "failing"]

-----------------------------------------------------------------------------
(* create_user_turn and the context of the turn *)

BeginTurn(r, c) ==
    /\ At(r, "none")
    /\ runs[r].state = "none"
    /\ Open(c)
    /\ ConversationIdle(c)
    /\ stream' = [stream EXCEPT ![r].pc = "creating", ![r].conversation = c]
    /\ UNCHANGED <<chatStoreVars, task, answer, graph, closing, abandoned>>

\* The insert is not guarded by the gate that BeginTurn evaluated.
CreateTurn(r) ==
    LET c == stream[r].conversation IN
    /\ At(r, "creating")
    /\ Open(c)
    /\ runs' = [runs EXCEPT ![r] = [state |-> "running", conversation |-> c]]
    /\ Goto(r, "loading")
    /\ UNCHANGED <<conversations, calls, checkpoints, approvals, effects,
                   task, answer, graph, closing, abandoned>>

\* The foreign key of the message; or get_interrupted_run, which reads under the
\* writer lock when the message has just given the conversation its title.
RefuseTurn(r) ==
    LET c == stream[r].conversation IN
    /\ At(r, "creating")
    /\ ~ Open(c) \/ AwaitsApproval(c)
    /\ Goto(r, "none")
    /\ UNCHANGED <<chatStoreVars, task, answer, graph, closing, abandoned>>

\* The context loaders raise when the conversation is gone; no stream has been
\* opened that would have a finalizer.
LoadContext(r) ==
    /\ At(r, "loading")
    /\ Goto(r, IF Open(stream[r].conversation) THEN "opening" ELSE "none")
    /\ UNCHANGED <<chatStoreVars, task, answer, graph, closing, abandoned>>

-----------------------------------------------------------------------------
(* _stream_agent_run_impl: the graph *)

\* Tasks of a new entry into the tools node, for the calls of the batch.  Of the
\* earlier entries only the live tasks matter from here on.
Dispatched(r, a, batch) ==
    [task EXCEPT ![r] = [b \in Attempts |-> [k \in Calls |->
        IF b = a /\ k \in batch THEN "start"
        ELSE IF @[b][k] \in LiveTasks THEN @[b][k] ELSE "idle"]]]

\* A fresh turn starts at the decision node; a resume enters the tools node of
\* its checkpoint again, and is an error of the graph without one.
OpenGraph(r) ==
    /\ At(r, "opening")
    /\ IF answer[r] = "none"
       THEN /\ Goto(r, "deciding")
            /\ checkpoints' = checkpoints \cup {r}
            /\ UNCHANGED task
       ELSE IF r \in checkpoints
       THEN /\ stream' = [stream EXCEPT ![r].pc = "tools", ![r].attempt = @ + 1]
            /\ task' = Dispatched(r, stream[r].attempt + 1, graph[r].batch)
            /\ UNCHANGED checkpoints
       ELSE /\ Ends(r, "failed")
            /\ UNCHANGED <<checkpoints, task>>
    /\ UNCHANGED <<conversations, runs, calls, approvals, effects, answer,
                   graph, closing, abandoned>>

\* The graph cannot be built or the checkpointer cannot be opened.
OpenFails(r) ==
    /\ "open" \in Faults
    /\ At(r, "opening")
    /\ Close(r)
    /\ UNCHANGED <<chatStoreVars, task, answer, graph, abandoned>>

\* decision_node with a final answer.
Reply(r) ==
    /\ At(r, "deciding")
    /\ Ends(r, "completed")
    /\ UNCHANGED <<chatStoreVars, task, answer, graph, closing, abandoned>>

\* The provider or the node raises.
DecisionRaises(r) ==
    /\ "raise" \in Faults
    /\ At(r, "deciding")
    /\ Ends(r, "failed")
    /\ UNCHANGED <<chatStoreVars, task, answer, graph, closing, abandoned>>

\* Faulty variant: the answer outlives the pass that asked for it.
AnswerKept(r) == answer

\* An answer resumes the pass that asked for it, not a later one.
AnswerUsedUp(r) == [answer EXCEPT ![r] = "none"]

\* decision_node with tool calls.
\* Bound: at most one call of a message is guarded.
AskTools(r, batch) ==
    /\ At(r, "deciding")
    /\ batch # {}
    /\ \A k, l \in batch \cap Guarded : k = l
    /\ IF graph[r].passes < LoopLimit
       THEN /\ stream[r].attempt < MaxAttempts
            /\ stream' = [stream EXCEPT ![r].pc = "tools", ![r].attempt = @ + 1]
            /\ graph' = [graph EXCEPT ![r].issued = @ \cup batch,
                                      ![r].batch = batch]
            /\ task' = Dispatched(r, stream[r].attempt + 1, batch)
            /\ answer' = AnswerUsedUp(r)
       ELSE /\ Ends(r, "failed")
            /\ UNCHANGED <<graph, task, answer>>
    /\ UNCHANGED <<chatStoreVars, closing, abandoned>>

InBatch(r, state) ==
    \E k \in graph[r].batch : task[r][stream[r].attempt][k] = state

\* Every task returned its message: back to the decision node.
ToolsReturn(r) ==
    /\ At(r, "tools")
    /\ \A k \in graph[r].batch : task[r][stream[r].attempt][k] = "done"
    /\ Goto(r, "deciding")
    /\ graph' = [graph EXCEPT ![r].passes = @ + 1]
    /\ UNCHANGED <<chatStoreVars, task, answer, closing, abandoned>>

\* gather hands on the first exception; the other tasks of the pass live on.
ToolsRaise(r) ==
    /\ At(r, "tools")
    /\ \/ InBatch(r, "interrupting") /\ Ends(r, "interrupted")
       \/ InBatch(r, "raising") /\ Ends(r, "failed")
    /\ UNCHANGED <<chatStoreVars, task, answer, graph, closing, abandoned>>

-----------------------------------------------------------------------------
(* on_durable_terminal and the checkpoint of a terminal run *)

\* Faulty variant: every durable outcome is followed by the clean-up.
AfterSettlingAlways(outcome) == "cleaning"

AfterSettling(outcome) == IF outcome = "interrupted" THEN "none" ELSE "cleaning"

SettleHolds(r) ==
    CASE stream[r].outcome = "failed" -> FailHolds(r)
      [] stream[r].outcome = "interrupted" -> InterruptHolds(r)
      [] OTHER -> CompleteHolds(r)

\* The read of _transition; a completion reads under the writer lock.
SettleRead(r) ==
    /\ At(r, "settling")
    /\ IF stream[r].outcome = "completed" \/ runs[r].state = "running"
       THEN Goto(r, "writing") /\ UNCHANGED closing
       ELSE Close(r)
    /\ UNCHANGED <<chatStoreVars, task, answer, graph, abandoned>>

SettleWrite(r) ==
    LET outcome == stream[r].outcome IN
    /\ At(r, "writing")
    /\ IF SettleHolds(r)
       THEN /\ SetRunState(r, outcome)
            /\ Goto(r, AfterSettling(outcome))
            /\ UNCHANGED closing
       ELSE /\ Close(r)
            /\ UNCHANGED runs
    /\ UNCHANGED <<conversations, calls, checkpoints, approvals, effects,
                   task, answer, graph, abandoned>>

\* delete_run_checkpoint
Clean(r) ==
    /\ At(r, "cleaning")
    /\ checkpoints' = checkpoints \ {r}
    /\ Goto(r, "none")
    /\ UNCHANGED <<conversations, runs, calls, approvals, effects,
                   task, answer, graph, closing, abandoned>>

-----------------------------------------------------------------------------
(* The response is closed early *)

\* Cancellation reaches the tasks of the pass that is being awaited.
TasksCancelled(r) ==
    IF At(r, "tools")
    THEN [task EXCEPT ![r][stream[r].attempt] = [k \in Calls |-> "idle"]]
    ELSE task

\* Faulty variant: the finally of stream_agent_run only closes the graph.
DisconnectOnly(r) ==
    /\ stream[r].pc \in BusyStreams \ {"opening"}
    /\ Goto(r, "none")
    /\ task' = TasksCancelled(r)
    /\ UNCHANGED <<chatStoreVars, answer, graph, closing, abandoned>>

Disconnect(r) ==
    /\ stream[r].pc \in BusyStreams \ {"opening"}
    /\ Close(r)
    /\ task' = TasksCancelled(r)
    /\ UNCHANGED <<chatStoreVars, answer, graph, abandoned>>

\* The outcome is durable, so the finalizer has nothing to do.
DisconnectSettled(r) ==
    /\ At(r, "cleaning")
    /\ Goto(r, "none")
    /\ UNCHANGED <<chatStoreVars, task, answer, graph, closing, abandoned>>

\* The commit lands, but the await that waited for it is cancelled before
\* terminal_persisted is set.
SettleCutOff(r) ==
    /\ "cutoff" \in Faults
    /\ At(r, "writing")
    /\ SettleHolds(r)
    /\ SetRunState(r, stream[r].outcome)
    /\ Close(r)
    /\ UNCHANGED <<conversations, calls, checkpoints, approvals, effects,
                   task, answer, graph, abandoned>>

\* Faulty variant: a locked database leaves the stream at a state that is none.
SettleBusyRetries(r) ==
    /\ "busy" \in Faults
    /\ At(r, "writing")
    /\ Goto(r, "retrying")
    /\ UNCHANGED <<chatStoreVars, task, answer, graph, closing, abandoned>>

\* "database is locked" after the busy timeout.
SettleBusy(r) ==
    /\ "busy" \in Faults
    /\ At(r, "writing")
    /\ Close(r)
    /\ UNCHANGED <<chatStoreVars, task, answer, graph, abandoned>>

\* Faulty variant: the finalizer leaves a running run alone.
FinalizeReadNothing(r) ==
    /\ closing[r] = "failing"
    /\ closing' = [closing EXCEPT ![r] = "no"]
    /\ UNCHANGED <<chatStoreVars, task, answer, stream, graph, abandoned>>

\* persist_terminal_failure of the finalizer, shielded from cancellation.
FinalizeRead(r) ==
    /\ closing[r] = "failing"
    /\ closing' = [closing EXCEPT ![r] =
         IF runs[r].state = "running" THEN "overwriting" ELSE "no"]
    /\ UNCHANGED <<chatStoreVars, task, answer, stream, graph, abandoned>>

FinalizeWrite(r) ==
    /\ closing[r] = "overwriting"
    /\ IF FailHolds(r)
       THEN /\ SetRunState(r, "failed")
            /\ closing' = [closing EXCEPT ![r] = "sweeping"]
       ELSE /\ closing' = [closing EXCEPT ![r] = "no"]
            /\ UNCHANGED runs
    /\ UNCHANGED <<conversations, calls, checkpoints, approvals, effects,
                   task, answer, stream, graph, abandoned>>

\* Nothing tries again: the run stays running.
FinalizeBusy(r) ==
    /\ "busy" \in Faults
    /\ closing[r] = "overwriting"
    /\ closing' = [closing EXCEPT ![r] = "no"]
    /\ abandoned' = abandoned \cup {r}
    /\ UNCHANGED <<chatStoreVars, task, answer, stream, graph>>

Sweep(r) ==
    /\ closing[r] = "sweeping"
    /\ checkpoints' = checkpoints \ {r}
    /\ closing' = [closing EXCEPT ![r] = "no"]
    /\ UNCHANGED <<conversations, runs, calls, approvals, effects,
                   task, answer, stream, graph, abandoned>>

-----------------------------------------------------------------------------
(* stream_resume *)

\* claim_resume checks and transitions under BEGIN IMMEDIATE.  A terminal run
\* only has its state replayed, which changes nothing.
\* The answer is for the guarded call of the interrupted pass.
\* Bound: entries into the tools node.
Resume(r, action) ==
    /\ At(r, "none")
    /\ runs[r].state = "interrupted"
    /\ stream[r].attempt < MaxAttempts
    /\ SetRunState(r, "running")
    /\ stream' = [stream EXCEPT ![r].pc = "opening", ![r].outcome = "none"]
    /\ answer' = [answer EXCEPT ![r] = action]
    /\ approvals' = [approvals EXCEPT ![r] = [k \in Guarded |->
         IF action = "accept" /\ k \in graph[r].batch THEN @[k] + 1 ELSE @[k]]]
    /\ UNCHANGED <<conversations, calls, checkpoints, effects,
                   task, graph, closing, abandoned>>

-----------------------------------------------------------------------------

\* What the event loop carries on with by itself.
RunProgress(r) ==
    \/ CreateTurn(r)
    \/ RefuseTurn(r)
    \/ LoadContext(r)
    \/ OpenGraph(r)
    \/ OpenFails(r)
    \/ Reply(r)
    \/ DecisionRaises(r)
    \/ \E batch \in SUBSET (CallsOf[r] \ graph[r].issued) : AskTools(r, batch)
    \/ ToolsReturn(r)
    \/ ToolsRaise(r)
    \/ SettleRead(r)
    \/ SettleWrite(r)
    \/ Clean(r)

FinalizerProgress(r) ==
    \/ FinalizeRead(r)
    \/ FinalizeWrite(r)
    \/ Sweep(r)

RunStep(r) ==
    \/ RunProgress(r)
    \/ FinalizerProgress(r)
    \/ Disconnect(r)
    \/ DisconnectSettled(r)
    \/ SettleCutOff(r)
    \/ SettleBusy(r)
    \/ FinalizeBusy(r)
    \/ \E c \in Conversations : BeginTurn(r, c)
    \/ \E action \in {"accept", "decline"} : Resume(r, action)
=============================================================================

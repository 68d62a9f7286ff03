--------------------------- MODULE ChatRunProofs ---------------------------
(***************************************************************************)
(* Theorems about chat runs, for every number of conversations, runs and   *)
(* calls, every loop limit and every number of entries and crashes.        *)
(*                                                                         *)
(* The invariant is local: apart from DeletionsSound it speaks of one run  *)
(* at a time, and a step that leaves a run alone preserves it.             *)
(***************************************************************************)
EXTENDS ChatLifecycle, TLAPS

(* The states a run has left the code's hands in, for good. *)
OverStates == TerminalRunStates \cup {"gone"}

Unpersisted(r) == stream[r].pc \in {"settling", "writing"}
Interrupting(r) == Unpersisted(r) /\ stream[r].outcome = "interrupted"

\* Before its row exists, a run is at most being created.
Unborn(r) ==
    runs[r].state = "none" =>
        /\ stream[r].pc \in {"none", "creating"}
        /\ closing[r] = "no"
        /\ answer[r] = "none"
        /\ graph[r].issued = {}

\* A row that does not exist has no conversation.
RowSound(r) ==
    runs[r].state \in {"none", "gone"} => runs[r].conversation = NoConversation

\* Up to its first event a request is about a conversation that was open.
Starting(r) ==
    /\ stream[r].pc = "creating" => runs[r].state = "none"
    /\ stream[r].pc \in {"creating", "loading"} =>
         stream[r].conversation \in Conversations /\ answer[r] = "none"
    /\ stream[r].pc = "loading" /\ runs[r].state = "running" =>
         /\ runs[r].conversation = stream[r].conversation
         /\ Open(stream[r].conversation)

\* A resume has an entry into the tools node left, and a pass is in one.
Admitted(r) ==
    /\ stream[r].pc = "opening" /\ answer[r] # "none" =>
         stream[r].attempt < MaxAttempts
    /\ stream[r].pc = "tools" => stream[r].attempt \in Attempts

\* What is being cleaned is over, and a completed or interrupted run is driven by
\* nobody.
Settling(r) ==
    /\ Unpersisted(r) => stream[r].outcome # "none"
    /\ stream[r].pc = "cleaning" => runs[r].state \in OverStates
    /\ closing[r] = "sweeping" => runs[r].state \in OverStates
    /\ runs[r].state = "completed" => stream[r].pc \in {"none", "cleaning"}
    /\ runs[r].state = "interrupted" => stream[r].pc = "none"

Served(r) ==
    runs[r].state = "running" =>
        \/ stream[r].pc \in BusyStreams \cup {"loading"}
        \/ closing[r] \in {"failing", "overwriting"}
        \/ r \in abandoned

\* A graph in progress has its checkpoint as long as its run is not over.
Checkpointed(r) ==
    /\ stream[r].pc \in {"deciding", "tools"} /\ runs[r].state \in ActiveRunStates =>
         r \in checkpoints
    /\ graph[r].batch \subseteq graph[r].issued

\* No guarded call of the run is being worked on.
Quiet(r) ==
    \A a \in Attempts, k \in Guarded : task[r][a][k] \notin LiveTasks

\* Where no guarded call can be worked on.
Paused(r) ==
    \/ runs[r].state \in {"none", "interrupted"}
    \/ stream[r].pc \in {"opening", "deciding", "loading"}
    \/ Interrupting(r)

\* A guarded call has one task at a time, in the current entry, and its row is
\* running from the claim until the answer.
OneGuardedTask(r) ==
    /\ \A k, l \in graph[r].batch \cap Guarded : k = l
    /\ \A a \in Attempts, k \in Calls :
         task[r][a][k] = "interrupting" => k \in Guarded
    /\ \A a \in Attempts, k \in Guarded :
         task[r][a][k] \in LiveTasks \cup {"interrupting"} =>
             a = stream[r].attempt /\ k \in graph[r].batch
    /\ \A a \in Attempts, k \in Guarded :
         task[r][a][k] \in {"invoking", "interrupting"} =>
             calls[r][k] = "running" \/ runs[r].state = "gone"
    /\ Paused(r) => Quiet(r)

\* What a resume will find.
Resumable(r) ==
    /\ r \in checkpoints
    /\ \E k \in graph[r].batch \cap Guarded : calls[r][k] = "running"

Asking(r) ==
    \/ runs[r].state = "interrupted"
    \/ Interrupting(r) /\ runs[r].state \in ActiveRunStates

ResumableInv(r) == Asking(r) => Resumable(r)

\* A call has its result, or nobody will ask for it.
Answered(r, k) == calls[r][k] \in TerminalCallStates \/ runs[r].state = "gone"

\* The graph is at the decision node, before it, or has ended there.
BetweenPasses(r) ==
    \/ stream[r].pc \in {"creating", "loading", "deciding"}
    \/ stream[r].pc = "opening" /\ answer[r] = "none"
    \/ Unpersisted(r) /\ stream[r].outcome = "completed"
    \/ runs[r].state = "completed"

\* Every call of an earlier pass has its result, and between passes every call.
Results(r) ==
    /\ \A a \in Attempts, k \in Calls : task[r][a][k] = "done" => Answered(r, k)
    /\ \A k \in graph[r].issued \ graph[r].batch : Answered(r, k)
    /\ BetweenPasses(r) => \A k \in graph[r].issued : Answered(r, k)

Control(r) ==
    /\ Unborn(r)
    /\ RowSound(r)
    /\ Starting(r)
    /\ Admitted(r)
    /\ Settling(r)
    /\ Served(r)
    /\ Checkpointed(r)

RunInv(r) ==
    /\ Control(r)
    /\ OneGuardedTask(r)
    /\ ResumableInv(r)
    /\ Results(r)

\* The runs whose checkpoints a deletion removes are over.
DeletionsSound ==
    \A c \in Conversations : deletion[c].pc = "dropping" =>
        \A r \in deletion[c].runs : runs[r].state \in OverStates

ChatInv ==
    /\ ChatTypeOK
    /\ \A r \in Runs : RunInv(r)
    /\ DeletionsSound

-----------------------------------------------------------------------------
(* Types *)

LEMMA TypeInit == Init => ChatTypeOK
  BY ChatStoreAssumption, AttemptsAssumption, ChatRunAssumption,
     CrashAssumption
     DEF Init, ChatTypeOK, StoreTypeOK, TaskTypeOK, StreamTypeOK, StoreInit,
         TaskInit, StreamInit, RunRow, RunStates, ActiveRunStates,
         TerminalRunStates, CallStates, TerminalCallStates, ConversationStates,
         TaskStates, LiveTasks, Answers, Stream, StreamStates, BusyStreams,
         Outcomes, ClosingStates, Deletion, DeletionStates, NoDeletion, Attempts

LEMMA TaskType ==
  ASSUME ChatTypeOK, NEW r \in Runs, NEW a \in Attempts, NEW k \in Calls,
         TaskStep(r, a, k)
  PROVE  StoreTypeOK' /\ TaskTypeOK'
<1> USE DEF ChatTypeOK, StoreTypeOK, TaskTypeOK, Moves, TaskStates, LiveTasks,
            CallStates, TerminalCallStates
<1>1. CASE CreatePending(r, a, k)  BY <1>1 DEF CreatePending
<1>2. CASE AdoptPending(r, a, k)   BY <1>2 DEF AdoptPending
<1>3. CASE Replay(r, a, k)         BY <1>3 DEF Replay
<1>4. CASE Reenter(r, a, k)        BY <1>4 DEF Reenter
<1>5. CASE RefuseCall(r, a, k)     BY <1>5 DEF RefuseCall
<1>6. CASE ReadPending(r, a, k)    BY <1>6 DEF ReadPending
<1>7. CASE MarkRunning(r, a, k)    BY <1>7 DEF MarkRunning
<1>8. CASE AskApproval(r, a, k)    BY <1>8 DEF AskApproval
<1>9. CASE Invoke(r, a, k)         BY <1>9 DEF Invoke
<1>10. CASE InvokeRefused(r, a, k) BY <1>10 DEF InvokeRefused
<1>11. CASE InvokeRaises(r, a, k)  BY <1>11 DEF InvokeRaises
<1>12. CASE ReadLive(r, a, k)      BY <1>12 DEF ReadLive
<1>13. CASE StoreResult(r, a, k)   BY <1>13 DEF StoreResult
<1>14. QED
  BY <1>1, <1>2, <1>3, <1>4, <1>5, <1>6, <1>7, <1>8, <1>9, <1>10, <1>11, <1>12,
     <1>13 DEF TaskStep

LEMMA DispatchedType ==
  ASSUME TaskTypeOK, NEW r \in Runs, NEW a \in Attempts, NEW batch
  PROVE  Dispatched(r, a, batch) \in [Runs -> [Attempts -> [Calls -> TaskStates]]]
  BY DEF Dispatched, TaskTypeOK, TaskStates, LiveTasks

\* What the three ways of moving a request on do to its record.
LEMMA GotoEffect ==
  ASSUME StreamTypeOK, NEW r \in Runs, NEW pc \in StreamStates, Goto(r, pc)
  PROVE  /\ stream' \in [Runs -> Stream]
         /\ stream'[r].pc = pc
         /\ stream'[r].conversation = stream[r].conversation
         /\ stream'[r].attempt = stream[r].attempt
         /\ stream'[r].outcome = stream[r].outcome
         /\ \A q \in Runs \ {r} : stream'[q] = stream[q]
  BY DEF StreamTypeOK, Goto, Stream

\* A request that also changes what it will persist.
LEMMA OutcomeEffect ==
  ASSUME StreamTypeOK, NEW r \in Runs, NEW pc \in StreamStates,
         NEW outcome \in Outcomes,
         stream' = [stream EXCEPT ![r].pc = pc, ![r].outcome = outcome]
  PROVE  /\ stream' \in [Runs -> Stream]
         /\ stream'[r].pc = pc
         /\ stream'[r].conversation = stream[r].conversation
         /\ stream'[r].attempt = stream[r].attempt
         /\ stream'[r].outcome = outcome
         /\ \A q \in Runs \ {r} : stream'[q] = stream[q]
<1> PICK s : s = [stream[r] EXCEPT !.pc = pc, !.outcome = outcome]
  OBVIOUS
<1>1. stream[r] \in Stream
  BY DEF StreamTypeOK
<1>2. /\ s \in Stream
      /\ s.pc = pc /\ s.outcome = outcome
      /\ s.conversation = stream[r].conversation /\ s.attempt = stream[r].attempt
  BY <1>1 DEF Stream
<1>3. stream \in [Runs -> Stream] /\ stream' = [stream EXCEPT ![r] = s]
  BY DEF StreamTypeOK
<1>4. QED
  BY <1>2, <1>3

LEMMA EndsEffect ==
  ASSUME StreamTypeOK, NEW r \in Runs, NEW outcome \in Outcomes, Ends(r, outcome)
  PROVE  /\ stream' \in [Runs -> Stream]
         /\ stream'[r].pc = "settling"
         /\ stream'[r].conversation = stream[r].conversation
         /\ stream'[r].attempt = stream[r].attempt
         /\ stream'[r].outcome = outcome
         /\ \A q \in Runs \ {r} : stream'[q] = stream[q]
<1>1. "settling" \in StreamStates
  BY DEF StreamStates, BusyStreams
<1>2. QED
  BY <1>1, OutcomeEffect DEF Ends

LEMMA CloseEffect ==
  ASSUME StreamTypeOK, NEW r \in Runs, Close(r)
  PROVE  /\ stream' \in [Runs -> Stream]
         /\ stream'[r].pc = "none"
         /\ stream'[r].conversation = stream[r].conversation
         /\ stream'[r].attempt = stream[r].attempt
         /\ stream'[r].outcome = stream[r].outcome
         /\ \A q \in Runs \ {r} : stream'[q] = stream[q]
         /\ closing' \in [Runs -> ClosingStates]
         /\ closing[r] = "no"
         /\ closing'[r] = "failing"
         /\ \A q \in Runs \ {r} : closing'[q] = closing[q]
<1>1. Goto(r, "none") /\ "none" \in StreamStates
  BY DEF Close, StreamStates
<1>2. closing[r] = "no" /\ closing' = [closing EXCEPT ![r] = "failing"]
  BY DEF Close
<1>3. QED
  BY <1>1, <1>2, GotoEffect DEF StreamTypeOK, ClosingStates

LEMMA SetRunStateEffect ==
  ASSUME StoreTypeOK, NEW r \in Runs, NEW state \in RunStates,
         SetRunState(r, state)
  PROVE  /\ runs' \in [Runs -> RunRow]
         /\ runs'[r].state = state
         /\ runs'[r].conversation = runs[r].conversation
         /\ \A q \in Runs \ {r} : runs'[q] = runs[q]
  BY DEF StoreTypeOK, SetRunState, RunRow

\* A pass that starts: the tasks of its batch, and the live ones of earlier
\* entries.
Enters(r, batch) ==
    /\ stream' = [stream EXCEPT ![r].pc = "tools", ![r].attempt = @ + 1]
    /\ task' = Dispatched(r, stream[r].attempt + 1, batch)

LEMMA PassEffect ==
  ASSUME ChatTypeOK, NEW r \in Runs, NEW batch \in SUBSET Calls,
         stream[r].attempt < MaxAttempts, Enters(r, batch)
  PROVE  /\ stream' \in [Runs -> Stream]
         /\ stream'[r].pc = "tools"
         /\ stream'[r].conversation = stream[r].conversation
         /\ stream'[r].attempt = stream[r].attempt + 1
         /\ stream'[r].outcome = stream[r].outcome
         /\ \A q \in Runs \ {r} : stream'[q] = stream[q]
         /\ task' \in [Runs -> [Attempts -> [Calls -> TaskStates]]]
         /\ \A a \in Attempts, k \in Calls :
              \/ a = stream'[r].attempt /\ k \in batch /\ task'[r][a][k] = "start"
              \/ task'[r][a][k] = task[r][a][k] /\ task[r][a][k] \in LiveTasks
              \/ task'[r][a][k] = "idle"
         /\ \A q \in Runs \ {r} : task'[q] = task[q]
<1>1. stream \in [Runs -> Stream] /\ TaskTypeOK /\ stream[r].attempt \in Nat
  BY DEF ChatTypeOK, StreamTypeOK, Stream
<1>2. stream[r].attempt + 1 \in Attempts
  BY <1>1, AttemptsAssumption DEF Attempts
<1>3. stream[r].attempt + 1 \in 0..MaxAttempts
  BY <1>2, AttemptsAssumption DEF Attempts
<1>4. /\ stream' \in [Runs -> Stream]
      /\ stream'[r].pc = "tools"
      /\ stream'[r].conversation = stream[r].conversation
      /\ stream'[r].attempt = stream[r].attempt + 1
      /\ stream'[r].outcome = stream[r].outcome
      /\ \A q \in Runs \ {r} : stream'[q] = stream[q]
  BY <1>1, <1>3 DEF Enters, Stream, StreamStates, BusyStreams
<1>5. task' \in [Runs -> [Attempts -> [Calls -> TaskStates]]]
  BY <1>1, <1>2, DispatchedType DEF Enters
<1>6. /\ \A a \in Attempts, k \in Calls :
           \/ a = stream[r].attempt + 1 /\ k \in batch /\ task'[r][a][k] = "start"
           \/ task'[r][a][k] = task[r][a][k] /\ task[r][a][k] \in LiveTasks
           \/ task'[r][a][k] = "idle"
      /\ \A q \in Runs \ {r} : task'[q] = task[q]
  BY <1>1 DEF Enters, TaskTypeOK, Dispatched
<1>7. QED
  BY <1>4, <1>5, <1>6

-----------------------------------------------------------------------------
(* A step of one run, and what it leaves of the others *)

Same(q) ==
    /\ runs'[q] = runs[q]
    /\ calls'[q] = calls[q]
    /\ task'[q] = task[q]
    /\ answer'[q] = answer[q]
    /\ stream'[q] = stream[q]
    /\ graph'[q] = graph[q]
    /\ closing'[q] = closing[q]
    /\ q \in abandoned => q \in abandoned'
    /\ q \in checkpoints /\ runs[q].state \in ActiveRunStates =>
         q \in checkpoints'
    /\ runs[q].conversation \in Conversations /\ Open(runs[q].conversation) =>
         Open(runs[q].conversation)'

LEMMA Frame ==
  ASSUME NEW q \in Runs, RunInv(q), Same(q)
  PROVE  RunInv(q)'
<1> USE DEF Same
<1>1. Unborn(q)'        BY DEF RunInv, Control, Unborn
<1>2. RowSound(q)'      BY DEF RunInv, Control, RowSound
<1>3. Starting(q)'      BY DEF RunInv, Control, Starting, Open
<1>4. Admitted(q)'      BY DEF RunInv, Control, Admitted
<1>5. Settling(q)'      BY DEF RunInv, Control, Settling, Unpersisted
<1>6. Served(q)'        BY DEF RunInv, Control, Served
<1>7. Checkpointed(q)'  BY DEF RunInv, Control, Checkpointed
<1>8. OneGuardedTask(q)'
  BY DEF RunInv, OneGuardedTask, Paused, Quiet, Interrupting, Unpersisted
<1>9. ResumableInv(q)'
  BY DEF RunInv, ResumableInv, Asking, Resumable, Interrupting, Unpersisted,
         ActiveRunStates
<1>10. Results(q)'
  BY DEF RunInv, Results, BetweenPasses, Answered, Unpersisted
<1>11. QED
  BY <1>1, <1>2, <1>3, <1>4, <1>5, <1>6, <1>7, <1>8, <1>9, <1>10
     DEF RunInv, Control

RowsTypeOK == StoreTypeOK /\ TaskTypeOK /\ StreamTypeOK

OthersSame(r) == \A q \in Runs \ {r} : Same(q)

LEMMA CreateTurnFrame ==
  ASSUME ChatTypeOK, NEW r \in Runs, RunInv(r), CreateTurn(r)
  PROVE  RowsTypeOK' /\ OthersSame(r)
<1>1. Goto(r, "loading") /\ "loading" \in StreamStates
  BY DEF CreateTurn, StreamStates
<1>2. /\ stream' \in [Runs -> Stream]
      /\ \A q \in Runs \ {r} : stream'[q] = stream[q]
  BY <1>1, GotoEffect DEF ChatTypeOK
<1>3. stream[r].conversation \in Conversations
  BY DEF CreateTurn, At, RunInv, Control, Starting
<1>4. [state |-> "running", conversation |-> stream[r].conversation] \in RunRow
  BY <1>3 DEF RunRow, RunStates, ActiveRunStates
<1>5. /\ runs' \in [Runs -> RunRow]
      /\ \A q \in Runs \ {r} : runs'[q] = runs[q]
  BY <1>4 DEF CreateTurn, ChatTypeOK, StoreTypeOK
<1>6. RowsTypeOK'
  BY <1>2, <1>5 DEF CreateTurn, RowsTypeOK, ChatTypeOK, StoreTypeOK, TaskTypeOK,
                    StreamTypeOK
<1>7. OthersSame(r)
  BY <1>2, <1>5 DEF CreateTurn, OthersSame, Same, Open
<1>8. QED
  BY <1>6, <1>7

\* The steps that move the request on and leave every row alone.
LEMMA GotoFrame ==
  ASSUME ChatTypeOK, NEW r \in Runs, NEW pc \in StreamStates, Goto(r, pc),
         UNCHANGED <<chatStoreVars, task, answer, graph, closing, abandoned>>
  PROVE  RowsTypeOK' /\ OthersSame(r)
<1>1. /\ stream' \in [Runs -> Stream]
      /\ \A q \in Runs \ {r} : stream'[q] = stream[q]
  BY GotoEffect DEF ChatTypeOK
<1>2. RowsTypeOK'
  BY <1>1 DEF RowsTypeOK, ChatTypeOK, StoreTypeOK, TaskTypeOK, StreamTypeOK,
              chatStoreVars
<1>3. OthersSame(r)
  BY <1>1 DEF OthersSame, Same, Open, chatStoreVars
<1>4. QED
  BY <1>2, <1>3

LEMMA EndsFrame ==
  ASSUME ChatTypeOK, NEW r \in Runs, NEW outcome \in Outcomes, Ends(r, outcome),
         UNCHANGED <<chatStoreVars, task, answer, graph, closing, abandoned>>
  PROVE  RowsTypeOK' /\ OthersSame(r)
<1>1. /\ stream' \in [Runs -> Stream]
      /\ \A q \in Runs \ {r} : stream'[q] = stream[q]
  BY EndsEffect DEF ChatTypeOK
<1>2. RowsTypeOK'
  BY <1>1 DEF RowsTypeOK, ChatTypeOK, StoreTypeOK, TaskTypeOK, StreamTypeOK,
              chatStoreVars
<1>3. OthersSame(r)
  BY <1>1 DEF OthersSame, Same, Open, chatStoreVars
<1>4. QED
  BY <1>2, <1>3

LEMMA CloseFrame ==
  ASSUME ChatTypeOK, NEW r \in Runs, Close(r),
         UNCHANGED <<chatStoreVars, task, answer, graph, abandoned>>
  PROVE  RowsTypeOK' /\ OthersSame(r)
<1>1. /\ stream' \in [Runs -> Stream]
      /\ closing' \in [Runs -> ClosingStates]
      /\ \A q \in Runs \ {r} : stream'[q] = stream[q] /\ closing'[q] = closing[q]
  BY CloseEffect DEF ChatTypeOK
<1>2. RowsTypeOK'
  BY <1>1 DEF RowsTypeOK, ChatTypeOK, StoreTypeOK, TaskTypeOK, StreamTypeOK,
              chatStoreVars
<1>3. OthersSame(r)
  BY <1>1 DEF OthersSame, Same, Open, chatStoreVars
<1>4. QED
  BY <1>2, <1>3

LEMMA OpenGraphFrame ==
  ASSUME ChatTypeOK, NEW r \in Runs, RunInv(r), OpenGraph(r)
  PROVE  RowsTypeOK' /\ OthersSame(r)
<1>1. CASE answer[r] = "none"
  <2>1. Goto(r, "deciding") /\ "deciding" \in StreamStates
    BY <1>1 DEF OpenGraph, StreamStates, BusyStreams
  <2>2. /\ stream' \in [Runs -> Stream]
        /\ \A q \in Runs \ {r} : stream'[q] = stream[q]
    BY <2>1, GotoEffect DEF ChatTypeOK
  <2>3. /\ checkpoints' = checkpoints \cup {r}
        /\ UNCHANGED <<conversations, runs, calls, approvals, effects, task,
                       answer, graph, closing, abandoned>>
    BY <1>1 DEF OpenGraph
  <2>4. RowsTypeOK'
    BY <2>2, <2>3 DEF RowsTypeOK, ChatTypeOK, StoreTypeOK, TaskTypeOK, StreamTypeOK
  <2>5. OthersSame(r)
    BY <2>2, <2>3 DEF OthersSame, Same, Open
  <2>6. QED
    BY <2>4, <2>5
<1>2. CASE answer[r] # "none" /\ r \in checkpoints
  <2>1. graph[r].batch \in SUBSET Calls /\ stream[r].attempt < MaxAttempts
    BY <1>2 DEF OpenGraph, At, RunInv, Control, Admitted, ChatTypeOK, StreamTypeOK
  <2>2. /\ stream' \in [Runs -> Stream]
        /\ task' \in [Runs -> [Attempts -> [Calls -> TaskStates]]]
        /\ \A q \in Runs \ {r} : stream'[q] = stream[q] /\ task'[q] = task[q]
    <3>1. Enters(r, graph[r].batch)
      BY <1>2 DEF OpenGraph, Enters
    <3>2. QED
      BY <2>1, <3>1, PassEffect
  <2>3. UNCHANGED <<conversations, runs, calls, checkpoints, approvals, effects,
                    answer, graph, closing, abandoned>>
    BY <1>2 DEF OpenGraph
  <2>4. RowsTypeOK'
    BY <2>2, <2>3 DEF RowsTypeOK, ChatTypeOK, StoreTypeOK, TaskTypeOK, StreamTypeOK
  <2>5. OthersSame(r)
    BY <2>2, <2>3 DEF OthersSame, Same, Open
  <2>6. QED
    BY <2>4, <2>5
<1>3. CASE answer[r] # "none" /\ r \notin checkpoints
  BY <1>3, EndsFrame DEF OpenGraph, Outcomes, chatStoreVars
<1>4. QED
  BY <1>1, <1>2, <1>3

LEMMA AskToolsFrame ==
  ASSUME ChatTypeOK, NEW r \in Runs, NEW batch \in SUBSET CallsOf[r],
         AskTools(r, batch)
  PROVE  RowsTypeOK' /\ OthersSame(r)
<1>1. CASE graph[r].passes < LoopLimit
  <2>1. batch \in SUBSET Calls /\ stream[r].attempt < MaxAttempts
    BY <1>1, ChatRunAssumption DEF AskTools
  <2>2. /\ stream' \in [Runs -> Stream]
        /\ task' \in [Runs -> [Attempts -> [Calls -> TaskStates]]]
        /\ \A q \in Runs \ {r} : stream'[q] = stream[q] /\ task'[q] = task[q]
    <3>1. Enters(r, batch)
      BY <1>1 DEF AskTools, Enters
    <3>2. QED
      BY <2>1, <3>1, PassEffect
  <2>3. /\ graph' = [graph EXCEPT ![r].issued = @ \cup batch, ![r].batch = batch]
        /\ answer' = [answer EXCEPT ![r] = "none"]
        /\ UNCHANGED <<chatStoreVars, closing, abandoned>>
    BY <1>1 DEF AskTools, AnswerUsedUp
  <2>4. /\ graph' \in [Runs -> [issued: SUBSET Calls, batch: SUBSET Calls,
                               passes: Nat]]
        /\ \A q \in Runs \ {r} : graph'[q] = graph[q]
    BY <2>1, <2>3 DEF ChatTypeOK, StreamTypeOK
  <2>5. /\ answer' \in [Runs -> Answers]
        /\ \A q \in Runs \ {r} : answer'[q] = answer[q]
    BY <2>3 DEF ChatTypeOK, TaskTypeOK, Answers
  <2>6. RowsTypeOK'
    BY <2>2, <2>3, <2>4, <2>5
       DEF RowsTypeOK, ChatTypeOK, StoreTypeOK, TaskTypeOK, StreamTypeOK,
           chatStoreVars
  <2>7. OthersSame(r)
    BY <2>2, <2>3, <2>4, <2>5 DEF OthersSame, Same, Open, chatStoreVars
  <2>8. QED
    BY <2>6, <2>7
<1>2. CASE ~ graph[r].passes < LoopLimit
  BY <1>2, EndsFrame DEF AskTools, Outcomes
<1>3. QED
  BY <1>1, <1>2

\* The steps that write the state of the run.
LEMMA SetRunStateFrame ==
  ASSUME ChatTypeOK, NEW r \in Runs, NEW state \in RunStates,
         SetRunState(r, state),
         stream' \in [Runs -> Stream], closing' \in [Runs -> ClosingStates],
         \A q \in Runs \ {r} : stream'[q] = stream[q] /\ closing'[q] = closing[q],
         UNCHANGED <<conversations, calls, checkpoints, approvals, effects,
                     task, answer, graph, abandoned>>
  PROVE  RowsTypeOK' /\ OthersSame(r)
<1>1. /\ runs' \in [Runs -> RunRow]
      /\ \A q \in Runs \ {r} : runs'[q] = runs[q]
  BY SetRunStateEffect DEF ChatTypeOK
<1>2. RowsTypeOK'
  BY <1>1 DEF RowsTypeOK, ChatTypeOK, StoreTypeOK, TaskTypeOK, StreamTypeOK
<1>3. OthersSame(r)
  BY <1>1 DEF OthersSame, Same, Open
<1>4. QED
  BY <1>2, <1>3

LEMMA SettleWriteFrame ==
  ASSUME ChatTypeOK, NEW r \in Runs, RunInv(r), SettleWrite(r)
  PROVE  RowsTypeOK' /\ OthersSame(r)
<1>1. CASE SettleHolds(r)
  <2>1. stream[r].outcome \in RunStates
    BY DEF SettleWrite, At, RunInv, Control, Settling, Unpersisted, ChatTypeOK, StreamTypeOK,
           Stream, Outcomes, RunStates, ActiveRunStates, TerminalRunStates
  <2>2. /\ SetRunState(r, stream[r].outcome)
        /\ Goto(r, AfterSettling(stream[r].outcome))
        /\ AfterSettling(stream[r].outcome) \in StreamStates
        /\ UNCHANGED <<conversations, calls, checkpoints, approvals, effects,
                       task, answer, graph, closing, abandoned>>
    BY <1>1 DEF SettleWrite, AfterSettling, StreamStates
  <2>3. /\ stream' \in [Runs -> Stream]
        /\ closing' \in [Runs -> ClosingStates]
        /\ \A q \in Runs \ {r} :
             stream'[q] = stream[q] /\ closing'[q] = closing[q]
    BY <2>2, GotoEffect DEF ChatTypeOK, StreamTypeOK
  <2>4. QED
    BY <2>1, <2>2, <2>3, SetRunStateFrame
<1>2. CASE ~ SettleHolds(r)
  BY <1>2, CloseFrame DEF SettleWrite, chatStoreVars
<1>3. QED
  BY <1>1, <1>2

LEMMA SettleCutOffFrame ==
  ASSUME ChatTypeOK, NEW r \in Runs, RunInv(r), SettleCutOff(r)
  PROVE  RowsTypeOK' /\ OthersSame(r)
<1>1. stream[r].outcome \in RunStates
  BY DEF SettleCutOff, At, RunInv, Control, Settling, Unpersisted, ChatTypeOK, StreamTypeOK,
         Stream, Outcomes, RunStates, ActiveRunStates, TerminalRunStates
<1>2. /\ stream' \in [Runs -> Stream]
      /\ closing' \in [Runs -> ClosingStates]
      /\ \A q \in Runs \ {r} :
           stream'[q] = stream[q] /\ closing'[q] = closing[q]
  BY CloseEffect DEF SettleCutOff, ChatTypeOK
<1>3. QED
  BY <1>1, <1>2, SetRunStateFrame DEF SettleCutOff

LEMMA FinalizerFrame ==
  ASSUME ChatTypeOK, NEW r \in Runs, RunInv(r), FinalizerProgress(r)
  PROVE  RowsTypeOK' /\ OthersSame(r)
<1> USE DEF ChatTypeOK
<1>1. CASE FinalizeRead(r)
  BY <1>1 DEF FinalizeRead, RowsTypeOK, StoreTypeOK, TaskTypeOK, StreamTypeOK,
              chatStoreVars, ClosingStates, OthersSame, Same, Open
<1>2. CASE FinalizeWrite(r)
  <2>1. /\ stream' \in [Runs -> Stream]
        /\ closing' \in [Runs -> ClosingStates]
        /\ \A q \in Runs \ {r} :
             stream'[q] = stream[q] /\ closing'[q] = closing[q]
    BY <1>2 DEF FinalizeWrite, StreamTypeOK, ClosingStates
  <2>2. CASE FailHolds(r)
    BY <1>2, <2>1, <2>2, SetRunStateFrame
       DEF FinalizeWrite, RunStates, TerminalRunStates
  <2>3. CASE ~ FailHolds(r)
    BY <1>2, <2>1, <2>3
       DEF FinalizeWrite, RowsTypeOK, StoreTypeOK, TaskTypeOK, StreamTypeOK,
           OthersSame, Same, Open
  <2>4. QED
    BY <2>2, <2>3
<1>3. CASE Sweep(r)
  BY <1>3 DEF Sweep, RowsTypeOK, StoreTypeOK, TaskTypeOK, StreamTypeOK,
              ClosingStates, OthersSame, Same, Open
<1>4. QED
  BY <1>1, <1>2, <1>3 DEF FinalizerProgress

LEMMA ProgressFrame ==
  ASSUME ChatTypeOK, NEW r \in Runs, RunInv(r), RunProgress(r)
  PROVE  RowsTypeOK' /\ OthersSame(r)
<1> USE DEF StreamStates, BusyStreams, Outcomes
<1>1. CASE CreateTurn(r)     BY <1>1, CreateTurnFrame
<1>2. CASE RefuseTurn(r)     BY <1>2, GotoFrame DEF RefuseTurn
<1>3. CASE LoadContext(r)    BY <1>3, GotoFrame DEF LoadContext
<1>4. CASE OpenGraph(r)      BY <1>4, OpenGraphFrame
<1>5. CASE OpenFails(r)      BY <1>5, CloseFrame DEF OpenFails
<1>6. CASE Reply(r)          BY <1>6, EndsFrame DEF Reply
<1>7. CASE DecisionRaises(r) BY <1>7, EndsFrame DEF DecisionRaises
<1>8. ASSUME NEW batch \in SUBSET (CallsOf[r] \ graph[r].issued),
             AskTools(r, batch)
      PROVE  RowsTypeOK' /\ OthersSame(r)
  <2>1. batch \in SUBSET CallsOf[r]
    OBVIOUS
  <2>2. QED
    BY <1>8, <2>1, AskToolsFrame
<1>9. CASE ToolsReturn(r)
  <2>1. /\ stream' \in [Runs -> Stream]
        /\ \A q \in Runs \ {r} : stream'[q] = stream[q]
    BY <1>9, GotoEffect DEF ToolsReturn, ChatTypeOK
  <2>2. /\ graph' \in [Runs -> [issued: SUBSET Calls, batch: SUBSET Calls,
                               passes: Nat]]
        /\ \A q \in Runs \ {r} : graph'[q] = graph[q]
    BY <1>9 DEF ToolsReturn, ChatTypeOK, StreamTypeOK
  <2>3. QED
    BY <1>9, <2>1, <2>2
       DEF ToolsReturn, RowsTypeOK, ChatTypeOK, StoreTypeOK, TaskTypeOK,
           StreamTypeOK, chatStoreVars, OthersSame, Same, Open
<1>10. CASE ToolsRaise(r)    BY <1>10, EndsFrame DEF ToolsRaise
<1>11. CASE SettleRead(r)    BY <1>11, GotoFrame, CloseFrame DEF SettleRead
<1>12. CASE SettleWrite(r)   BY <1>12, SettleWriteFrame
<1>13. CASE Clean(r)
  <2>1. /\ stream' \in [Runs -> Stream]
        /\ \A q \in Runs \ {r} : stream'[q] = stream[q]
    BY <1>13, GotoEffect DEF Clean, ChatTypeOK
  <2>2. QED
    BY <1>13, <2>1
       DEF Clean, RowsTypeOK, ChatTypeOK, StoreTypeOK, TaskTypeOK, StreamTypeOK,
           OthersSame, Same, Open
<1>14. QED
  BY <1>1, <1>2, <1>3, <1>4, <1>5, <1>6, <1>7, <1>8, <1>9, <1>10, <1>11, <1>12,
     <1>13 DEF RunProgress

LEMMA DisconnectFrame ==
  ASSUME ChatTypeOK, NEW r \in Runs, Disconnect(r)
  PROVE  RowsTypeOK' /\ OthersSame(r)
<1>1. /\ stream' \in [Runs -> Stream]
      /\ closing' \in [Runs -> ClosingStates]
      /\ \A q \in Runs \ {r} : stream'[q] = stream[q] /\ closing'[q] = closing[q]
  BY CloseEffect DEF Disconnect, ChatTypeOK
<1>2. /\ task' \in [Runs -> [Attempts -> [Calls -> TaskStates]]]
      /\ \A q \in Runs \ {r} : task'[q] = task[q]
  BY DEF Disconnect, TasksCancelled, ChatTypeOK, TaskTypeOK, TaskStates
<1>3. QED
  BY <1>1, <1>2
     DEF Disconnect, RowsTypeOK, ChatTypeOK, StoreTypeOK, TaskTypeOK, StreamTypeOK,
         chatStoreVars, OthersSame, Same, Open

LEMMA ResumeFrame ==
  ASSUME ChatTypeOK, NEW r \in Runs, NEW action \in {"accept", "decline"},
         Resume(r, action)
  PROVE  RowsTypeOK' /\ OthersSame(r)
<1>1. /\ runs' \in [Runs -> RunRow]
      /\ \A q \in Runs \ {r} : runs'[q] = runs[q]
  BY SetRunStateEffect DEF Resume, ChatTypeOK, RunStates, ActiveRunStates
<1>2. /\ stream' \in [Runs -> Stream]
      /\ \A q \in Runs \ {r} : stream'[q] = stream[q]
  <2>1. "opening" \in StreamStates /\ "none" \in Outcomes
    BY DEF StreamStates, BusyStreams, Outcomes
  <2>2. QED
    BY <2>1, OutcomeEffect DEF Resume, ChatTypeOK
<1>3. /\ answer' \in [Runs -> Answers]
      /\ \A q \in Runs \ {r} : answer'[q] = answer[q]
  BY DEF Resume, ChatTypeOK, TaskTypeOK, Answers
<1>4. approvals' \in [Runs -> [Guarded -> Nat]]
  <2>1. [k \in Guarded |->
           IF action = "accept" /\ k \in graph[r].batch
           THEN approvals[r][k] + 1 ELSE approvals[r][k]] \in [Guarded -> Nat]
    BY DEF ChatTypeOK, StoreTypeOK
  <2>2. QED
    BY <2>1 DEF Resume, ChatTypeOK, StoreTypeOK
<1>5. QED
  BY <1>1, <1>2, <1>3, <1>4
     DEF Resume, RowsTypeOK, ChatTypeOK, StoreTypeOK, TaskTypeOK, StreamTypeOK,
         OthersSame, Same, Open

\* Every step of a run keeps the types and leaves the other runs alone.
LEMMA RunFrame ==
  ASSUME ChatTypeOK, NEW r \in Runs, RunInv(r), RunStep(r)
  PROVE  RowsTypeOK' /\ OthersSame(r)
<1>1. CASE RunProgress(r)        BY <1>1, ProgressFrame
<1>2. CASE FinalizerProgress(r)  BY <1>2, FinalizerFrame
<1>3. CASE Disconnect(r)         BY <1>3, DisconnectFrame
<1>4. CASE DisconnectSettled(r)
  BY <1>4, GotoFrame DEF DisconnectSettled, StreamStates
<1>5. CASE SettleCutOff(r)       BY <1>5, SettleCutOffFrame
<1>6. CASE SettleBusy(r)         BY <1>6, CloseFrame DEF SettleBusy
<1>7. CASE FinalizeBusy(r)
  BY <1>7
     DEF FinalizeBusy, RowsTypeOK, ChatTypeOK, StoreTypeOK, TaskTypeOK,
         StreamTypeOK, ClosingStates, chatStoreVars, OthersSame, Same, Open
<1>8. ASSUME NEW c \in Conversations, BeginTurn(r, c)
      PROVE  RowsTypeOK' /\ OthersSame(r)
  <2>1. /\ stream' \in [Runs -> Stream]
        /\ \A q \in Runs \ {r} : stream'[q] = stream[q]
    <3>1. "creating" \in StreamStates
      BY DEF StreamStates
    <3> PICK s : s = [stream[r] EXCEPT !.pc = "creating", !.conversation = c]
      OBVIOUS
    <3>2. s \in Stream
      BY <3>1 DEF ChatTypeOK, StreamTypeOK, Stream
    <3>3. stream \in [Runs -> Stream] /\ stream' = [stream EXCEPT ![r] = s]
      BY <1>8 DEF BeginTurn, ChatTypeOK, StreamTypeOK
    <3>4. QED
      BY <3>2, <3>3
  <2>2. QED
    BY <1>8, <2>1
       DEF BeginTurn, RowsTypeOK, ChatTypeOK, StoreTypeOK, TaskTypeOK,
           StreamTypeOK, chatStoreVars, OthersSame, Same, Open
<1>9. ASSUME NEW action \in {"accept", "decline"}, Resume(r, action)
      PROVE  RowsTypeOK' /\ OthersSame(r)
  BY <1>9, ResumeFrame
<1>10. QED
  BY <1>1, <1>2, <1>3, <1>4, <1>5, <1>6, <1>7, <1>8, <1>9 DEF RunStep

-----------------------------------------------------------------------------
(* What a step does to the run that takes it *)

\* A run whose rows, graph and tasks stay: what has to be shown is about where
\* its request and its finalizer are.
LEMMA MoveInv ==
  ASSUME NEW r \in Runs, RunInv(r), Control(r)',
         UNCHANGED <<runs, calls, checkpoints, graph>>,
         stream'[r].attempt = stream[r].attempt,
         \A a \in Attempts, k \in Calls :
            task'[r][a][k] \in {task[r][a][k], "idle"},
         Paused(r)' => Quiet(r),
         Asking(r)' => Resumable(r),
         BetweenPasses(r)' => BetweenPasses(r)
  PROVE  RunInv(r)'
<1>1. Quiet(r) => Quiet(r)'
  BY ChatStoreAssumption DEF Quiet, LiveTasks
<1>2. OneGuardedTask(r)'
  BY <1>1, ChatStoreAssumption DEF RunInv, OneGuardedTask, LiveTasks
<1>3. ResumableInv(r)'
  BY DEF RunInv, ResumableInv, Resumable
<1>4. Results(r)'
  BY DEF RunInv, Results, Answered
<1>5. QED
  BY <1>2, <1>3, <1>4 DEF RunInv

LEMMA CloseInv ==
  ASSUME ChatTypeOK, NEW r \in Runs, RunInv(r), Close(r),
         stream[r].pc \in BusyStreams,
         UNCHANGED <<chatStoreVars, answer, graph, abandoned>>,
         \A a \in Attempts, k \in Calls :
            task'[r][a][k] \in {task[r][a][k], "idle"}
  PROVE  RunInv(r)'
<1>1. /\ stream'[r].pc = "none"
      /\ stream'[r].attempt = stream[r].attempt
      /\ closing'[r] = "failing"
  BY CloseEffect DEF ChatTypeOK
<1>2. Control(r)'
  BY <1>1
     DEF RunInv, Control, Unborn, RowSound, Starting, Admitted, Settling, Served,
         Checkpointed, Unpersisted, BusyStreams, chatStoreVars
<1>3. Paused(r)' => Quiet(r)
  BY <1>1 DEF RunInv, OneGuardedTask, Paused, Interrupting, Unpersisted,
              chatStoreVars
<1>4. Asking(r)' => Resumable(r)
  BY <1>1 DEF RunInv, ResumableInv, Asking, Interrupting, Unpersisted,
              chatStoreVars
<1>5. BetweenPasses(r)' => BetweenPasses(r)
  BY <1>1 DEF BetweenPasses, Unpersisted, chatStoreVars
<1>6. QED
  BY <1>1, <1>2, <1>3, <1>4, <1>5, MoveInv DEF chatStoreVars

LEMMA BeginTurnInv ==
  ASSUME ChatTypeOK, NEW r \in Runs, RunInv(r), NEW c \in Conversations,
         BeginTurn(r, c)
  PROVE  RunInv(r)'
<1>1. /\ stream'[r].pc = "creating"
      /\ stream'[r].conversation = c
      /\ stream'[r].attempt = stream[r].attempt
  BY DEF BeginTurn, ChatTypeOK, StreamTypeOK, Stream
<1>2. /\ runs[r].state = "none"
      /\ UNCHANGED <<chatStoreVars, task, answer, graph, closing, abandoned>>
  BY DEF BeginTurn
<1>3. Control(r)'
  BY <1>1, <1>2
     DEF RunInv, Control, Unborn, RowSound, Starting, Admitted, Settling, Served,
         Checkpointed, Unpersisted, chatStoreVars
<1>4. Paused(r)' => Quiet(r)
  BY <1>2 DEF RunInv, OneGuardedTask, Paused
<1>5. graph[r].issued = {}
  BY <1>2 DEF RunInv, Control, Unborn
<1>6. OneGuardedTask(r)'
  BY <1>1, <1>2, <1>4 DEF RunInv, OneGuardedTask, Quiet, chatStoreVars
<1>7. Results(r)'
  BY <1>1, <1>2, <1>5 DEF RunInv, Results, Answered, chatStoreVars
<1>8. ResumableInv(r)'
  BY <1>1, <1>2 DEF ResumableInv, Asking, Interrupting, Unpersisted, chatStoreVars
<1>9. QED
  BY <1>3, <1>6, <1>7, <1>8 DEF RunInv

LEMMA CreateTurnInv ==
  ASSUME ChatTypeOK, NEW r \in Runs, RunInv(r), CreateTurn(r)
  PROVE  RunInv(r)'
<1>1. /\ stream'[r].pc = "loading"
      /\ stream'[r].conversation = stream[r].conversation
      /\ stream'[r].attempt = stream[r].attempt
  BY GotoEffect DEF CreateTurn, ChatTypeOK, StreamStates
<1>2. /\ runs'[r].state = "running"
      /\ runs'[r].conversation = stream[r].conversation
      /\ UNCHANGED <<conversations, calls, checkpoints, task, answer, graph,
                     closing, abandoned>>
      /\ Open(stream[r].conversation)
  BY DEF CreateTurn, ChatTypeOK, StoreTypeOK
<1>3. /\ runs[r].state = "none"
      /\ stream[r].pc = "creating"
      /\ graph[r].issued = {}
      /\ closing[r] = "no"
  BY DEF CreateTurn, At, RunInv, Control, Starting, Unborn
<1>4. Control(r)'
  BY <1>1, <1>2, <1>3
     DEF RunInv, Control, Unborn, RowSound, Starting, Admitted, Settling, Served,
         Checkpointed, Unpersisted, Open
<1>5. Quiet(r)
  BY <1>3 DEF RunInv, OneGuardedTask, Paused
<1>6. OneGuardedTask(r)'
  BY <1>1, <1>2, <1>3, <1>5 DEF RunInv, OneGuardedTask, Quiet
<1>7. ResumableInv(r)'
  BY <1>1, <1>2 DEF ResumableInv, Asking, Interrupting, Unpersisted
<1>8. Results(r)'
  BY <1>1, <1>2, <1>3 DEF RunInv, Results, Answered
<1>9. QED
  BY <1>4, <1>6, <1>7, <1>8 DEF RunInv

\* A request that moves on and changes nothing else.
LEMMA GotoInv ==
  ASSUME ChatTypeOK, NEW r \in Runs, RunInv(r), NEW pc \in StreamStates,
         Goto(r, pc), Control(r)',
         UNCHANGED <<chatStoreVars, task, answer, graph, closing, abandoned>>,
         \/ pc = "none"
         \/ pc = "opening" /\ At(r, "loading") /\ answer[r] = "none"
         \/ pc = "writing" /\ At(r, "settling")
  PROVE  RunInv(r)'
<1>1. /\ stream'[r].pc = pc
      /\ stream'[r].attempt = stream[r].attempt
      /\ stream'[r].outcome = stream[r].outcome
  BY GotoEffect DEF ChatTypeOK
<1>2. Paused(r)' => Quiet(r)
  BY <1>1 DEF RunInv, OneGuardedTask, Paused, Interrupting, Unpersisted,
              chatStoreVars, At
<1>3. Asking(r)' => Resumable(r)
  BY <1>1 DEF RunInv, ResumableInv, Asking, Interrupting, Unpersisted,
              chatStoreVars, At
<1>4. BetweenPasses(r)' => BetweenPasses(r)
  BY <1>1 DEF BetweenPasses, Unpersisted, chatStoreVars, At
<1>5. QED
  BY <1>1, <1>2, <1>3, <1>4, MoveInv DEF chatStoreVars

LEMMA RefuseTurnInv ==
  ASSUME ChatTypeOK, NEW r \in Runs, RunInv(r), RefuseTurn(r)
  PROVE  RunInv(r)'
<1>1. Goto(r, "none") /\ "none" \in StreamStates /\ stream'[r].pc = "none"
  BY GotoEffect DEF RefuseTurn, ChatTypeOK, StreamStates
<1>2. Control(r)'
  BY <1>1 DEF RefuseTurn, At, RunInv, Control, Unborn, RowSound, Starting, Admitted, Settling, Served,
         Checkpointed, Unpersisted, chatStoreVars
<1>3. QED
  BY <1>1, <1>2, GotoInv DEF RefuseTurn

LEMMA LoadContextInv ==
  ASSUME ChatTypeOK, NEW r \in Runs, RunInv(r), LoadContext(r)
  PROVE  RunInv(r)'
<1>1. CASE Open(stream[r].conversation)
  <2>1. /\ Goto(r, "opening") /\ "opening" \in StreamStates
        /\ stream'[r].pc = "opening"
    BY <1>1, GotoEffect DEF LoadContext, ChatTypeOK, StreamStates, BusyStreams
  <2>2. Control(r)'
    BY <2>1 DEF LoadContext, At, RunInv, Control, Unborn, RowSound, Starting, Admitted, Settling, Served,
         Checkpointed, Unpersisted, chatStoreVars, BusyStreams
  <2>3. At(r, "loading") /\ answer[r] = "none"
    BY DEF LoadContext, At, RunInv, Control, Starting
  <2>4. QED
    BY <2>1, <2>2, <2>3, GotoInv DEF LoadContext
<1>2. CASE ~ Open(stream[r].conversation)
  <2>1. Goto(r, "none") /\ "none" \in StreamStates /\ stream'[r].pc = "none"
    BY <1>2, GotoEffect DEF LoadContext, ChatTypeOK, StreamStates
  <2>2. Control(r)'
    BY <1>2, <2>1 DEF LoadContext, At, RunInv, Control, Unborn, RowSound, Starting, Admitted, Settling, Served,
         Checkpointed, Unpersisted, chatStoreVars
  <2>3. QED
    BY <2>1, <2>2, GotoInv DEF LoadContext
<1>3. QED
  BY <1>1, <1>2

LEMMA DisconnectSettledInv ==
  ASSUME ChatTypeOK, NEW r \in Runs, RunInv(r), DisconnectSettled(r)
  PROVE  RunInv(r)'
<1>1. Goto(r, "none") /\ "none" \in StreamStates /\ stream'[r].pc = "none"
  BY GotoEffect DEF DisconnectSettled, ChatTypeOK, StreamStates
<1>2. Control(r)'
  BY <1>1 DEF DisconnectSettled, At, RunInv, Control, Unborn, RowSound, Starting, Admitted, Settling, Served,
         Checkpointed, Unpersisted, chatStoreVars, BusyStreams, OverStates,
              TerminalRunStates
<1>3. QED
  BY <1>1, <1>2, GotoInv DEF DisconnectSettled

LEMMA SettleReadInv ==
  ASSUME ChatTypeOK, NEW r \in Runs, RunInv(r), SettleRead(r)
  PROVE  RunInv(r)'
<1>1. CASE stream[r].outcome = "completed" \/ runs[r].state = "running"
  <2>1. /\ Goto(r, "writing") /\ "writing" \in StreamStates
        /\ UNCHANGED <<chatStoreVars, task, answer, graph, closing, abandoned>>
    BY <1>1 DEF SettleRead, StreamStates, BusyStreams
  <2>2. stream'[r].pc = "writing" /\ stream'[r].outcome = stream[r].outcome
    BY <2>1, GotoEffect DEF ChatTypeOK
  <2>3. At(r, "settling")
    BY DEF SettleRead
  <2>4. Control(r)'
    BY <2>1, <2>2, <2>3 DEF At, RunInv, Control, Unborn, RowSound, Starting, Admitted, Settling, Served,
         Checkpointed, Unpersisted, chatStoreVars, BusyStreams
  <2>5. QED
    BY <2>1, <2>3, <2>4, GotoInv
<1>2. CASE ~ (stream[r].outcome = "completed" \/ runs[r].state = "running")
  BY <1>2, CloseInv DEF SettleRead, At, BusyStreams
<1>3. QED
  BY <1>1, <1>2

\* A request whose graph ended changes nothing else.
LEMMA EndsInv ==
  ASSUME ChatTypeOK, NEW r \in Runs, RunInv(r), NEW outcome \in Outcomes,
         Ends(r, outcome),
         UNCHANGED <<chatStoreVars, task, answer, graph, closing, abandoned>>,
         stream[r].pc \in {"opening", "deciding", "tools"},
         outcome # "none",
         outcome = "interrupted" =>
            /\ Quiet(r)
            /\ runs[r].state \in ActiveRunStates => Resumable(r),
         outcome = "completed" => At(r, "deciding")
  PROVE  RunInv(r)'
<1>1. /\ stream'[r].pc = "settling"
      /\ stream'[r].attempt = stream[r].attempt
      /\ stream'[r].outcome = outcome
  BY EndsEffect DEF ChatTypeOK
<1>2. Control(r)'
  BY <1>1 DEF RunInv, Control, Unborn, RowSound, Starting, Admitted, Settling, Served,
         Checkpointed, Unpersisted, chatStoreVars, BusyStreams
<1>3. Paused(r)' => Quiet(r)
  BY <1>1 DEF RunInv, OneGuardedTask, Paused, Interrupting, Unpersisted,
              chatStoreVars
<1>4. Asking(r)' => Resumable(r)
  BY <1>1 DEF RunInv, ResumableInv, Asking, Interrupting, Unpersisted,
              chatStoreVars
<1>5. BetweenPasses(r)' => BetweenPasses(r)
  BY <1>1 DEF BetweenPasses, Unpersisted, chatStoreVars, At
<1>6. QED
  BY <1>1, <1>2, <1>3, <1>4, <1>5, MoveInv DEF chatStoreVars

LEMMA ToolsRaiseInv ==
  ASSUME ChatTypeOK, NEW r \in Runs, RunInv(r), ToolsRaise(r)
  PROVE  RunInv(r)'
<1>1. /\ stream[r].pc = "tools"
      /\ stream[r].attempt \in Attempts
      /\ graph[r].batch \subseteq Calls
  BY DEF ToolsRaise, At, RunInv, Control, Admitted, ChatTypeOK, StreamTypeOK
<1>2. UNCHANGED <<chatStoreVars, task, answer, graph, closing, abandoned>>
  BY DEF ToolsRaise
<1>3. CASE InBatch(r, "interrupting") /\ Ends(r, "interrupted")
  <2>1. PICK k \in graph[r].batch : task[r][stream[r].attempt][k] = "interrupting"
    BY <1>3 DEF InBatch
  <2>2. k \in Guarded /\ (calls[r][k] = "running" \/ runs[r].state = "gone")
    BY <1>1, <2>1 DEF RunInv, OneGuardedTask
  <2>3. Quiet(r)
    BY <1>1, <2>1, <2>2 DEF RunInv, OneGuardedTask, Quiet, LiveTasks
  <2>4. runs[r].state \in ActiveRunStates => Resumable(r)
    BY <1>1, <2>1, <2>2
       DEF RunInv, Control, Checkpointed, Resumable, ActiveRunStates
  <2>5. QED
    BY <1>1, <1>2, <1>3, <2>3, <2>4, EndsInv DEF Outcomes
<1>4. CASE InBatch(r, "raising") /\ Ends(r, "failed")
  BY <1>1, <1>2, <1>4, EndsInv DEF Outcomes
<1>5. QED
  BY <1>3, <1>4 DEF ToolsRaise

\* A new pass: none of its guarded calls is being worked on from before.
LEMMA PassInv ==
  ASSUME ChatTypeOK, NEW r \in Runs, RunInv(r), NEW batch \in SUBSET Calls,
         stream[r].attempt < MaxAttempts, Enters(r, batch),
         stream[r].pc \in {"opening", "deciding"},
         runs[r].state \in ActiveRunStates => r \in checkpoints,
         \A k, l \in batch \cap Guarded : k = l,
         graph'[r].batch = batch,
         graph'[r].issued = graph[r].issued \cup batch,
         \A k \in graph'[r].issued \ batch : Answered(r, k),
         UNCHANGED <<chatStoreVars, closing, abandoned>>
  PROVE  RunInv(r)'
<1>1. /\ stream'[r].pc = "tools"
      /\ stream'[r].conversation = stream[r].conversation
      /\ stream'[r].attempt = stream[r].attempt + 1
      /\ stream'[r].outcome = stream[r].outcome
      /\ \A a \in Attempts, k \in Calls :
           \/ a = stream'[r].attempt /\ k \in batch /\ task'[r][a][k] = "start"
           \/ task'[r][a][k] = task[r][a][k] /\ task[r][a][k] \in LiveTasks
           \/ task'[r][a][k] = "idle"
  BY PassEffect
<1>2. stream'[r].attempt \in Attempts
  BY <1>1, AttemptsAssumption DEF Attempts, ChatTypeOK, StreamTypeOK, Stream
<1>3. runs[r].state \notin {"none", "interrupted", "completed"}
  BY DEF RunInv, Control, Unborn, Settling
<1>4. Control(r)'
  BY <1>1, <1>2, <1>3 DEF RunInv, Control, Unborn, RowSound, Starting, Admitted, Settling, Served,
         Checkpointed, Unpersisted, chatStoreVars, BusyStreams
<1>5. Quiet(r)
  BY DEF RunInv, OneGuardedTask, Paused
<1>6. /\ ~ Paused(r)'
      /\ ~ Asking(r)'
      /\ ~ BetweenPasses(r)'
  BY <1>1, <1>3 DEF Paused, Asking, BetweenPasses, Interrupting, Unpersisted,
                    chatStoreVars
<1>7. \A a \in Attempts, k \in Guarded :
        task'[r][a][k] \in LiveTasks \cup {"interrupting"} =>
            /\ a = stream'[r].attempt
            /\ k \in batch
            /\ task'[r][a][k] = "start"
  BY <1>1, <1>5, ChatStoreAssumption DEF Quiet, LiveTasks
<1>8. OneGuardedTask(r)'
  <2>1. \A a \in Attempts, k \in Calls : task'[r][a][k] # "interrupting"
    BY <1>1 DEF LiveTasks
  <2>2. QED
    BY <1>6, <1>7, <2>1 DEF OneGuardedTask, LiveTasks
<1>9. Results(r)'
  <2>1. \A a \in Attempts, k \in Calls : task'[r][a][k] # "done"
    BY <1>1 DEF LiveTasks
  <2>2. QED
    BY <1>6, <2>1 DEF Results, Answered, chatStoreVars
<1>10. QED
  BY <1>4, <1>6, <1>8, <1>9 DEF RunInv, ResumableInv

LEMMA AskToolsInv ==
  ASSUME ChatTypeOK, NEW r \in Runs, RunInv(r), NEW batch \in SUBSET CallsOf[r],
         AskTools(r, batch)
  PROVE  RunInv(r)'
<1>1. CASE graph[r].passes < LoopLimit
  <2>1. batch \in SUBSET Calls /\ stream[r].attempt < MaxAttempts
    BY <1>1, ChatRunAssumption DEF AskTools
  <2>2. /\ Enters(r, batch)
        /\ stream[r].pc = "deciding"
        /\ \A k, l \in batch \cap Guarded : k = l
        /\ UNCHANGED <<chatStoreVars, closing, abandoned>>
    BY <1>1 DEF AskTools, At, Enters
  <2>3. /\ graph'[r].batch = batch
        /\ graph'[r].issued = graph[r].issued \cup batch
    BY <1>1 DEF AskTools, ChatTypeOK, StreamTypeOK
  <2>4. runs[r].state \in ActiveRunStates => r \in checkpoints
    BY <2>2 DEF RunInv, Control, Checkpointed
  <2>5. \A k \in graph'[r].issued \ batch : Answered(r, k)
    BY <2>2, <2>3 DEF RunInv, Results, BetweenPasses
  <2>6. QED
    BY <2>1, <2>2, <2>3, <2>4, <2>5, PassInv
<1>2. CASE ~ graph[r].passes < LoopLimit
  BY <1>2, EndsInv DEF AskTools, At, Outcomes
<1>3. QED
  BY <1>1, <1>2

LEMMA OpenGraphInv ==
  ASSUME ChatTypeOK, NEW r \in Runs, RunInv(r), OpenGraph(r)
  PROVE  RunInv(r)'
<1>1. /\ stream[r].pc = "opening"
      /\ UNCHANGED <<conversations, runs, calls, approvals, effects, answer,
                     graph, closing, abandoned>>
  BY DEF OpenGraph, At
<1>2. runs[r].state \notin {"none", "interrupted", "completed"}
  BY <1>1 DEF RunInv, Control, Unborn, Settling
<1>3. CASE answer[r] = "none"
  <2>1. /\ Goto(r, "deciding")
        /\ checkpoints' = checkpoints \cup {r}
        /\ UNCHANGED task
    BY <1>3 DEF OpenGraph
  <2>2. /\ stream'[r].pc = "deciding"
        /\ stream'[r].conversation = stream[r].conversation
        /\ stream'[r].attempt = stream[r].attempt
    BY <2>1, GotoEffect DEF ChatTypeOK, StreamStates, BusyStreams
  <2>3. Control(r)'
    BY <1>1, <1>2, <2>1, <2>2 DEF RunInv, Control, Unborn, RowSound, Starting, Admitted, Settling, Served,
         Checkpointed, Unpersisted, BusyStreams
  <2>4. Quiet(r)
    BY <1>1 DEF RunInv, OneGuardedTask, Paused
  <2>5. OneGuardedTask(r)'
    BY <1>1, <2>1, <2>2, <2>4 DEF RunInv, OneGuardedTask, Quiet
  <2>6. ResumableInv(r)'
    BY <1>1, <1>2, <2>2 DEF ResumableInv, Asking, Interrupting, Unpersisted
  <2>7. Results(r)'
    BY <1>1, <1>3, <2>1, <2>2 DEF RunInv, Results, BetweenPasses, Answered
  <2>8. QED
    BY <2>3, <2>5, <2>6, <2>7 DEF RunInv
<1>4. CASE answer[r] # "none" /\ r \in checkpoints
  <2>1. /\ Enters(r, graph[r].batch)
        /\ UNCHANGED checkpoints
    BY <1>4 DEF OpenGraph, Enters
  <2>2. /\ graph[r].batch \in SUBSET Calls
        /\ stream[r].attempt < MaxAttempts
        /\ graph[r].issued = graph[r].issued \cup graph[r].batch
    BY <1>1, <1>4 DEF RunInv, Control, Admitted, Checkpointed, ChatTypeOK,
                      StreamTypeOK
  <2>3. /\ \A k, l \in graph[r].batch \cap Guarded : k = l
        /\ \A k \in graph'[r].issued \ graph[r].batch : Answered(r, k)
    BY <1>1 DEF RunInv, OneGuardedTask, Results
  <2>4. /\ graph'[r].batch = graph[r].batch
        /\ graph'[r].issued = graph[r].issued \cup graph[r].batch
        /\ UNCHANGED <<chatStoreVars, closing, abandoned>>
    BY <1>1, <2>1, <2>2 DEF chatStoreVars
  <2>5. QED
    BY <1>1, <1>4, <2>1, <2>2, <2>3, <2>4, PassInv
<1>5. CASE answer[r] # "none" /\ r \notin checkpoints
  BY <1>1, <1>5, EndsInv DEF OpenGraph, Outcomes, chatStoreVars
<1>6. QED
  BY <1>3, <1>4, <1>5

LEMMA ToolsReturnInv ==
  ASSUME ChatTypeOK, NEW r \in Runs, RunInv(r), ToolsReturn(r)
  PROVE  RunInv(r)'
<1>1. /\ stream[r].pc = "tools"
      /\ stream[r].attempt \in Attempts
      /\ \A k \in graph[r].batch : task[r][stream[r].attempt][k] = "done"
      /\ UNCHANGED <<chatStoreVars, task, answer, closing, abandoned>>
  BY DEF ToolsReturn, At, RunInv, Control, Admitted
<1>2. /\ stream'[r].pc = "deciding"
      /\ stream'[r].conversation = stream[r].conversation
      /\ stream'[r].attempt = stream[r].attempt
  BY GotoEffect DEF ToolsReturn, ChatTypeOK, StreamStates, BusyStreams
<1>3. /\ graph'[r].batch = graph[r].batch
      /\ graph'[r].issued = graph[r].issued
  BY DEF ToolsReturn, ChatTypeOK, StreamTypeOK
<1>4. runs[r].state \notin {"none", "interrupted", "completed"}
  BY <1>1 DEF RunInv, Control, Unborn, Settling
<1>5. Control(r)'
  BY <1>1, <1>2, <1>3, <1>4 DEF RunInv, Control, Unborn, RowSound, Starting, Admitted, Settling, Served,
         Checkpointed, Unpersisted, BusyStreams, chatStoreVars
<1>6. Quiet(r)
  BY <1>1 DEF RunInv, OneGuardedTask, Quiet, LiveTasks
<1>7. OneGuardedTask(r)'
  BY <1>1, <1>2, <1>3, <1>6 DEF RunInv, OneGuardedTask, Quiet, chatStoreVars
<1>8. ResumableInv(r)'
  BY <1>1, <1>2, <1>4 DEF ResumableInv, Asking, Interrupting, Unpersisted,
                          chatStoreVars
<1>9. Results(r)'
  <2>1. \A k \in graph[r].batch : Answered(r, k)
    BY <1>1 DEF RunInv, Results, ChatTypeOK, StreamTypeOK
  <2>2. QED
    BY <1>1, <1>3, <2>1 DEF RunInv, Results, Answered, chatStoreVars
<1>10. QED
  BY <1>5, <1>7, <1>8, <1>9 DEF RunInv

\* The outcome is committed; the request stops or goes on to clean up.
LEMMA SettledInv ==
  ASSUME ChatTypeOK, NEW r \in Runs, RunInv(r), At(r, "writing"), SettleHolds(r),
         SetRunState(r, stream[r].outcome),
         UNCHANGED <<conversations, calls, checkpoints, approvals, effects,
                     task, answer, graph, abandoned>>,
         stream'[r].pc \in {"none", "cleaning"},
         stream'[r].pc = "cleaning" => stream[r].outcome # "interrupted",
         stream'[r].attempt = stream[r].attempt,
         closing'[r] \in {closing[r], "failing"}
  PROVE  RunInv(r)'
<1>1. stream[r].outcome \in {"completed", "interrupted", "failed"}
  BY DEF At, RunInv, Control, Settling, Unpersisted, ChatTypeOK, StreamTypeOK,
         Stream, Outcomes
<1>2. /\ runs'[r].state = stream[r].outcome
      /\ runs'[r].conversation = runs[r].conversation
  BY <1>1, SetRunStateEffect
     DEF ChatTypeOK, RunStates, ActiveRunStates, TerminalRunStates
<1>3. runs[r].state \notin {"none", "gone"}
  BY DEF SettleHolds, FailHolds, InterruptHolds, CompleteHolds, ActiveRunStates,
         At, RunInv, Control, Unborn
<1>4. stream[r].outcome = "interrupted" => runs[r].state \in ActiveRunStates
  BY DEF SettleHolds, InterruptHolds
<1>5. Control(r)'
  BY <1>1, <1>2, <1>3, <1>4
     DEF At, RunInv, Control, Unborn, RowSound, Starting, Admitted, Settling, Served,
         Checkpointed, Unpersisted, OverStates, TerminalRunStates, ActiveRunStates
<1>6. Paused(r)' => Quiet(r)
  BY <1>1, <1>2
     DEF At, RunInv, OneGuardedTask, Paused, Interrupting, Unpersisted
<1>7. OneGuardedTask(r)'
  BY <1>3, <1>6 DEF RunInv, OneGuardedTask, Quiet
<1>8. ResumableInv(r)'
  BY <1>2, <1>4
     DEF At, RunInv, ResumableInv, Asking, Resumable, Interrupting, Unpersisted
<1>9. BetweenPasses(r)' => BetweenPasses(r)
  BY <1>2 DEF At, BetweenPasses, Unpersisted
<1>10. Results(r)'
  BY <1>3, <1>9 DEF RunInv, Results, Answered
<1>11. QED
  BY <1>5, <1>7, <1>8, <1>10 DEF RunInv

LEMMA SettleWriteInv ==
  ASSUME ChatTypeOK, NEW r \in Runs, RunInv(r), SettleWrite(r)
  PROVE  RunInv(r)'
<1>1. CASE SettleHolds(r)
  <2>1. /\ At(r, "writing")
        /\ SetRunState(r, stream[r].outcome)
        /\ Goto(r, AfterSettling(stream[r].outcome))
        /\ AfterSettling(stream[r].outcome) \in StreamStates
        /\ UNCHANGED <<conversations, calls, checkpoints, approvals, effects,
                       task, answer, graph, closing, abandoned>>
    BY <1>1 DEF SettleWrite, AfterSettling, StreamStates
  <2>2. /\ stream'[r].pc = AfterSettling(stream[r].outcome)
        /\ stream'[r].attempt = stream[r].attempt
    BY <2>1, GotoEffect DEF ChatTypeOK
  <2>3. /\ stream'[r].pc \in {"none", "cleaning"}
        /\ stream'[r].pc = "cleaning" => stream[r].outcome # "interrupted"
    BY <2>2 DEF AfterSettling
  <2>4. QED
    BY <1>1, <2>1, <2>2, <2>3, SettledInv
<1>2. CASE ~ SettleHolds(r)
  BY <1>2, CloseInv DEF SettleWrite, At, BusyStreams, chatStoreVars
<1>3. QED
  BY <1>1, <1>2

LEMMA SettleCutOffInv ==
  ASSUME ChatTypeOK, NEW r \in Runs, RunInv(r), SettleCutOff(r)
  PROVE  RunInv(r)'
<1>1. /\ stream'[r].pc = "none"
      /\ stream'[r].attempt = stream[r].attempt
      /\ closing'[r] = "failing"
  BY CloseEffect DEF SettleCutOff, ChatTypeOK
<1>2. QED
  BY <1>1, SettledInv DEF SettleCutOff

\* The checkpoint of a run that is over goes.
LEMMA CleanedInv ==
  ASSUME ChatTypeOK, NEW r \in Runs, RunInv(r), Control(r)',
         runs[r].state \in OverStates,
         UNCHANGED <<runs, calls, task, graph>>,
         stream'[r].attempt = stream[r].attempt,
         stream'[r].outcome = stream[r].outcome,
         UNCHANGED answer,
         stream'[r].pc \in {stream[r].pc, "none"}
  PROVE  RunInv(r)'
<1>1. Paused(r)' => Quiet(r)
  BY DEF RunInv, OneGuardedTask, Paused, Interrupting, Unpersisted
<1>2. OneGuardedTask(r)'
  BY <1>1 DEF RunInv, OneGuardedTask, Quiet
<1>3. ResumableInv(r)'
  BY DEF ResumableInv, Asking, OverStates, ActiveRunStates, TerminalRunStates
<1>4. BetweenPasses(r)' => BetweenPasses(r)
  BY DEF BetweenPasses, Unpersisted
<1>5. Results(r)'
  BY <1>4 DEF RunInv, Results, Answered
<1>6. QED
  BY <1>2, <1>3, <1>5 DEF RunInv

LEMMA CleanInv ==
  ASSUME ChatTypeOK, NEW r \in Runs, RunInv(r), Clean(r)
  PROVE  RunInv(r)'
<1>1. /\ stream'[r].pc = "none"
      /\ stream'[r].attempt = stream[r].attempt
      /\ stream'[r].outcome = stream[r].outcome
  BY GotoEffect DEF Clean, ChatTypeOK, StreamStates
<1>2. runs[r].state \in OverStates
  BY DEF Clean, At, RunInv, Control, Settling
<1>3. Control(r)'
  BY <1>1, <1>2 DEF Clean, At, RunInv, Control, Unborn, RowSound, Starting, Admitted, Settling, Served,
         Checkpointed, Unpersisted, OverStates, TerminalRunStates
<1>4. QED
  BY <1>1, <1>2, <1>3, CleanedInv DEF Clean

LEMMA SweepInv ==
  ASSUME ChatTypeOK, NEW r \in Runs, RunInv(r), Sweep(r)
  PROVE  RunInv(r)'
<1>1. closing[r] = "sweeping" /\ closing'[r] = "no"
  BY DEF Sweep, ChatTypeOK, StreamTypeOK
<1>2. runs[r].state \in OverStates
  BY <1>1 DEF RunInv, Control, Settling
<1>3. Control(r)'
  BY <1>1, <1>2 DEF Sweep, RunInv, Control, Unborn, RowSound, Starting, Admitted, Settling, Served,
         Checkpointed, Unpersisted, OverStates, TerminalRunStates, ActiveRunStates
<1>4. QED
  BY <1>2, <1>3, CleanedInv DEF Sweep

LEMMA FinalizeReadInv ==
  ASSUME ChatTypeOK, NEW r \in Runs, RunInv(r), FinalizeRead(r)
  PROVE  RunInv(r)'
<1>1. /\ closing[r] = "failing"
      /\ closing'[r] = IF runs[r].state = "running" THEN "overwriting" ELSE "no"
      /\ UNCHANGED <<chatStoreVars, task, answer, stream, graph, abandoned>>
  BY DEF FinalizeRead, ChatTypeOK, StreamTypeOK
<1>2. Control(r)'
  BY <1>1 DEF RunInv, Control, Unborn, RowSound, Starting, Admitted, Settling, Served,
         Checkpointed, Unpersisted, chatStoreVars, Open
<1>3. /\ Paused(r)' => Quiet(r)
      /\ Asking(r)' => Resumable(r)
      /\ BetweenPasses(r)' => BetweenPasses(r)
  BY <1>1 DEF RunInv, OneGuardedTask, ResumableInv, Paused, Asking, BetweenPasses,
              Interrupting, Unpersisted, chatStoreVars
<1>4. QED
  BY <1>1, <1>2, <1>3, MoveInv DEF chatStoreVars

LEMMA FinalizeBusyInv ==
  ASSUME ChatTypeOK, NEW r \in Runs, RunInv(r), FinalizeBusy(r)
  PROVE  RunInv(r)'
<1>1. /\ closing[r] = "overwriting"
      /\ closing'[r] = "no"
      /\ r \in abandoned'
      /\ UNCHANGED <<chatStoreVars, task, answer, stream, graph>>
  BY DEF FinalizeBusy, ChatTypeOK, StreamTypeOK
<1>2. Control(r)'
  BY <1>1 DEF RunInv, Control, Unborn, RowSound, Starting, Admitted, Settling, Served,
         Checkpointed, Unpersisted, chatStoreVars, Open
<1>3. /\ Paused(r)' => Quiet(r)
      /\ Asking(r)' => Resumable(r)
      /\ BetweenPasses(r)' => BetweenPasses(r)
  BY <1>1 DEF RunInv, OneGuardedTask, ResumableInv, Paused, Asking, BetweenPasses,
              Interrupting, Unpersisted, chatStoreVars
<1>4. QED
  BY <1>1, <1>2, <1>3, MoveInv DEF chatStoreVars

LEMMA FinalizeWriteInv ==
  ASSUME ChatTypeOK, NEW r \in Runs, RunInv(r), FinalizeWrite(r)
  PROVE  RunInv(r)'
<1>1. /\ closing[r] = "overwriting"
      /\ UNCHANGED <<conversations, calls, checkpoints, approvals, effects,
                     task, answer, stream, graph, abandoned>>
  BY DEF FinalizeWrite
<1>2. runs[r].state # "none"
  BY <1>1 DEF RunInv, Control, Unborn
<1>3. CASE FailHolds(r)
  <2>1. /\ runs'[r].state = "failed"
        /\ closing'[r] = "sweeping"
    BY <1>3, SetRunStateEffect DEF FinalizeWrite, ChatTypeOK, StreamTypeOK,
       RunStates, TerminalRunStates
  <2>2. Control(r)'
    BY <1>1, <1>2, <2>1
       DEF RunInv, Control, Unborn, RowSound, Starting, Admitted, Settling, Served,
         Checkpointed, Unpersisted, OverStates, TerminalRunStates, ActiveRunStates
  <2>3. Paused(r)' => Quiet(r)
    BY <1>1, <2>1 DEF RunInv, OneGuardedTask, Paused, Interrupting, Unpersisted
  <2>4. OneGuardedTask(r)'
    BY <1>1, <1>3, <2>3 DEF RunInv, OneGuardedTask, Quiet, FailHolds
  <2>5. ResumableInv(r)'
    BY <2>1 DEF ResumableInv, Asking, ActiveRunStates
  <2>6. BetweenPasses(r)' => BetweenPasses(r)
    BY <1>1, <2>1 DEF BetweenPasses, Unpersisted
  <2>7. Results(r)'
    BY <1>1, <1>3, <2>6 DEF RunInv, Results, Answered, FailHolds
  <2>8. QED
    BY <2>2, <2>4, <2>5, <2>7 DEF RunInv
<1>4. CASE ~ FailHolds(r)
  <2>1. closing'[r] = "no" /\ UNCHANGED runs /\ runs[r].state = "gone"
    BY <1>4 DEF FinalizeWrite, FailHolds, ChatTypeOK, StreamTypeOK
  <2>2. Control(r)'
    BY <1>1, <2>1 DEF RunInv, Control, Unborn, RowSound, Starting, Admitted, Settling, Served,
         Checkpointed, Unpersisted
  <2>3. QED
    BY <1>1, <2>1, <2>2, CleanedInv DEF OverStates
<1>5. QED
  BY <1>3, <1>4

LEMMA ResumeInv ==
  ASSUME ChatTypeOK, NEW r \in Runs, RunInv(r),
         NEW action \in {"accept", "decline"}, Resume(r, action)
  PROVE  RunInv(r)'
<1>1. /\ runs[r].state = "interrupted"
      /\ runs'[r].state = "running"
      /\ runs'[r].conversation = runs[r].conversation
  BY SetRunStateEffect DEF Resume, ChatTypeOK, RunStates, ActiveRunStates
<1>2. /\ stream[r].attempt < MaxAttempts
      /\ stream'[r].pc = "opening"
      /\ stream'[r].attempt = stream[r].attempt
      /\ stream'[r].outcome = "none"
      /\ answer'[r] = action
      /\ action # "none"
  BY DEF Resume, ChatTypeOK, StreamTypeOK, Stream, TaskTypeOK
<1>3. UNCHANGED <<conversations, calls, checkpoints, task, graph, closing,
                  abandoned>>
  BY DEF Resume
<1>4. Control(r)'
  BY <1>1, <1>2, <1>3
     DEF RunInv, Control, Unborn, RowSound, Starting, Admitted, Settling, Served,
         Checkpointed, Unpersisted, BusyStreams, OverStates, TerminalRunStates
<1>5. Quiet(r)
  BY <1>1 DEF RunInv, OneGuardedTask, Paused
<1>6. OneGuardedTask(r)'
  BY <1>1, <1>2, <1>3, <1>5 DEF RunInv, OneGuardedTask, Quiet
<1>7. ResumableInv(r)'
  BY <1>1, <1>2 DEF ResumableInv, Asking, Interrupting, Unpersisted
<1>8. Results(r)'
  BY <1>1, <1>2, <1>3
     DEF RunInv, Results, BetweenPasses, Answered, Unpersisted
<1>9. QED
  BY <1>4, <1>6, <1>7, <1>8 DEF RunInv

LEMMA RunStepInv ==
  ASSUME ChatTypeOK, NEW r \in Runs, RunInv(r), RunStep(r)
  PROVE  RunInv(r)'
<1>1. CASE RunProgress(r)
  <2> USE DEF At, Outcomes, BusyStreams
  <2>1. CASE CreateTurn(r)     BY <2>1, CreateTurnInv
  <2>2. CASE RefuseTurn(r)     BY <2>2, RefuseTurnInv
  <2>3. CASE LoadContext(r)    BY <2>3, LoadContextInv
  <2>4. CASE OpenGraph(r)      BY <2>4, OpenGraphInv
  <2>5. CASE OpenFails(r)      BY <2>5, CloseInv DEF OpenFails
  <2>6. CASE Reply(r)          BY <2>6, EndsInv DEF Reply
  <2>7. CASE DecisionRaises(r) BY <2>7, EndsInv DEF DecisionRaises
  <2>8. ASSUME NEW batch \in SUBSET (CallsOf[r] \ graph[r].issued),
               AskTools(r, batch)
        PROVE  RunInv(r)'
    <3>1. batch \in SUBSET CallsOf[r]
      OBVIOUS
    <3>2. QED
      BY <2>8, <3>1, AskToolsInv
  <2>9. CASE ToolsReturn(r)    BY <2>9, ToolsReturnInv
  <2>10. CASE ToolsRaise(r)    BY <2>10, ToolsRaiseInv
  <2>11. CASE SettleRead(r)    BY <2>11, SettleReadInv
  <2>12. CASE SettleWrite(r)   BY <2>12, SettleWriteInv
  <2>13. CASE Clean(r)         BY <2>13, CleanInv
  <2>14. QED
    BY <1>1, <2>1, <2>2, <2>3, <2>4, <2>5, <2>6, <2>7, <2>8, <2>9, <2>10, <2>11,
       <2>12, <2>13 DEF RunProgress
<1>2. CASE FinalizerProgress(r)
  BY <1>2, FinalizeReadInv, FinalizeWriteInv, SweepInv DEF FinalizerProgress
<1>3. CASE Disconnect(r)
  <2>1. stream[r].pc \in BusyStreams /\ Close(r)
    BY <1>3 DEF Disconnect
  <2>2. \A a \in Attempts, k \in Calls : task'[r][a][k] \in {task[r][a][k], "idle"}
    BY <1>3 DEF Disconnect, TasksCancelled, ChatTypeOK, TaskTypeOK
  <2>3. QED
    BY <1>3, <2>1, <2>2, CloseInv DEF Disconnect
<1>4. CASE DisconnectSettled(r)  BY <1>4, DisconnectSettledInv
<1>5. CASE SettleCutOff(r)       BY <1>5, SettleCutOffInv
<1>6. CASE SettleBusy(r)         BY <1>6, CloseInv DEF SettleBusy, At, BusyStreams
<1>7. CASE FinalizeBusy(r)       BY <1>7, FinalizeBusyInv
<1>8. ASSUME NEW c \in Conversations, BeginTurn(r, c)
      PROVE  RunInv(r)'
  BY <1>8, BeginTurnInv
<1>9. ASSUME NEW action \in {"accept", "decline"}, Resume(r, action)
      PROVE  RunInv(r)'
  BY <1>9, ResumeInv
<1>10. QED
  BY <1>1, <1>2, <1>3, <1>4, <1>5, <1>6, <1>7, <1>8, <1>9 DEF RunStep

-----------------------------------------------------------------------------
(* What a step of one task does *)

\* The tasks move on from a live state, to interrupting only if they are guarded,
\* and have their result when they are done; a result stays.
LEMMA TaskEffect ==
  ASSUME ChatTypeOK, NEW r \in Runs, NEW a \in Attempts, NEW k \in Calls,
         TaskStep(r, a, k)
  PROVE  /\ UNCHANGED <<conversations, runs, checkpoints, approvals, answer>>
         /\ task[r][a][k] \in LiveTasks
         /\ \A q \in Runs : q # r => task'[q] = task[q] /\ calls'[q] = calls[q]
         /\ \A b \in Attempts, l \in Calls :
              <<b, l>> # <<a, k>> => task'[r][b][l] = task[r][b][l]
         /\ \A l \in Calls : l # k => calls'[r][l] = calls[r][l]
         /\ task'[r][a][k] = "interrupting" =>
              k \in Guarded /\ task[r][a][k] = "invoking" /\ UNCHANGED calls
         /\ task'[r][a][k] = "invoking" =>
              calls'[r][k] = "running"
         /\ task'[r][a][k] = "done" => calls'[r][k] \in TerminalCallStates
         /\ calls[r][k] \in TerminalCallStates =>
              calls'[r][k] \in TerminalCallStates
<1> USE DEF ChatTypeOK, StoreTypeOK, TaskTypeOK, Moves, LiveTasks,
            TerminalCallStates
<1>1. CASE CreatePending(r, a, k)  BY <1>1 DEF CreatePending
<1>2. CASE AdoptPending(r, a, k)   BY <1>2 DEF AdoptPending
<1>3. CASE Replay(r, a, k)         BY <1>3 DEF Replay
<1>4. CASE Reenter(r, a, k)        BY <1>4 DEF Reenter
<1>5. CASE RefuseCall(r, a, k)     BY <1>5 DEF RefuseCall
<1>6. CASE ReadPending(r, a, k)    BY <1>6 DEF ReadPending
<1>7. CASE MarkRunning(r, a, k)    BY <1>7 DEF MarkRunning
<1>8. CASE AskApproval(r, a, k)    BY <1>8 DEF AskApproval
<1>9. CASE Invoke(r, a, k)         BY <1>9 DEF Invoke
<1>10. CASE InvokeRefused(r, a, k) BY <1>10 DEF InvokeRefused
<1>11. CASE InvokeRaises(r, a, k)  BY <1>11 DEF InvokeRaises
<1>12. CASE ReadLive(r, a, k)      BY <1>12 DEF ReadLive
<1>13. CASE StoreResult(r, a, k)   BY <1>13 DEF StoreResult
<1>14. QED
  BY <1>1, <1>2, <1>3, <1>4, <1>5, <1>6, <1>7, <1>8, <1>9, <1>10, <1>11, <1>12,
     <1>13 DEF TaskStep

LEMMA TaskStepInv ==
  ASSUME ChatTypeOK, NEW r \in Runs, NEW a \in Attempts, NEW k \in Calls,
         RunInv(r), TaskStep(r, a, k), UNCHANGED <<stream, graph, closing, abandoned>>
  PROVE  RunInv(r)'
<1> USE TaskEffect
<1>1. Control(r)'
  BY DEF RunInv, Control, Unborn, RowSound, Starting, Admitted, Settling, Served,
         Checkpointed, Unpersisted, Open
<1>2. /\ Paused(r)' <=> Paused(r)
      /\ Asking(r)' <=> Asking(r)
      /\ BetweenPasses(r)' <=> BetweenPasses(r)
  BY DEF Paused, Asking, BetweenPasses, Interrupting, Unpersisted
<1>3. k \in Guarded => ~ Quiet(r)
  BY DEF Quiet
<1>4. OneGuardedTask(r)'
  <2>1. \A b \in Attempts, l \in Calls :
          task'[r][b][l] = "interrupting" => l \in Guarded
    BY DEF RunInv, OneGuardedTask
  <2>2. \A b \in Attempts, l \in Guarded :
          task'[r][b][l] \in LiveTasks \cup {"interrupting"} =>
              b = stream'[r].attempt /\ l \in graph'[r].batch
    BY ChatStoreAssumption DEF RunInv, OneGuardedTask
  <2>3. \A b \in Attempts, l \in Guarded :
          task'[r][b][l] \in {"invoking", "interrupting"} =>
              calls'[r][l] = "running" \/ runs'[r].state = "gone"
    <3>1. SUFFICES ASSUME NEW b \in Attempts, NEW l \in Guarded,
                          task'[r][b][l] \in {"invoking", "interrupting"}
                   PROVE  calls'[r][l] = "running" \/ runs'[r].state = "gone"
      OBVIOUS
    <3>2. CASE b = a /\ l = k
      BY <3>1, <3>2 DEF RunInv, OneGuardedTask
    <3>3. CASE l # k
      BY <3>1, <3>3, ChatStoreAssumption DEF RunInv, OneGuardedTask
    <3>4. CASE l = k /\ b # a
      BY <3>1, <3>4, ChatStoreAssumption DEF RunInv, OneGuardedTask, LiveTasks
    <3>5. QED
      BY <3>2, <3>3, <3>4
  <2>4. Paused(r) => Quiet(r)'
    BY <1>3, ChatStoreAssumption DEF RunInv, OneGuardedTask, Quiet
  <2>5. QED
    BY <1>2, <2>1, <2>2, <2>3, <2>4 DEF RunInv, OneGuardedTask
<1>5. ResumableInv(r)'
  <2>1. Asking(r) => Paused(r)
    BY DEF Asking, Paused
  <2>2. Asking(r) => k \notin Guarded
    BY <1>3, <2>1 DEF RunInv, OneGuardedTask
  <2>3. QED
    BY <1>2, <2>2, ChatStoreAssumption DEF RunInv, ResumableInv, Resumable
<1>6. Results(r)'
  <2>1. \A l \in Calls : Answered(r, l) => Answered(r, l)'
    BY DEF Answered
  <2>2. \A b \in Attempts, l \in Calls :
          task'[r][b][l] = "done" => Answered(r, l)'
    BY <2>1 DEF RunInv, Results, Answered
  <2>3. graph[r].issued \subseteq Calls
    BY DEF ChatTypeOK, StreamTypeOK
  <2>4. QED
    BY <1>2, <2>1, <2>2, <2>3 DEF RunInv, Results
<1>7. QED
  BY <1>1, <1>4, <1>5, <1>6 DEF RunInv

LEMMA TaskStepSame ==
  ASSUME ChatTypeOK, NEW r \in Runs, NEW a \in Attempts, NEW k \in Calls,
         TaskStep(r, a, k), UNCHANGED <<stream, graph, closing, abandoned>>
  PROVE  OthersSame(r)
  BY TaskEffect DEF OthersSame, Same, Open

-----------------------------------------------------------------------------
(* Conversations, deletions and the process *)

LEMMA NewConversationInv ==
  ASSUME ChatInv, NEW c \in Conversations, NewConversation(c)
  PROVE  ChatInv'
<1>1. ChatTypeOK'
  BY DEF NewConversation, ChatInv, ChatTypeOK, StoreTypeOK, TaskTypeOK,
         StreamTypeOK, ConversationStates
<1>2. \A q \in Runs : Same(q)
  BY DEF NewConversation, Same, Open, ChatInv, ChatTypeOK, StoreTypeOK
<1>3. \A q \in Runs : RunInv(q)'
  BY <1>2, Frame DEF ChatInv
<1>4. DeletionsSound'
  BY DEF NewConversation, ChatInv, DeletionsSound
<1>5. QED
  BY <1>1, <1>3, <1>4 DEF ChatInv

\* The steps of a deletion before its rows go.
LEMMA DeletionBeginsInv ==
  ASSUME ChatInv, NEW c \in Conversations,
         BeginDelete(c) \/ DropCheckpoints(c) \/ DropFails(c) \/ ReadRemaining(c)
  PROVE  ChatInv'
<1>1. /\ ChatTypeOK
      /\ deletion \in [Conversations -> Deletion]
  BY DEF ChatInv, ChatTypeOK
<1>2. /\ UNCHANGED <<conversations, runs, calls, approvals, effects, task, answer,
                     stream, graph, closing, abandoned, crashes>>
      /\ checkpoints' \subseteq checkpoints
      /\ \A q \in checkpoints \ checkpoints' : runs[q].state \in OverStates
  <2>1. CASE DropCheckpoints(c)
    BY <2>1 DEF DropCheckpoints, ChatInv, DeletionsSound
  <2>2. CASE BeginDelete(c) \/ DropFails(c) \/ ReadRemaining(c)
    BY <2>2 DEF BeginDelete, DropFails, ReadRemaining, chatRunVars, chatStoreVars
  <2>3. QED
    BY <2>1, <2>2
<1>3. \E row \in Deletion :
        /\ Deletes(c, row)
        /\ row.pc = "dropping" => \A r \in row.runs : runs[r].state \in OverStates
  <2>1. CASE BeginDelete(c)
    <3>1. \A r \in RunsOf(c) : runs[r].state \in OverStates
      <4>1. SUFFICES ASSUME NEW r \in RunsOf(c)
                     PROVE  runs[r].state \in OverStates
        OBVIOUS
      <4>2. r \in Runs /\ runs[r].conversation = c
        BY DEF RunsOf
      <4>3. runs[r].state # "none"
        BY <4>2, ChatStoreAssumption DEF ChatInv, RunInv, Control, RowSound
      <4>4. runs[r].state \notin ActiveRunStates
        BY <2>1 DEF BeginDelete, ConversationIdle
      <4>5. runs[r].state \in RunStates
        BY <4>2, <1>1 DEF ChatTypeOK, StoreTypeOK, RunRow
      <4>6. QED
        BY <4>3, <4>4, <4>5 DEF OverStates, RunStates
    <3>2. [NoDeletion EXCEPT !.pc = "dropping", !.runs = RunsOf(c)] \in Deletion
      BY DEF NoDeletion, Deletion, DeletionStates, RunsOf
    <3>3. [NoDeletion EXCEPT !.pc = "dropping", !.runs = RunsOf(c)].runs = RunsOf(c)
      BY DEF NoDeletion
    <3>4. QED
      BY <2>1, <3>1, <3>2, <3>3 DEF BeginDelete
  <2>2. CASE DropCheckpoints(c)
    <3>1. /\ [deletion[c] EXCEPT !.pc = "reading"] \in Deletion
          /\ [deletion[c] EXCEPT !.pc = "reading"].pc # "dropping"
      BY <1>1 DEF Deletion, DeletionStates
    <3>2. QED
      BY <2>2, <3>1 DEF DropCheckpoints
  <2>3. /\ NoDeletion \in Deletion
        /\ NoDeletion.pc # "dropping"
    BY DEF NoDeletion, Deletion, DeletionStates
  <2>4. CASE DropFails(c)
    BY <2>3, <2>4 DEF DropFails
  <2>5. CASE ReadRemaining(c)
    <3>1. \A last \in BOOLEAN :
            /\ [deletion[c] EXCEPT !.pc = "removing", !.last = last] \in Deletion
            /\ [deletion[c] EXCEPT !.pc = "removing", !.last = last].pc # "dropping"
      BY <1>1 DEF Deletion, DeletionStates
    <3>2. (\A d \in Conversations \ {c} : ~ Open(d)) \in BOOLEAN
      OBVIOUS
    <3>3. CASE Open(c)
      BY <2>5, <3>1, <3>2, <3>3 DEF ReadRemaining
    <3>4. CASE ~ Open(c)
      BY <2>3, <2>5, <3>4 DEF ReadRemaining
    <3>5. QED
      BY <3>3, <3>4
  <2>6. QED
    BY <2>1, <2>2, <2>4, <2>5
<1>4. ChatTypeOK'
  BY <1>1, <1>2, <1>3
     DEF Deletes, ChatTypeOK, StoreTypeOK, TaskTypeOK, StreamTypeOK
<1>5. \A q \in Runs : Same(q)
  BY <1>2 DEF Same, Open, OverStates, ActiveRunStates, TerminalRunStates
<1>6. \A q \in Runs : RunInv(q)'
  BY <1>5, Frame DEF ChatInv
<1>7. DeletionsSound'
  BY <1>1, <1>2, <1>3 DEF Deletes, ChatInv, DeletionsSound
<1>8. QED
  BY <1>4, <1>6, <1>7 DEF ChatInv

\* The rows of a conversation go: its runs are over, the others are not concerned.
LEMMA DeleteRowsInv ==
  ASSUME ChatInv, NEW c \in Conversations, DeleteRows(c)
  PROVE  ChatInv'
<1>1. /\ ChatTypeOK
      /\ runs' = CascadeRuns(c)
      /\ calls' = CascadeCalls(c)
      /\ Deletes(c, NoDeletion)
      /\ UNCHANGED <<checkpoints, approvals, effects, task, answer, stream, graph,
                     closing, abandoned, crashes>>
  BY DEF DeleteRows, ChatInv
<1>2. PICK replacement \in Conversations :
        conversations' = [d \in Conversations |->
            IF d = c THEN "gone"
            ELSE IF d = replacement THEN "open" ELSE conversations[d]]
  BY DEF DeleteRows
<1>3. \A q \in RunsOf(c) :
        /\ runs'[q].state = "gone"
        /\ runs'[q].conversation = NoConversation
  BY <1>1 DEF CascadeRuns, RunsOf
<1>4. \A q \in Runs \ RunsOf(c) : runs'[q] = runs[q] /\ calls'[q] = calls[q]
  BY <1>1 DEF CascadeRuns, CascadeCalls
<1>5. ChatTypeOK'
  <2>1. runs' \in [Runs -> RunRow]
    BY <1>1 DEF CascadeRuns, ChatTypeOK, StoreTypeOK, RunRow, RunStates
  <2>2. calls' \in [Runs -> [Calls -> CallStates]]
    BY <1>1 DEF CascadeCalls, ChatTypeOK, StoreTypeOK, CallStates
  <2>3. conversations' \in [Conversations -> ConversationStates]
    BY <1>1, <1>2 DEF ChatTypeOK, StoreTypeOK, ConversationStates
  <2>4. deletion' \in [Conversations -> Deletion]
    BY <1>1 DEF Deletes, ChatTypeOK, NoDeletion, Deletion, DeletionStates
  <2>5. QED
    BY <1>1, <2>1, <2>2, <2>3, <2>4
       DEF ChatTypeOK, StoreTypeOK, TaskTypeOK, StreamTypeOK
<1>6. \A q \in Runs \ RunsOf(c) : RunInv(q)'
  <2>1. SUFFICES ASSUME NEW q \in Runs \ RunsOf(c)
                 PROVE  RunInv(q)'
    OBVIOUS
  <2>2. runs[q].conversation # c
    BY DEF RunsOf
  <2>3. Same(q)
    BY <1>1, <1>2, <1>4, <2>2 DEF Same, Open
  <2>4. QED
    BY <2>3, Frame DEF ChatInv
<1>7. ASSUME NEW q \in RunsOf(c)
      PROVE  RunInv(q)'
  <2>1. q \in Runs /\ runs[q].conversation = c /\ RunInv(q)
    BY DEF RunsOf, ChatInv
  <2>2. runs[q].state \notin {"none", "gone"}
    BY <2>1, ChatStoreAssumption DEF RunInv, Control, RowSound
  <2>3. Control(q)'
    BY <1>1, <1>3, <2>1, <2>2
       DEF RunInv, Control, Unborn, RowSound, Starting, Admitted, Settling, Served,
           Checkpointed, Unpersisted, OverStates, ActiveRunStates
  <2>4. OneGuardedTask(q)'
    BY <1>1, <1>3, <2>1
       DEF RunInv, OneGuardedTask, Paused, Quiet, Interrupting, Unpersisted
  <2>5. ResumableInv(q)'
    BY <1>3 DEF ResumableInv, Asking, ActiveRunStates
  <2>6. Results(q)'
    BY <1>3 DEF Results, Answered
  <2>7. QED
    BY <2>3, <2>4, <2>5, <2>6 DEF RunInv
<1>8. DeletionsSound'
  <2>1. SUFFICES ASSUME NEW d \in Conversations, deletion'[d].pc = "dropping",
                        NEW r \in deletion'[d].runs
                 PROVE  runs'[r].state \in OverStates
    BY DEF DeletionsSound
  <2>2. d # c /\ deletion'[d] = deletion[d] /\ r \in Runs
    BY <1>1, <2>1 DEF Deletes, NoDeletion, ChatTypeOK, Deletion
  <2>3. runs[r].state \in OverStates
    BY <2>1, <2>2 DEF ChatInv, DeletionsSound
  <2>4. QED
    BY <1>3, <1>4, <2>2, <2>3 DEF OverStates
<1>9. QED
  BY <1>5, <1>6, <1>7, <1>8 DEF ChatInv, RunsOf

LEMMA CrashInv ==
  ASSUME ChatInv, Crash
  PROVE  ChatInv'
<1>1. /\ ChatTypeOK
      /\ stream' = [r \in Runs |-> [stream[r] EXCEPT !.pc = "none"]]
      /\ closing' = [r \in Runs |-> "no"]
      /\ task' = [r \in Runs |-> [a \in Attempts |-> [k \in Calls |-> "idle"]]]
      /\ deletion' = [c \in Conversations |-> NoDeletion]
      /\ abandoned' = abandoned \cup {r \in Runs : runs[r].state = "running"}
      /\ UNCHANGED <<chatStoreVars, answer, graph>>
  BY DEF Crash, ChatInv
<1>2. ChatTypeOK'
  <2>1. stream' \in [Runs -> Stream] /\ closing' \in [Runs -> ClosingStates]
    <3>1. "none" \in StreamStates /\ "no" \in ClosingStates
      BY DEF StreamStates, ClosingStates
    <3> PICK s : s = [r \in Runs |-> [stream[r] EXCEPT !.pc = "none"]]
      OBVIOUS
    <3>2. s \in [Runs -> Stream]
      <4>1. ASSUME NEW t \in Stream
            PROVE  [t EXCEPT !.pc = "none"] \in Stream
        BY <3>1 DEF Stream
      <4>2. \A r \in Runs : stream[r] \in Stream
        BY <1>1 DEF ChatTypeOK, StreamTypeOK
      <4>3. QED
        BY <4>1, <4>2
    <3>3. stream' = s
      BY <1>1, Zenon
    <3>4. closing' \in [Runs -> ClosingStates]
      BY <1>1, <3>1
    <3>5. QED
      BY <3>2, <3>3, <3>4
  <2>2. task' \in [Runs -> [Attempts -> [Calls -> TaskStates]]]
    BY <1>1 DEF TaskStates
  <2>3. deletion' \in [Conversations -> Deletion]
    BY <1>1 DEF NoDeletion, Deletion, DeletionStates
  <2>4. crashes' \in 0..MaxCrashes
    BY <1>1, CrashAssumption DEF Crash, ChatTypeOK
  <2>5. QED
    BY <1>1, <2>1, <2>2, <2>3, <2>4
       DEF ChatTypeOK, StoreTypeOK, TaskTypeOK, StreamTypeOK, chatStoreVars
<1>3. ASSUME NEW r \in Runs
      PROVE  RunInv(r)'
  <2>1. /\ stream'[r].pc = "none"
        /\ closing'[r] = "no"
        /\ stream'[r].attempt = stream[r].attempt
        /\ RunInv(r)
    BY <1>1 DEF ChatInv, ChatTypeOK, StreamTypeOK, Stream
  <2>2. Control(r)'
    BY <1>1, <2>1
       DEF RunInv, Control, Unborn, RowSound, Starting, Admitted, Settling, Served,
           Checkpointed, Unpersisted, chatStoreVars
  <2>3. OneGuardedTask(r)'
    BY <1>1, <2>1, ChatStoreAssumption
       DEF RunInv, OneGuardedTask, Quiet, LiveTasks, chatStoreVars
  <2>4. ResumableInv(r)'
    BY <1>1, <2>1
       DEF RunInv, ResumableInv, Asking, Resumable, Interrupting, Unpersisted,
           chatStoreVars
  <2>5. Results(r)'
    BY <1>1, <2>1
       DEF RunInv, Results, BetweenPasses, Answered, Unpersisted, chatStoreVars
  <2>6. QED
    BY <2>2, <2>3, <2>4, <2>5 DEF RunInv
<1>4. DeletionsSound'
  BY <1>1 DEF DeletionsSound, NoDeletion
<1>5. QED
  BY <1>2, <1>3, <1>4 DEF ChatInv

-----------------------------------------------------------------------------
(* Every step *)

\* A run that is over stays over.
LEMMA SettledStaysOver ==
  ASSUME ChatTypeOK, NEW r \in Runs, RunInv(r), At(r, "writing"), SettleHolds(r),
         SetRunState(r, stream[r].outcome), runs[r].state \in OverStates
  PROVE  runs'[r].state \in OverStates
<1>1. stream[r].outcome \in {"completed", "interrupted", "failed"}
  BY DEF At, RunInv, Control, Settling, Unpersisted, ChatTypeOK, StreamTypeOK,
         Stream, Outcomes
<1>2. runs'[r].state = stream[r].outcome
  BY <1>1, SetRunStateEffect
     DEF ChatTypeOK, RunStates, ActiveRunStates, TerminalRunStates
<1>3. stream[r].outcome # "interrupted"
  BY DEF SettleHolds, InterruptHolds, OverStates, ActiveRunStates,
         TerminalRunStates
<1>4. QED
  BY <1>1, <1>2, <1>3 DEF OverStates, TerminalRunStates

LEMMA RunStaysOver ==
  ASSUME ChatTypeOK, NEW r \in Runs, RunInv(r), RunStep(r),
         runs[r].state \in OverStates
  PROVE  runs'[r].state \in OverStates
<1>1. CASE UNCHANGED runs
  BY <1>1
<1>2. CASE CreateTurn(r)
  BY <1>2 DEF CreateTurn, At, RunInv, Control, Starting, OverStates,
              TerminalRunStates
<1>3. CASE SettleWrite(r) \/ SettleCutOff(r)
  <2>1. CASE SettleHolds(r)
    BY <1>3, <2>1, SettledStaysOver DEF SettleWrite, SettleCutOff
  <2>2. CASE ~ SettleHolds(r)
    BY <1>3, <2>2 DEF SettleWrite, SettleCutOff
  <2>3. QED
    BY <2>1, <2>2
<1>4. CASE FinalizeWrite(r)
  <2>1. CASE FailHolds(r)
    BY <1>4, <2>1, SetRunStateEffect
       DEF FinalizeWrite, ChatTypeOK, RunStates, OverStates, TerminalRunStates
  <2>2. CASE ~ FailHolds(r)
    BY <1>4, <2>2 DEF FinalizeWrite
  <2>3. QED
    BY <2>1, <2>2
<1>5. ASSUME NEW action \in {"accept", "decline"}, Resume(r, action)
      PROVE  runs'[r].state \in OverStates
  BY <1>5 DEF Resume, OverStates, TerminalRunStates
<1>6. QED
  BY <1>1, <1>2, <1>3, <1>4, <1>5
     DEF RunStep, RunProgress, FinalizerProgress, chatStoreVars, RefuseTurn,
         LoadContext, OpenGraph, OpenFails, Reply, DecisionRaises, AskTools,
         ToolsReturn, ToolsRaise, SettleRead, Clean, FinalizeRead, Sweep,
         Disconnect, DisconnectSettled, SettleBusy, FinalizeBusy, BeginTurn

LEMMA ChatInvInit == Init => ChatInv
<1> SUFFICES ASSUME Init
             PROVE  ChatInv
  OBVIOUS
<1>1. ChatTypeOK
  BY TypeInit
<1>2. ASSUME NEW r \in Runs
      PROVE  RunInv(r)
  <2>1. /\ runs[r].state = "none"
        /\ runs[r].conversation = NoConversation
        /\ stream[r].pc = "none"
        /\ closing[r] = "no"
        /\ answer[r] = "none"
        /\ graph[r].issued = {}
        /\ graph[r].batch = {}
    BY DEF Init, StoreInit, TaskInit, StreamInit
  <2>2. \A a \in Attempts, k \in Calls : task[r][a][k] = "idle"
    BY DEF Init, TaskInit
  <2>3. Control(r)
    BY <2>1 DEF Control, Unborn, RowSound, Starting, Admitted, Settling, Served,
               Checkpointed, Unpersisted
  <2>4. OneGuardedTask(r)
    BY <2>1, <2>2, ChatStoreAssumption DEF OneGuardedTask, Quiet, LiveTasks
  <2>5. ResumableInv(r)
    BY <2>1 DEF ResumableInv, Asking, Interrupting, Unpersisted
  <2>6. Results(r)
    BY <2>1, <2>2 DEF Results
  <2>7. QED
    BY <2>3, <2>4, <2>5, <2>6 DEF RunInv
<1>3. DeletionsSound
  BY DEF Init, DeletionsSound, NoDeletion
<1>4. QED
  BY <1>1, <1>2, <1>3 DEF ChatInv

LEMMA ChatInvStep ==
  ASSUME ChatInv, [Next]_vars
  PROVE  ChatInv'
<1> USE DEF ChatInv
<1>1. ASSUME NEW r \in Runs, RunStep(r), UNCHANGED <<deletion, crashes>>
      PROVE  ChatInv'
  <2>1. RowsTypeOK' /\ OthersSame(r)
    BY <1>1, RunFrame
  <2>2. ChatTypeOK'
    BY <1>1, <2>1 DEF RowsTypeOK, ChatTypeOK
  <2>3. \A q \in Runs : RunInv(q)'
    <3>1. RunInv(r)'
      BY <1>1, RunStepInv
    <3>2. ASSUME NEW q \in Runs \ {r}
          PROVE  RunInv(q)'
      BY <2>1, Frame DEF OthersSame
    <3>3. QED
      BY <3>1, <3>2
  <2>4. DeletionsSound'
    <3>1. ASSUME NEW q \in Runs, runs[q].state \in OverStates
          PROVE  runs'[q].state \in OverStates
      <4>1. CASE q = r
        BY <1>1, <3>1, <4>1, RunStaysOver
      <4>2. CASE q # r
        BY <2>1, <3>1, <4>2 DEF OthersSame, Same
      <4>3. QED
        BY <4>1, <4>2
    <3>2. \A c \in Conversations : deletion[c].runs \subseteq Runs
      BY DEF ChatTypeOK, Deletion
    <3>3. QED
      BY <1>1, <3>1, <3>2 DEF DeletionsSound
  <2>5. QED
    BY <2>2, <2>3, <2>4
<1>2. ASSUME NEW r \in Runs, NEW a \in Attempts, NEW k \in Calls, TaskStep(r, a, k),
             UNCHANGED <<stream, graph, closing, abandoned, deletion, crashes>>
      PROVE  ChatInv'
  <2>1. ChatTypeOK'
    BY <1>2, TaskType DEF ChatTypeOK, StreamTypeOK
  <2>2. \A q \in Runs : RunInv(q)'
    <3>1. RunInv(r)'
      BY <1>2, TaskStepInv
    <3>2. ASSUME NEW q \in Runs \ {r}
          PROVE  RunInv(q)'
      BY <1>2, TaskStepSame, Frame DEF OthersSame
    <3>3. QED
      BY <3>1, <3>2
  <2>3. DeletionsSound'
    BY <1>2, TaskEffect DEF DeletionsSound
  <2>4. QED
    BY <2>1, <2>2, <2>3
<1>3. ASSUME NEW c \in Conversations, NewConversation(c)
      PROVE  ChatInv'
  BY <1>3, NewConversationInv
<1>4. ASSUME NEW c \in Conversations, DeletionStep(c)
      PROVE  ChatInv'
  BY <1>4, DeletionBeginsInv, DeleteRowsInv DEF DeletionStep
<1>5. CASE Crash
  BY <1>5, CrashInv
<1>6. CASE UNCHANGED vars
  <2>1. UNCHANGED <<conversations, runs, calls, checkpoints, approvals, effects,
                    task, answer, stream, graph, closing, abandoned, deletion,
                    crashes>>
    BY <1>6 DEF vars, chatRunVars, chatStoreVars
  <2>2. ChatTypeOK'
    BY <2>1 DEF ChatTypeOK, StoreTypeOK, TaskTypeOK, StreamTypeOK
  <2>3. \A q \in Runs : RunInv(q)'
    BY <2>1, Frame DEF Same, Open
  <2>4. DeletionsSound'
    BY <2>1 DEF DeletionsSound
  <2>5. QED
    BY <2>2, <2>3, <2>4
<1>7. QED
  BY <1>1, <1>2, <1>3, <1>4, <1>5, <1>6 DEF Next

LEMMA ChatInvCorrect == Spec => []ChatInv
<1>1. Init => ChatInv
  BY ChatInvInit
<1>2. ChatInv /\ [Next]_vars => ChatInv'
  BY ChatInvStep
<1>3. QED
  BY <1>1, <1>2, PTL DEF Spec

-----------------------------------------------------------------------------
(* What it implies *)

\* Rows, tasks and requests keep their types; above all no step counts the
\* entries into a tools node past its bound or settles a run without an outcome.
THEOREM ChatTypeCorrect == Spec => []ChatTypeOK
<1>1. ChatInv => ChatTypeOK
  BY DEF ChatInv
<1>2. QED
  BY <1>1, ChatInvCorrect, PTL

\* A running run always has somebody who will settle it, unless a crash or a
\* locked database abandoned it (runner.py, finally of stream_agent_run).
THEOREM RunsAreServed == Spec => []RunningIsServed
<1>1. ChatInv => RunningIsServed
  BY DEF ChatInv, RunInv, Control, Served, RunningIsServed
<1>2. QED
  BY <1>1, ChatInvCorrect, PTL

\* An interrupted run can be resumed: its checkpoint, the pass and the open row
\* of the guarded call are there (claim_resume, allow_running_reentry).
THEOREM InterruptedRunsResume == Spec => []InterruptedResumable
<1>1. ChatInv => InterruptedResumable
  BY DEF ChatInv, RunInv, ResumableInv, Asking, Resumable, InterruptedResumable
<1>2. QED
  BY <1>1, ChatInvCorrect, PTL

\* A completed run left no tool execution open, tasks of an earlier entry into
\* its tools node notwithstanding (execute_tool under asyncio.gather).
THEOREM CompletedRunsAnswered == Spec => []CompletedRunHasResults
<1>1. ChatInv => CompletedRunHasResults
  BY DEF ChatInv, RunInv, Results, BetweenPasses, Answered, CompletedRunHasResults
<1>2. QED
  BY <1>1, ChatInvCorrect, PTL

\* Only the checkpoint of a run that is over is deleted, by the clean-up of its
\* request, by its finalizer and by the deletion of its conversation alike.
THEOREM CheckpointsOutliveRuns == Spec => CheckpointOutlivesRun
<1> DEFINE Outlives == \A r \in checkpoints \ checkpoints' :
                          runs[r].state \notin ActiveRunStates
<1>1. ChatInv /\ [Next]_vars => [Outlives]_vars
  <2> SUFFICES ASSUME ChatInv, Next
               PROVE  Outlives
    OBVIOUS
  <2>1. OverStates \cap ActiveRunStates = {}
    BY DEF OverStates, ActiveRunStates, TerminalRunStates
  <2>2. CASE checkpoints \subseteq checkpoints'
    BY <2>2
  <2>3. ASSUME NEW r \in Runs, Clean(r) \/ Sweep(r)
        PROVE  Outlives
    BY <2>1, <2>3 DEF Clean, Sweep, At, ChatInv, RunInv, Control, Settling
  <2>4. ASSUME NEW c \in Conversations, DropCheckpoints(c)
        PROVE  Outlives
    BY <2>1, <2>4 DEF DropCheckpoints, ChatInv, DeletionsSound
  <2>5. ASSUME NEW r \in Runs, RunStep(r), ~ Clean(r), ~ Sweep(r)
        PROVE  checkpoints \subseteq checkpoints'
    BY <2>5
       DEF RunStep, RunProgress, FinalizerProgress, chatStoreVars, CreateTurn,
           RefuseTurn, LoadContext, OpenGraph, OpenFails, Reply, DecisionRaises,
           AskTools, ToolsReturn, ToolsRaise, SettleRead, SettleWrite, FinalizeRead,
           FinalizeWrite, Disconnect, DisconnectSettled, SettleCutOff, SettleBusy,
           FinalizeBusy, BeginTurn, Resume
  <2>6. ASSUME NEW r \in Runs, NEW a \in Attempts, NEW k \in Calls, TaskStep(r, a, k)
        PROVE  checkpoints \subseteq checkpoints'
    BY <2>6, TaskEffect DEF ChatInv
  <2>7. ASSUME NEW c \in Conversations,
               NewConversation(c) \/ DeletionStep(c), ~ DropCheckpoints(c)
        PROVE  checkpoints \subseteq checkpoints'
    BY <2>7 DEF NewConversation, DeletionStep, BeginDelete, DropFails,
                ReadRemaining, DeleteRows, chatRunVars, chatStoreVars
  <2>8. CASE Crash
    BY <2>8, <2>2 DEF Crash, chatStoreVars
  <2>9. QED
    BY <2>2, <2>3, <2>4, <2>5, <2>6, <2>7, <2>8 DEF Next
<1>2. QED
  BY <1>1, ChatInvCorrect, PTL DEF Spec, CheckpointOutlivesRun

-----------------------------------------------------------------------------
(***************************************************************************)
(* The side effect of a guarded call happens at most once and only after   *)
(* it was accepted, for every value of the constants.  On top of ChatInv   *)
(* it takes one more invariant: as long as a call can still be invoked,    *)
(* now or after another entry into the tools node, it has had no effect.   *)
(***************************************************************************)

\* The states of a task from which its call can still be invoked.
FreshTasks == {"start", "pending", "claiming", "invoking", "interrupting"}

\* The run will enter the tools node, or ask to, with the batch it has.
Entering(r) == Asking(r) \/ stream[r].pc \in {"creating", "loading", "opening"}

Unspent(r) == \A k \in graph[r].batch \cap Guarded : effects[r][k] = 0

EffectInv(r) ==
    /\ \A k \in Guarded : effects[r][k] \in {0, 1}
    /\ \A k \in Guarded : effects[r][k] = 1 =>
         k \in graph[r].issued /\ approvals[r][k] >= 1
    /\ \A a \in Attempts, k \in Guarded :
         task[r][a][k] \in FreshTasks => effects[r][k] = 0
    /\ Entering(r) => Unspent(r)
    /\ answer[r] = "accept" =>
         \A k \in graph[r].batch \cap Guarded : approvals[r][k] >= 1

EffectsInv == \A r \in Runs : EffectInv(r)

-----------------------------------------------------------------------------
(* Steps without an effect *)

\* Another run's step.
LEMMA EffectFrame ==
  ASSUME NEW q \in Runs, EffectInv(q), Same(q),
         effects'[q] = effects[q], approvals'[q] = approvals[q]
  PROVE  EffectInv(q)'
  BY DEF EffectInv, Same, Entering, Unspent, Asking, Interrupting, Unpersisted

\* A step that starts no pass and answers nothing.
LEMMA EffectKept ==
  ASSUME NEW r \in Runs, EffectInv(r),
         UNCHANGED <<effects, approvals, answer>>,
         graph'[r].issued = graph[r].issued,
         graph'[r].batch = graph[r].batch,
         \A a \in Attempts, k \in Calls :
            task'[r][a][k] \in {task[r][a][k], "idle"},
         Entering(r)' => Entering(r) \/ Unspent(r)
  PROVE  EffectInv(r)'
<1>1. \A a \in Attempts, k \in Guarded :
        task'[r][a][k] \in FreshTasks => effects'[r][k] = 0
  BY ChatStoreAssumption DEF EffectInv, FreshTasks
<1>2. Entering(r)' => Unspent(r)'
  BY DEF EffectInv, Unspent
<1>3. QED
  BY <1>1, <1>2 DEF EffectInv

\* A pass that starts with calls that have had no effect.
LEMMA EffectPass ==
  ASSUME ChatTypeOK, NEW r \in Runs, RunInv(r), EffectInv(r),
         NEW batch \in SUBSET Calls,
         stream[r].attempt < MaxAttempts, Enters(r, batch),
         stream[r].pc \in {"opening", "deciding"},
         \A k \in batch \cap Guarded : effects[r][k] = 0,
         graph'[r].batch = batch,
         graph'[r].issued = graph[r].issued \cup batch,
         answer'[r] = "accept" => batch = graph[r].batch /\ UNCHANGED answer,
         UNCHANGED <<runs, effects, approvals>>
  PROVE  EffectInv(r)'
<1>1. /\ stream'[r].pc = "tools"
      /\ \A a \in Attempts, k \in Calls :
           \/ a = stream'[r].attempt /\ k \in batch /\ task'[r][a][k] = "start"
           \/ task'[r][a][k] = task[r][a][k] /\ task[r][a][k] \in LiveTasks
           \/ task'[r][a][k] = "idle"
  BY PassEffect
<1>2. \A a \in Attempts, k \in Guarded :
        task'[r][a][k] \in FreshTasks => effects'[r][k] = 0
  BY <1>1, ChatStoreAssumption DEF EffectInv, FreshTasks
<1>3. ~ Entering(r)'
  BY <1>1 DEF Entering, Asking, Interrupting, Unpersisted, RunInv, Control, Settling
<1>4. \A k \in Guarded : effects'[r][k] = 1 =>
        k \in graph'[r].issued /\ approvals'[r][k] >= 1
  BY DEF EffectInv
<1>5. answer'[r] = "accept" =>
        \A k \in graph'[r].batch \cap Guarded : approvals'[r][k] >= 1
  BY DEF EffectInv
<1>6. QED
  BY <1>2, <1>3, <1>4, <1>5 DEF EffectInv

\* The request asks for approval: its call is still open.
LEMMA EffectAsked ==
  ASSUME ChatTypeOK, NEW r \in Runs, RunInv(r), EffectInv(r),
         At(r, "tools"), InBatch(r, "interrupting")
  PROVE  Unspent(r)
<1>1. stream[r].attempt \in Attempts /\ graph[r].batch \subseteq Calls
  BY DEF At, RunInv, Control, Admitted, ChatTypeOK, StreamTypeOK
<1>2. PICK k \in graph[r].batch : task[r][stream[r].attempt][k] = "interrupting"
  BY DEF InBatch
<1>3. k \in Guarded
  BY <1>1, <1>2 DEF RunInv, OneGuardedTask
<1>4. effects[r][k] = 0
  BY <1>1, <1>2, <1>3 DEF EffectInv, FreshTasks
<1>5. QED
  BY <1>2, <1>3, <1>4 DEF Unspent, RunInv, OneGuardedTask

\* The steps of a request that change neither its pass nor its answer.
LEMMA EffectClose ==
  ASSUME ChatTypeOK, NEW r \in Runs, EffectInv(r), Close(r),
         UNCHANGED <<chatStoreVars, answer, graph>>,
         \A a \in Attempts, k \in Calls :
            task'[r][a][k] \in {task[r][a][k], "idle"}
  PROVE  EffectInv(r)'
<1>1. stream'[r].pc = "none"
  BY CloseEffect DEF ChatTypeOK
<1>2. Entering(r)' => Entering(r)
  BY <1>1 DEF Entering, Asking, Interrupting, Unpersisted, chatStoreVars
<1>3. QED
  BY <1>2, EffectKept DEF chatStoreVars

LEMMA EffectGoto ==
  ASSUME ChatTypeOK, NEW r \in Runs, EffectInv(r), NEW pc \in StreamStates,
         Goto(r, pc), UNCHANGED <<runs, effects, approvals, task, answer, graph>>,
         \/ pc = "none"
         \/ pc = "opening" /\ At(r, "loading")
         \/ pc = "writing" /\ At(r, "settling")
         \/ pc \in {"deciding", "cleaning"}
  PROVE  EffectInv(r)'
<1>1. stream'[r].pc = pc /\ stream'[r].outcome = stream[r].outcome
  BY GotoEffect DEF ChatTypeOK
<1>2. Entering(r)' => Entering(r)
  BY <1>1 DEF Entering, Asking, Interrupting, Unpersisted, At
<1>3. QED
  BY <1>2, EffectKept

LEMMA EffectEnds ==
  ASSUME ChatTypeOK, NEW r \in Runs, EffectInv(r), NEW outcome \in Outcomes,
         Ends(r, outcome), outcome = "interrupted" => Unspent(r),
         UNCHANGED <<chatStoreVars, task, answer, graph>>
  PROVE  EffectInv(r)'
<1>1. stream'[r].pc = "settling" /\ stream'[r].outcome = outcome
  BY EndsEffect DEF ChatTypeOK
<1>2. Entering(r)' => Entering(r) \/ Unspent(r)
  BY <1>1 DEF Entering, Asking, Interrupting, Unpersisted, chatStoreVars
<1>3. QED
  BY <1>2, EffectKept DEF chatStoreVars

LEMMA EffectSettled ==
  ASSUME ChatTypeOK, NEW r \in Runs, RunInv(r), EffectInv(r), At(r, "writing"),
         SettleHolds(r), SetRunState(r, stream[r].outcome),
         stream'[r].pc \in {"none", "cleaning"},
         UNCHANGED <<effects, approvals, task, answer, graph>>
  PROVE  EffectInv(r)'
<1>1. stream[r].outcome \in {"completed", "interrupted", "failed"}
  BY DEF At, RunInv, Control, Settling, Unpersisted, ChatTypeOK, StreamTypeOK,
         Stream, Outcomes
<1>2. runs'[r].state = stream[r].outcome
  BY <1>1, SetRunStateEffect
     DEF ChatTypeOK, RunStates, ActiveRunStates, TerminalRunStates
<1>3. stream[r].outcome = "interrupted" => runs[r].state \in ActiveRunStates
  BY DEF SettleHolds, InterruptHolds
<1>4. Entering(r)' => Entering(r)
  BY <1>2, <1>3 DEF At, Entering, Asking, Interrupting, Unpersisted
<1>5. QED
  BY <1>4, EffectKept

LEMMA EffectSettleWrite ==
  ASSUME ChatTypeOK, NEW r \in Runs, RunInv(r), EffectInv(r),
         SettleWrite(r) \/ SettleCutOff(r)
  PROVE  EffectInv(r)'
<1>1. At(r, "writing") /\ UNCHANGED <<effects, approvals, task, answer, graph>>
  BY DEF SettleWrite, SettleCutOff
<1>2. CASE SettleHolds(r)
  <2>1. SetRunState(r, stream[r].outcome)
    BY <1>2 DEF SettleWrite, SettleCutOff
  <2>2. stream'[r].pc \in {"none", "cleaning"}
    <3>1. CASE Close(r)
      BY <3>1, CloseEffect DEF ChatTypeOK
    <3>2. CASE Goto(r, AfterSettling(stream[r].outcome))
      BY <3>2, GotoEffect DEF AfterSettling, ChatTypeOK, StreamStates
    <3>3. QED
      BY <1>2, <3>1, <3>2 DEF SettleWrite, SettleCutOff
  <2>3. QED
    BY <1>1, <1>2, <2>1, <2>2, EffectSettled
<1>3. CASE ~ SettleHolds(r)
  BY <1>3, EffectClose DEF SettleWrite, SettleCutOff, chatStoreVars
<1>4. QED
  BY <1>2, <1>3

LEMMA EffectOpenGraph ==
  ASSUME ChatTypeOK, NEW r \in Runs, RunInv(r), EffectInv(r), OpenGraph(r)
  PROVE  EffectInv(r)'
<1>1. /\ stream[r].pc = "opening"
      /\ UNCHANGED <<conversations, runs, calls, approvals, effects, answer, graph>>
  BY DEF OpenGraph, At
<1>2. CASE answer[r] = "none"
  BY <1>1, <1>2, EffectGoto DEF OpenGraph, StreamStates, BusyStreams
<1>3. CASE answer[r] # "none" /\ r \in checkpoints
  <2>1. Enters(r, graph[r].batch)
    BY <1>3 DEF OpenGraph, Enters
  <2>2. /\ graph[r].batch \in SUBSET Calls
        /\ stream[r].attempt < MaxAttempts
        /\ graph[r].issued = graph[r].issued \cup graph[r].batch
    BY <1>1, <1>3 DEF RunInv, Control, Admitted, Checkpointed, ChatTypeOK,
                      StreamTypeOK
  <2>3. \A k \in graph[r].batch \cap Guarded : effects[r][k] = 0
    BY <1>1 DEF EffectInv, Entering, Unspent
  <2>4. graph'[r].batch = graph[r].batch
        /\ graph'[r].issued = graph[r].issued \cup graph[r].batch
    BY <1>1, <2>2
  <2>5. QED
    BY <1>1, <2>1, <2>2, <2>3, <2>4, EffectPass
<1>4. CASE answer[r] # "none" /\ r \notin checkpoints
  BY <1>1, <1>4, EffectEnds DEF OpenGraph, Outcomes, chatStoreVars
<1>5. QED
  BY <1>2, <1>3, <1>4

LEMMA EffectAskTools ==
  ASSUME ChatTypeOK, NEW r \in Runs, RunInv(r), EffectInv(r),
         NEW batch \in SUBSET (CallsOf[r] \ graph[r].issued), AskTools(r, batch)
  PROVE  EffectInv(r)'
<1>1. CASE graph[r].passes < LoopLimit
  <2>1. /\ batch \in SUBSET Calls
        /\ stream[r].attempt < MaxAttempts
        /\ stream[r].pc = "deciding"
    BY <1>1, ChatRunAssumption DEF AskTools, At
  <2>2. /\ Enters(r, batch)
        /\ UNCHANGED <<runs, effects, approvals>>
    BY <1>1 DEF AskTools, Enters, chatStoreVars
  <2>3. /\ graph'[r].batch = batch
        /\ graph'[r].issued = graph[r].issued \cup batch
        /\ answer'[r] = "none"
    BY <1>1 DEF AskTools, AnswerUsedUp, ChatTypeOK, TaskTypeOK, StreamTypeOK
  <2>4. \A k \in batch \cap Guarded : effects[r][k] = 0
    BY DEF EffectInv
  <2>5. QED
    BY <2>1, <2>2, <2>3, <2>4, EffectPass
<1>2. CASE ~ graph[r].passes < LoopLimit
  BY <1>2, EffectEnds DEF AskTools, Outcomes
<1>3. QED
  BY <1>1, <1>2

LEMMA EffectFinalizer ==
  ASSUME ChatTypeOK, NEW r \in Runs, RunInv(r), EffectInv(r),
         FinalizerProgress(r) \/ FinalizeBusy(r)
  PROVE  EffectInv(r)'
<1>1. UNCHANGED <<effects, approvals, task, answer, stream, graph>>
  BY DEF FinalizerProgress, FinalizeRead, FinalizeWrite, Sweep, FinalizeBusy,
         chatStoreVars
<1>2. runs'[r].state \in {runs[r].state, "failed"}
  BY SetRunStateEffect
     DEF FinalizerProgress, FinalizeRead, FinalizeWrite, Sweep, FinalizeBusy,
         chatStoreVars, ChatTypeOK, RunStates, TerminalRunStates
<1>3. Entering(r)' => Entering(r)
  BY <1>1, <1>2 DEF Entering, Asking, Interrupting, Unpersisted, ActiveRunStates
<1>4. QED
  BY <1>1, <1>3, EffectKept

LEMMA EffectBeginTurn ==
  ASSUME ChatTypeOK, NEW r \in Runs, RunInv(r), EffectInv(r),
         NEW c \in Conversations, BeginTurn(r, c)
  PROVE  EffectInv(r)'
<1>1. graph[r].issued = {} /\ graph[r].batch \subseteq graph[r].issued
  BY DEF BeginTurn, RunInv, Control, Unborn, Checkpointed
<1>2. Unspent(r)
  BY <1>1 DEF Unspent
<1>3. QED
  BY <1>2, EffectKept DEF BeginTurn, chatStoreVars

LEMMA EffectResume ==
  ASSUME ChatTypeOK, NEW r \in Runs, RunInv(r), EffectInv(r),
         NEW action \in {"accept", "decline"}, Resume(r, action)
  PROVE  EffectInv(r)'
<1>1. /\ UNCHANGED <<effects, task, graph>>
      /\ answer'[r] = action
  BY DEF Resume, ChatTypeOK, TaskTypeOK
<1>2. Unspent(r)'
  BY <1>1 DEF Resume, EffectInv, Entering, Asking, Unspent
<1>3. \A k \in Guarded :
        /\ approvals[r][k] \in Nat /\ approvals'[r][k] \in Nat
        /\ approvals'[r][k] >= approvals[r][k]
        /\ action = "accept" /\ k \in graph[r].batch => approvals'[r][k] >= 1
  BY DEF Resume, ChatTypeOK, StoreTypeOK
<1>4. \A k \in Guarded : effects'[r][k] = 1 =>
        k \in graph'[r].issued /\ approvals'[r][k] >= 1
  BY <1>1, <1>3 DEF EffectInv, ChatTypeOK, StoreTypeOK
<1>5. QED
  BY <1>1, <1>2, <1>3, <1>4 DEF EffectInv

LEMMA EffectRunStep ==
  ASSUME ChatTypeOK, NEW r \in Runs, RunInv(r), EffectInv(r), RunStep(r)
  PROVE  EffectInv(r)'
<1>1. CASE RunProgress(r)
  <2> USE DEF Outcomes, StreamStates, BusyStreams, chatStoreVars
  <2>1. CASE CreateTurn(r)
    <3>1. /\ stream[r].pc = "creating"
          /\ UNCHANGED <<effects, approvals, task, answer, graph>>
      BY <2>1 DEF CreateTurn, At
    <3>2. QED
      BY <3>1, EffectKept DEF Entering
  <2>2. CASE RefuseTurn(r)     BY <2>2, EffectGoto DEF RefuseTurn
  <2>3. CASE LoadContext(r)    BY <2>3, EffectGoto DEF LoadContext
  <2>4. CASE OpenGraph(r)      BY <2>4, EffectOpenGraph
  <2>5. CASE OpenFails(r)      BY <2>5, EffectClose DEF OpenFails
  <2>6. CASE Reply(r)          BY <2>6, EffectEnds DEF Reply
  <2>7. CASE DecisionRaises(r) BY <2>7, EffectEnds DEF DecisionRaises
  <2>8. ASSUME NEW batch \in SUBSET (CallsOf[r] \ graph[r].issued),
               AskTools(r, batch)
        PROVE  EffectInv(r)'
    BY <2>8, EffectAskTools
  <2>9. CASE ToolsReturn(r)
    <3>1. /\ stream'[r].pc = "deciding"
          /\ UNCHANGED <<runs, effects, approvals, task, answer>>
          /\ graph'[r].issued = graph[r].issued
          /\ graph'[r].batch = graph[r].batch
      BY <2>9, GotoEffect DEF ToolsReturn, ChatTypeOK, StreamTypeOK
    <3>2. Entering(r)' => Entering(r)
      BY <3>1 DEF Entering, Asking, Interrupting, Unpersisted
    <3>3. QED
      BY <3>1, <3>2, EffectKept
  <2>10. CASE ToolsRaise(r)
    BY <2>10, EffectEnds, EffectAsked DEF ToolsRaise
  <2>11. CASE SettleRead(r)    BY <2>11, EffectGoto, EffectClose DEF SettleRead
  <2>12. CASE SettleWrite(r)   BY <2>12, EffectSettleWrite
  <2>13. CASE Clean(r)         BY <2>13, EffectGoto DEF Clean
  <2>14. QED
    BY <1>1, <2>1, <2>2, <2>3, <2>4, <2>5, <2>6, <2>7, <2>8, <2>9, <2>10, <2>11,
       <2>12, <2>13 DEF RunProgress
<1>2. CASE FinalizerProgress(r) \/ FinalizeBusy(r)
  BY <1>2, EffectFinalizer
<1>3. CASE Disconnect(r)
  <2>1. Close(r) /\ UNCHANGED <<chatStoreVars, answer, graph>>
    BY <1>3 DEF Disconnect
  <2>2. \A a \in Attempts, k \in Calls : task'[r][a][k] \in {task[r][a][k], "idle"}
    BY <1>3 DEF Disconnect, TasksCancelled, ChatTypeOK, TaskTypeOK
  <2>3. QED
    BY <2>1, <2>2, EffectClose
<1>4. CASE DisconnectSettled(r)
  BY <1>4, EffectGoto DEF DisconnectSettled, StreamStates, chatStoreVars
<1>5. CASE SettleCutOff(r)
  BY <1>5, EffectSettleWrite
<1>6. CASE SettleBusy(r)
  BY <1>6, EffectClose DEF SettleBusy
<1>7. ASSUME NEW c \in Conversations, BeginTurn(r, c)
      PROVE  EffectInv(r)'
  BY <1>7, EffectBeginTurn
<1>8. ASSUME NEW action \in {"accept", "decline"}, Resume(r, action)
      PROVE  EffectInv(r)'
  BY <1>8, EffectResume
<1>9. QED
  BY <1>1, <1>2, <1>3, <1>4, <1>5, <1>6, <1>7, <1>8 DEF RunStep

\* The histories of other runs.
LEMMA EffectRunStepOthers ==
  ASSUME ChatTypeOK, NEW r \in Runs, RunStep(r), NEW q \in Runs \ {r}
  PROVE  effects'[q] = effects[q] /\ approvals'[q] = approvals[q]
<1>1. CASE UNCHANGED <<effects, approvals>>
  BY <1>1
<1>2. ASSUME NEW action \in {"accept", "decline"}, Resume(r, action)
      PROVE  effects'[q] = effects[q] /\ approvals'[q] = approvals[q]
  BY <1>2 DEF Resume, ChatTypeOK, StoreTypeOK
<1>3. QED
  BY <1>1, <1>2
     DEF RunStep, RunProgress, FinalizerProgress, chatStoreVars, CreateTurn,
         RefuseTurn, LoadContext, OpenGraph, OpenFails, Reply, DecisionRaises,
         AskTools, ToolsReturn, ToolsRaise, SettleRead, SettleWrite, Clean,
         FinalizeRead, FinalizeWrite, Sweep, Disconnect, DisconnectSettled,
         SettleCutOff, SettleBusy, FinalizeBusy, BeginTurn

-----------------------------------------------------------------------------
(* The steps of a task *)

\* A fresh task comes from a fresh one, and only an accepted call that was about
\* to be invoked has its effect.
LEMMA TaskHistory ==
  ASSUME ChatTypeOK, NEW r \in Runs, NEW a \in Attempts, NEW k \in Calls,
         TaskStep(r, a, k)
  PROVE  /\ task'[r][a][k] \in FreshTasks => task[r][a][k] \in FreshTasks
         /\ \A q \in Runs \ {r} : effects'[q] = effects[q]
         /\ \/ UNCHANGED effects
            \/ /\ task[r][a][k] = "invoking"
               /\ task'[r][a][k] = "returning"
               /\ k \in Guarded => answer[r] = "accept"
               /\ \A g \in Guarded : effects'[r][g] =
                     IF g = k THEN effects[r][g] + 1 ELSE effects[r][g]
<1> USE DEF ChatTypeOK, StoreTypeOK, TaskTypeOK, Moves, FreshTasks
<1>1. CASE CreatePending(r, a, k)  BY <1>1 DEF CreatePending
<1>2. CASE AdoptPending(r, a, k)   BY <1>2 DEF AdoptPending
<1>3. CASE Replay(r, a, k)         BY <1>3 DEF Replay
<1>4. CASE Reenter(r, a, k)        BY <1>4 DEF Reenter
<1>5. CASE RefuseCall(r, a, k)     BY <1>5 DEF RefuseCall
<1>6. CASE ReadPending(r, a, k)    BY <1>6 DEF ReadPending
<1>7. CASE MarkRunning(r, a, k)    BY <1>7 DEF MarkRunning
<1>8. CASE AskApproval(r, a, k)    BY <1>8 DEF AskApproval
<1>9. CASE Invoke(r, a, k)         BY <1>9 DEF Invoke
<1>10. CASE InvokeRefused(r, a, k) BY <1>10 DEF InvokeRefused
<1>11. CASE InvokeRaises(r, a, k)  BY <1>11 DEF InvokeRaises
<1>12. CASE ReadLive(r, a, k)      BY <1>12 DEF ReadLive
<1>13. CASE StoreResult(r, a, k)   BY <1>13 DEF StoreResult
<1>14. QED
  BY <1>1, <1>2, <1>3, <1>4, <1>5, <1>6, <1>7, <1>8, <1>9, <1>10, <1>11, <1>12,
     <1>13 DEF TaskStep

LEMMA EffectTaskStep ==
  ASSUME ChatTypeOK, NEW r \in Runs, NEW a \in Attempts, NEW k \in Calls,
         RunInv(r), EffectInv(r), TaskStep(r, a, k), UNCHANGED <<stream, graph>>
  PROVE  EffectInv(r)'
<1>1. /\ UNCHANGED <<runs, approvals, answer>>
      /\ \A b \in Attempts, l \in Calls :
           <<b, l>> # <<a, k>> => task'[r][b][l] = task[r][b][l]
      /\ task[r][a][k] \in LiveTasks
  BY TaskEffect
<1>2. Entering(r)' <=> Entering(r)
  BY <1>1 DEF Entering, Asking, Interrupting, Unpersisted
<1>3. CASE UNCHANGED effects
  <2>1. \A b \in Attempts, l \in Guarded :
          task'[r][b][l] \in FreshTasks => effects'[r][l] = 0
    BY <1>1, <1>3, TaskHistory, ChatStoreAssumption DEF EffectInv
  <2>2. QED
    BY <1>1, <1>2, <1>3, <2>1 DEF EffectInv, Unspent
<1>4. CASE ~ UNCHANGED effects /\ k \in Guarded
  <2>1. /\ task[r][a][k] = "invoking"
        /\ task'[r][a][k] = "returning"
        /\ answer[r] = "accept"
        /\ \A g \in Guarded : effects'[r][g] =
              IF g = k THEN effects[r][g] + 1 ELSE effects[r][g]
    BY <1>4, TaskHistory
  <2>2. k \in graph[r].batch /\ graph[r].batch \subseteq graph[r].issued
    BY <1>1, <1>4, <2>1 DEF RunInv, Control, Checkpointed, OneGuardedTask
  <2>3. effects[r][k] = 0 /\ approvals[r][k] >= 1
    BY <1>4, <2>1, <2>2 DEF EffectInv, FreshTasks
  <2>4. \A b \in Attempts, l \in Guarded :
          task'[r][b][l] \in FreshTasks => effects'[r][l] = 0
    <3>1. SUFFICES ASSUME NEW b \in Attempts, NEW l \in Guarded,
                          task'[r][b][l] \in FreshTasks
                   PROVE  effects'[r][l] = 0
      OBVIOUS
    <3>2. CASE l # k
      BY <1>1, <2>1, <3>1, <3>2, ChatStoreAssumption DEF EffectInv
    <3>3. CASE l = k
      <4>1. b = a
        <5>1. task[r][b][k] \in LiveTasks \cup {"interrupting"} => b = stream[r].attempt
          BY <1>4 DEF RunInv, OneGuardedTask
        <5>2. a = stream[r].attempt
          BY <1>1, <1>4 DEF RunInv, OneGuardedTask
        <5>3. b # a => task'[r][b][k] = task[r][b][k]
          BY <1>1
        <5>4. QED
          BY <3>1, <3>3, <5>1, <5>2, <5>3 DEF FreshTasks, LiveTasks
      <4>2. QED
        BY <2>1, <3>1, <3>3, <4>1 DEF FreshTasks
    <3>4. QED
      BY <3>2, <3>3
  <2>5. ~ Entering(r)
    <3>1. ~ Quiet(r)
      BY <1>1, <1>4 DEF Quiet
    <3>2. ~ Paused(r)
      BY <3>1 DEF RunInv, OneGuardedTask
    <3>3. stream[r].pc = "creating" => Paused(r)
      BY DEF RunInv, Control, Starting, Paused
    <3>4. QED
      BY <3>2, <3>3 DEF Entering, Asking, Paused
  <2>6. \A l \in Guarded : effects'[r][l] \in {0, 1}
    BY <2>1, <2>3 DEF EffectInv
  <2>7. \A l \in Guarded : effects'[r][l] = 1 =>
          l \in graph'[r].issued /\ approvals'[r][l] >= 1
    BY <1>1, <2>1, <2>2, <2>3 DEF EffectInv
  <2>8. QED
    BY <1>1, <1>2, <2>4, <2>5, <2>6, <2>7 DEF EffectInv
<1>5. CASE ~ UNCHANGED effects /\ k \notin Guarded
  <2>1. \A g \in Guarded : effects'[r][g] = effects[r][g]
    BY <1>5, TaskHistory
  <2>2. \A b \in Attempts, l \in Guarded :
          task'[r][b][l] \in FreshTasks => effects'[r][l] = 0
    BY <1>1, <1>5, <2>1, ChatStoreAssumption DEF EffectInv
  <2>3. QED
    BY <1>1, <1>2, <2>1, <2>2 DEF EffectInv, Unspent
<1>6. QED
  BY <1>3, <1>4, <1>5

-----------------------------------------------------------------------------
(* Every step *)

LEMMA EffectInit == Init => EffectsInv
<1> SUFFICES ASSUME Init, NEW r \in Runs
             PROVE  EffectInv(r)
  BY DEF EffectsInv
<1>1. /\ \A k \in Guarded : effects[r][k] = 0
      /\ \A a \in Attempts, k \in Calls : task[r][a][k] = "idle"
      /\ answer[r] = "none"
  BY DEF Init, StoreInit, TaskInit
<1>2. QED
  BY <1>1 DEF EffectInv, Unspent

LEMMA EffectStep ==
  ASSUME ChatInv, EffectsInv, [Next]_vars
  PROVE  EffectsInv'
<1> USE DEF EffectsInv, ChatInv
<1>1. ASSUME NEW r \in Runs, RunStep(r)
      PROVE  EffectsInv'
  <2>1. EffectInv(r)'
    BY <1>1, EffectRunStep
  <2>2. ASSUME NEW q \in Runs \ {r}
        PROVE  EffectInv(q)'
    <3>1. Same(q)
      BY <1>1, RunFrame DEF OthersSame
    <3>2. effects'[q] = effects[q] /\ approvals'[q] = approvals[q]
      BY <1>1, EffectRunStepOthers
    <3>3. QED
      BY <3>1, <3>2, EffectFrame
  <2>3. QED
    BY <2>1, <2>2
<1>2. ASSUME NEW r \in Runs, NEW a \in Attempts, NEW k \in Calls, TaskStep(r, a, k),
             UNCHANGED <<stream, graph, closing, abandoned>>
      PROVE  EffectsInv'
  <2>1. EffectInv(r)'
    BY <1>2, EffectTaskStep
  <2>2. ASSUME NEW q \in Runs \ {r}
        PROVE  EffectInv(q)'
    <3>1. Same(q)
      BY <1>2, TaskStepSame DEF OthersSame
    <3>2. effects'[q] = effects[q] /\ approvals'[q] = approvals[q]
      BY <1>2, TaskHistory, TaskEffect
    <3>3. QED
      BY <3>1, <3>2, EffectFrame
  <2>3. QED
    BY <2>1, <2>2
<1>3. ASSUME NEW c \in Conversations, DeleteRows(c), NEW r \in Runs
      PROVE  EffectInv(r)'
  <2>1. /\ UNCHANGED <<effects, approvals, task, answer, stream, graph>>
        /\ runs'[r].state \in {runs[r].state, "gone"}
    BY <1>3 DEF DeleteRows, CascadeRuns
  <2>2. Entering(r)' => Entering(r)
    BY <2>1 DEF Entering, Asking, Interrupting, Unpersisted, ActiveRunStates
  <2>3. QED
    BY <2>1, <2>2, EffectKept
<1>4. ASSUME NEW c \in Conversations,
             NewConversation(c) \/ (DeletionStep(c) /\ ~ DeleteRows(c)), NEW r \in Runs
      PROVE  EffectInv(r)'
  <2>1. UNCHANGED <<runs, effects, approvals, task, answer, stream, graph>>
    BY <1>4 DEF NewConversation, DeletionStep, BeginDelete, DropCheckpoints,
                DropFails, ReadRemaining, chatRunVars, chatStoreVars
  <2>2. QED
    BY <2>1, EffectKept DEF Entering, Asking, Interrupting, Unpersisted
<1>5. ASSUME Crash, NEW r \in Runs
      PROVE  EffectInv(r)'
  <2>1. /\ UNCHANGED <<runs, effects, approvals, answer, graph>>
        /\ stream'[r].pc = "none"
        /\ \A a \in Attempts, k \in Calls : task'[r][a][k] = "idle"
    BY <1>5 DEF Crash, chatStoreVars, ChatTypeOK, StreamTypeOK, Stream
  <2>2. Entering(r)' => Entering(r)
    BY <2>1 DEF Entering, Asking, Interrupting, Unpersisted
  <2>3. QED
    BY <2>1, <2>2, EffectKept
<1>6. ASSUME UNCHANGED vars, NEW r \in Runs
      PROVE  EffectInv(r)'
  <2>1. UNCHANGED <<runs, effects, approvals, task, answer, stream, graph>>
    BY <1>6 DEF vars, chatRunVars, chatStoreVars
  <2>2. QED
    BY <2>1, EffectKept DEF Entering, Asking, Interrupting, Unpersisted
<1>7. QED
  BY <1>1, <1>2, <1>3, <1>4, <1>5, <1>6 DEF Next

\* The side effect of a guarded call happens at most once, and only if the user
\* accepted that very call (execute_tool re-entry, claim_resume, an answer used up
\* by the pass that asked for it), over any number of resumes, disconnections and
\* restarts.
THEOREM GuardedEffectsOnce == Spec => []GuardedEffectOnce
<1>1. Init => EffectsInv
  BY EffectInit
<1>2. ChatInv /\ EffectsInv /\ [Next]_vars => EffectsInv'
  BY EffectStep
<1>3. ChatInv /\ EffectsInv => GuardedEffectOnce
  <2> SUFFICES ASSUME ChatInv, EffectsInv, NEW r \in Runs, NEW k \in Guarded
               PROVE  effects[r][k] <= 1 /\ effects[r][k] <= approvals[r][k]
    BY DEF GuardedEffectOnce
  <2>1. approvals[r][k] \in Nat
    BY DEF ChatInv, ChatTypeOK, StoreTypeOK
  <2>2. /\ effects[r][k] \in {0, 1}
        /\ effects[r][k] = 1 => approvals[r][k] >= 1
    BY DEF EffectsInv, EffectInv
  <2>3. QED
    BY <2>1, <2>2
<1>4. QED
  BY <1>1, <1>2, <1>3, ChatInvCorrect, PTL DEF Spec
=============================================================================

\* Two turns, the deletion of their conversation and an end of the process.
\* Runs that are over and conversations that are used up leave nothing to do, so
\* the system may stop.
SPECIFICATION Spec
CONSTANTS
    r1 = r1
    r2 = r2
    save = save
    edit = edit
    look = look
    NoConversation = NoConversation
    Conversations = {c1, c2}
    InitiallyOpen = {c1}
    Deletable = {c1}
    Runs = {r1, r2}
    Calls = {save}
    Guarded = {save}
    CallsOf <- TwoTurns
    LoopLimit = 1
    MaxAttempts = 2
    MaxCrashes = 1
    Faults = {"cutoff", "busy"}
INVARIANTS
    ChatTypeOK
    RunningIsServed
    InterruptedResumable
PROPERTIES
    CheckpointOutlivesRun
CHECK_DEADLOCK FALSE

\* One run through two passes of three calls, with tasks that outlive a pass.
\* Runs that are over and conversations that are used up leave nothing to do, so
\* the system may stop.
SPECIFICATION Spec
CONSTANTS
    r1 = r1
    r2 = r2
    save = save
    edit = edit
    look = look
    NoConversation = NoConversation
    Conversations = {c1}
    InitiallyOpen = {c1}
    Deletable = {}
    Runs = {r1}
    Calls = {save, edit, look}
    Guarded = {save, edit}
    CallsOf <- ThreeCalls
    LoopLimit = 2
    MaxAttempts = 3
    MaxCrashes = 0
    Faults = {"raise", "open", "busy"}
INVARIANTS
    GuardedEffectOnce
    CompletedRunHasResults
PROPERTIES
    RunSettles
CHECK_DEADLOCK FALSE

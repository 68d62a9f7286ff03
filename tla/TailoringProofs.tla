-------------------------- MODULE TailoringProofs --------------------------
(***************************************************************************)
(* Theorems about CV tailoring, for every number of sessions and of        *)
(* requests that overlap on them.                                          *)
(*                                                                         *)
(* A step of a request touches its own run, its own staging directory, its *)
(* own version and its own files; of another request's it can only take    *)
(* away what belongs to a session that is deleted (Frame).                 *)
(***************************************************************************)
EXTENDS Tailoring, TLAPS, FiniteSetTheorems

\* The versions of a session are numbered without gaps up to its latest.
Line(s) ==
    LET of == VersionsOf(s) IN
    /\ IsFiniteSet(of) /\ Cardinality(of) = sessions[s].latest
    /\ {versions[v].number : v \in of} = 1..sessions[s].latest
    /\ \A v \in of :
         IF versions[v].number = 1 THEN versions[v].parent = NoRequest
         ELSE /\ versions[v].parent \in of
              /\ versions[versions[v].parent].number = versions[v].number - 1

LineSound(s) == Line(s) /\ (~ Live(s) => sessions[s].latest = 0)

\* The files of r are those of session s, or were removed with it.
FilesAt(r, s) == artifacts[r] = s \/ (artifacts[r] = NoSession /\ s \in removed)

VersionOwned(v) ==
    versions[v] # NoVersion =>
        versions[v].session \in Sessions /\ FilesAt(v, versions[v].session)

\* A state in which a request has no session, and those in which it has no version.
Unbound == {"idle", "starting", "done", "deleted"}
Unversioned == {"idle", "starting", "guarding", "confirming", "remarking", "marking",
                "loading", "writing", "unchanged", "compiling", "committing"}

\* The states in which a request has no run yet.
Unrun == {"idle", "starting", "guarding", "confirming", "remarking", "marking"}

Held(r) ==
    /\ request[r].at \notin Unbound => Target(r) \in Sessions
    /\ request[r].at \in Unversioned => versions[r] = NoVersion
    /\ At(r, "committing") => FilesAt(r, Target(r))
    /\ At(r, "dropping") => Target(r) \in removed
    /\ r \in staged => At(r, "compiling") \/ r \in cut
    /\ artifacts[r] # NoSession /\ versions[r] = NoVersion =>
         At(r, "committing") \/ r \in cut \/ artifacts[r] \in removed
    /\ runs[r].state = "running" =>
         \/ request[r].at \in Generating /\ Target(r) = runs[r].session
         \/ runs[r].session \in lost
    /\ request[r].at \in {"idle", "starting"} => Streamed(r)
    /\ request[r].at \in Unrun \/ ~ Streamed(r) => runs[r].state # "running"

\* A request that will end the generation of s: its finalization has not read
\* another state.
Serves(r, s) ==
    /\ request[r].at \in Generating /\ Target(r) = s
    /\ At(r, "finalizing") => request[r].row.state = "generating"

Served(s) ==
    sessions[s].state = "generating" => s \in lost \/ \E r \in Requests : Serves(r, s)

IInv ==
    /\ TailoringTypeOK
    /\ \A s \in Sessions : LineSound(s)
    /\ \A s \in Sessions : Served(s)
    /\ \A v \in Requests : VersionOwned(v)
    /\ \A r \in Requests : Held(r)

-----------------------------------------------------------------------------
(* One request takes a step *)

Turned(r) ==
    /\ request' \in [Requests -> RequestRow]
    /\ \A q \in Requests \ {r} : request'[q] = request[q]

\* What a step of r leaves to the other requests.
Frame(r) ==
    /\ Turned(r)
    /\ lost \subseteq lost' /\ cut \subseteq cut' /\ removed \subseteq removed'
    /\ \A q \in Requests \ {r} :
         /\ q \in staged' => q \in staged
         /\ \/ artifacts'[q] = artifacts[q]
            \/ artifacts'[q] = NoSession /\ artifacts[q] \in removed'
         /\ \/ versions'[q] = versions[q]
            \/ versions'[q] = NoVersion /\ versions[q].session \in removed'
         /\ runs'[q] = runs[q] \/ runs'[q] = NoRun

TablesTyped ==
    TailoringStoreTypeOK /\ lost \subseteq Sessions /\ cut \subseteq Requests
    /\ removed \subseteq Sessions

Step(r) ==
    /\ Frame(r)
    /\ TablesTyped'
    /\ \A s \in Sessions : LineSound(s)'
    /\ VersionOwned(r)' /\ Held(r)'
    /\ \A s \in Sessions : sessions'[s].state = "generating" =>
         sessions[s].state = "generating" \/ Serves(r, s)'
    /\ \A s \in Sessions : Serves(r, s) =>
         sessions'[s].state # "generating" \/ s \in lost' \/ Serves(r, s)'

LEMMA IdleTyped ==
  /\ Idle \in RequestRow /\ EmptySession \in SessionRow
  /\ NoVersion \in VersionRow /\ NoRun \in RunRow
  <1>1. EmptySession \in SessionRow  BY DEF EmptySession, SessionRow, SessionStates
  <1>2. "idle" \in RequestStates  BY DEF RequestStates
  <1>3. Idle \in RequestRow  BY <1>1, <1>2 DEF Idle, RequestRow
  <1> QED  BY <1>1, <1>3 DEF NoVersion, VersionRow, NoRun, RunRow, RunStates

LEMMA Typed ==
  ASSUME IInv, NEW r \in Requests
  PROVE  /\ request \in [Requests -> RequestRow] /\ request[r] \in RequestRow
         /\ TailoringTypeOK /\ TablesTyped
         /\ sessions \in [Sessions -> SessionRow]
         /\ versions \in [Requests -> VersionRow]
         /\ runs \in [Requests -> RunRow]
         /\ artifacts \in [Requests -> Sessions \cup {NoSession}]
         /\ staged \subseteq Requests
         /\ Held(r) /\ VersionOwned(r)
  BY DEF IInv, TailoringTypeOK, GenerationTypeOK, TailoringStoreTypeOK, TablesTyped

LEMMA Moved ==
  ASSUME IInv, NEW r \in Requests, NEW q \in RequestRow,
         request' = [request EXCEPT ![r] = q]
  PROVE  Turned(r) /\ request'[r] = q
  BY Typed DEF Turned

\* Goto keeps the locals, or forgets all of them.
LEMMA GotoEffect ==
  ASSUME IInv, NEW r \in Requests, NEW state \in RequestStates, Goto(r, state)
  PROVE  /\ Turned(r)
         /\ request'[r].at = state
         /\ state \notin {"done", "deleted"} =>
              /\ request'[r].session = request[r].session
              /\ request'[r].row = request[r].row
              /\ request'[r].expected = request[r].expected
              /\ request'[r].parent = request[r].parent
              /\ request'[r].kind = request[r].kind
              /\ request'[r].shielded = request[r].shielded
         /\ state \in {"done", "deleted"} => request'[r].kind = "ai"
  <1>1. request \in [Requests -> RequestRow]  BY Typed
  <1>2. CASE state \in {"done", "deleted"}
    BY <1>1, <1>2, IdleTyped DEF Goto, Turned, RequestRow, Idle
  <1>3. CASE state \notin {"done", "deleted"}
    BY <1>1, <1>3 DEF Goto, Turned, RequestRow
  <1> QED BY <1>2, <1>3

-----------------------------------------------------------------------------
(* Such a step preserves the invariant *)

LEMMA StepPreserves ==
  ASSUME IInv, NEW r \in Requests, Step(r)
  PROVE  IInv'
  <1>1. /\ Turned(r) /\ request \in [Requests -> RequestRow]
        /\ lost \subseteq lost' /\ cut \subseteq cut' /\ removed \subseteq removed'
    BY Typed DEF Step, Frame
  <1>2. TailoringTypeOK'
    BY <1>1 DEF Step, TablesTyped, Turned, TailoringTypeOK, GenerationTypeOK
  <1>3. \A v \in Requests \ {r} : VersionOwned(v)'
    <2> TAKE v \in Requests \ {r}
    <2>1. VersionOwned(v)  BY Typed
    <2>2. /\ \/ artifacts'[v] = artifacts[v]
             \/ artifacts'[v] = NoSession /\ artifacts[v] \in removed'
          /\ versions'[v] = versions[v] \/ versions'[v] = NoVersion
      BY DEF Step, Frame
    <2>3. NoSession \notin removed'
      BY TailoringStoreAssumption DEF Step, TablesTyped
    <2> QED  BY <1>1, <2>1, <2>2, <2>3 DEF VersionOwned, FilesAt
  <1>4. \A q \in Requests \ {r} : Held(q)'
    <2> TAKE q \in Requests \ {r}
    <2>1. Held(q) /\ VersionOwned(q) /\ request'[q] = request[q]
      BY <1>1, Typed DEF Turned
    <2>2. /\ q \in staged' => q \in staged
          /\ \/ artifacts'[q] = artifacts[q]
             \/ artifacts'[q] = NoSession /\ artifacts[q] \in removed'
          /\ \/ versions'[q] = versions[q]
             \/ versions'[q] = NoVersion /\ versions[q].session \in removed'
          /\ runs'[q] = runs[q] \/ runs'[q] = NoRun
      BY DEF Step, Frame
    <2>3. NoSession \notin removed'
      BY TailoringStoreAssumption DEF Step, TablesTyped
    <2>4. At(q, "committing") => FilesAt(q, Target(q))'
      BY <1>1, <2>1, <2>2, <2>3 DEF Held, FilesAt, At, Target
    <2>5. (artifacts[q] # NoSession /\ versions[q] = NoVersion)' =>
            At(q, "committing") \/ q \in cut' \/ artifacts'[q] \in removed'
      BY <1>1, <2>1, <2>2 DEF Held, VersionOwned, FilesAt, At
    <2>6. runs'[q].state = "running" =>
            \/ request[q].at \in Generating /\ Target(q) = runs'[q].session
            \/ runs'[q].session \in lost'
      BY <1>1, <2>1, <2>2 DEF Held, NoRun
    <2>7. /\ request'[q].at \in {"idle", "starting"} => Streamed(q)'
          /\ request'[q].at \in Unrun \/ ~ Streamed(q)' => runs'[q].state # "running"
      BY <2>1, <2>2 DEF Held, NoRun, Streamed
    <2> QED
      BY <1>1, <2>1, <2>2, <2>4, <2>5, <2>6, <2>7 DEF Held, At, Target
  <1>5. \A s \in Sessions : Served(s)'
    <2> SUFFICES ASSUME NEW s \in Sessions, sessions'[s].state = "generating", s \notin lost'
                 PROVE  \E q \in Requests : Serves(q, s)'
      BY DEF Served
    <2>1. CASE sessions[s].state = "generating"
      <3>1. PICK q \in Requests : Serves(q, s)
        BY <1>1, <2>1 DEF IInv, Served
      <3>2. CASE q = r  BY <3>1, <3>2 DEF Step
      <3>3. CASE q # r  BY <1>1, <3>1, <3>3 DEF Turned, Serves, At, Target
      <3> QED  BY <3>2, <3>3
    <2>2. CASE sessions[s].state # "generating"  BY <2>2 DEF Step
    <2> QED  BY <2>1, <2>2
  <1> QED  BY <1>2, <1>3, <1>4, <1>5 DEF IInv, Step

LEMMA LineSame ==
  ASSUME NEW s \in Sessions, LineSound(s), versions' = versions,
         sessions'[s].latest = sessions[s].latest, Live(s)' \/ ~ Live(s)
  PROVE  LineSound(s)'
  <1>1. VersionsOf(s)' = VersionsOf(s)  BY DEF VersionsOf
  <1> QED  BY <1>1 DEF LineSound, Line

-----------------------------------------------------------------------------
(* The steps that leave the rows as they are *)

\* Files and staging directory of r at most.
LEMMA FilesStep ==
  ASSUME IInv, NEW r \in Requests, Turned(r), RowsSame, UNCHANGED <<source, removed>>,
         lost \subseteq lost', lost' \subseteq Sessions,
         cut \subseteq cut', cut' \subseteq Requests,
         staged' \subseteq staged \cup {r},
         artifacts' \in [Requests -> Sessions \cup {NoSession}],
         \A q \in Requests \ {r} : artifacts'[q] = artifacts[q],
         VersionOwned(r)', Held(r)',
         \A s \in Sessions : Serves(r, s) =>
            sessions[s].state # "generating" \/ s \in lost' \/ Serves(r, s)'
  PROVE  Step(r)
  <1>1. \A s \in Sessions : LineSound(s)'
    BY LineSame DEF IInv, RowsSame, Live
  <1>2. Frame(r)
    BY DEF Frame, RowsSame
  <1>3. TablesTyped'
    BY Typed DEF TablesTyped, TailoringStoreTypeOK, RowsSame
  <1> QED  BY <1>1, <1>2, <1>3 DEF Step, RowsSame

\* Nothing but its control state and locals.
LEMMA LocalStep ==
  ASSUME IInv, NEW r \in Requests, Turned(r), RowsSame, FilesSame,
         UNCHANGED <<source, removed>>,
         lost \subseteq lost', lost' \subseteq Sessions,
         cut \subseteq cut', cut' \subseteq Requests, Held(r)',
         \A s \in Sessions : Serves(r, s) =>
            sessions[s].state # "generating" \/ s \in lost' \/ Serves(r, s)'
  PROVE  Step(r)
  <1>1. VersionOwned(r)'
    BY Typed DEF VersionOwned, FilesAt, RowsSame, FilesSame
  <1> QED  BY <1>1, Typed, FilesStep DEF FilesSame

\* It ends: its generation, if it had one, is lost, and its files are cut off.
LEMMA DoneStep ==
  ASSUME IInv, NEW r \in Requests, Goto(r, "done"), RowsSame, FilesSame,
         UNCHANGED <<source, removed>>,
         lost \subseteq lost', lost' \subseteq Sessions,
         cut \subseteq cut', cut' \subseteq Requests,
         request[r].at \in Generating => Target(r) \in lost',
         request[r].at \in {"compiling", "committing"} => r \in cut'
  PROVE  Step(r)
  <1>1. "done" \in RequestStates  BY DEF RequestStates
  <1>2. Turned(r) /\ request'[r].at = "done" /\ request'[r].kind = "ai"  BY <1>1, GotoEffect
  <1>3. Held(r)'
    BY <1>2, Typed DEF Held, At, Unbound, Unversioned, Unrun, Streamed, Generating, RowsSame, FilesSame,
       FilesAt, Target
  <1>4. \A s \in Sessions : Serves(r, s) => s \in lost'
    BY DEF Serves
  <1> QED  BY <1>2, <1>3, <1>4, LocalStep

\* It goes on with the session it has.
LEMMA OnwardStep ==
  ASSUME IInv, NEW r \in Requests,
         NEW state \in {"confirming", "remarking", "writing", "failing", "unchanged"},
         Goto(r, state), OnlyRequest, UNCHANGED removed,
         request[r].at \in {"guarding", "loading", "writing", "unchanged"},
         request[r].at = "guarding" => state \in {"confirming", "remarking"},
         request[r].at # "guarding" => state \notin {"confirming", "remarking"}
  PROVE  Step(r)
  <1>1. state \in RequestStates  BY DEF RequestStates, Generating
  <1>2. /\ Turned(r) /\ request'[r].at = state
        /\ request'[r].session = request[r].session /\ request'[r].kind = request[r].kind
    BY <1>1, GotoEffect
  <1>3. Held(r)'
    <2>1. UNCHANGED <<versions, runs, artifacts, staged, lost, cut, removed>>
      BY DEF OnlyRequest, RowsSame, FilesSame
    <2>2. CASE request[r].at = "guarding"
      BY <1>2, <2>1, <2>2, Typed DEF Held, At, Unbound, Unversioned, Unrun, Streamed,
         Generating, Target
    <2>3. CASE request[r].at # "guarding"
      BY <1>2, <2>1, <2>3, Typed DEF Held, At, Unbound, Unversioned, Unrun, Streamed,
         Generating, Target
    <2> QED  BY <2>2, <2>3
  <1>4. \A s \in Sessions : Serves(r, s) => Serves(r, s)'
    BY <1>2 DEF Serves, At, Generating, Target
  <1> QED  BY <1>2, <1>3, <1>4, Typed, LocalStep DEF OnlyRequest, TablesTyped

LEMMA GuardContentStep ==
  ASSUME IInv, NEW r \in Requests, GuardContent(r), UNCHANGED removed
  PROVE  Step(r)
  <1>1. At(r, "guarding") /\ OnlyRequest  BY DEF GuardContent
  <1>2. CASE Goto(r, "done")
    BY <1>1, <1>2, Typed, DoneStep DEF OnlyRequest, TablesTyped, At, Generating
  <1>3. CASE Goto(r, "confirming")
    BY <1>1, <1>3, OnwardStep DEF At
  <1>4. CASE Goto(r, "remarking")
    BY <1>1, <1>4, OnwardStep DEF At
  <1> QED  BY <1>2, <1>3, <1>4 DEF GuardContent

LEMMA EndStep ==
  ASSUME IInv, NEW r \in Requests, ConfirmHead(r) \/ CleanCheckpoint(r), UNCHANGED removed
  PROVE  Step(r)
  BY Typed, DoneStep DEF ConfirmHead, CleanCheckpoint, OnlyRequest, TablesTyped, At, Generating

LEMMA LoadContextStep ==
  ASSUME IInv, NEW r \in Requests, LoadContext(r), UNCHANGED removed
  PROVE  Step(r)
  <1>1. At(r, "loading") /\ OnlyRequest  BY DEF LoadContext
  <1>2. CASE Goto(r, "writing")  BY <1>1, <1>2, OnwardStep DEF At
  <1>3. CASE Goto(r, "failing")  BY <1>1, <1>3, OnwardStep DEF At
  <1> QED  BY <1>2, <1>3 DEF LoadContext, Fails

LEMMA WriteContentStep ==
  ASSUME IInv, NEW r \in Requests, WriteContent(r), UNCHANGED removed
  PROVE  Step(r)
  <1>1. At(r, "writing") /\ RowsSame /\ UNCHANGED <<artifacts, source, lost, cut>>
    BY DEF WriteContent
  <1>2. CASE (Goto(r, "failing") \/ Goto(r, "unchanged")) /\ UNCHANGED staged
    <2>1. OnlyRequest  BY <1>1, <1>2 DEF OnlyRequest, FilesSame
    <2>2. CASE Goto(r, "failing")  BY <1>1, <2>1, <2>2, OnwardStep DEF At
    <2>3. CASE Goto(r, "unchanged")  BY <1>1, <2>1, <2>3, OnwardStep DEF At
    <2> QED  BY <1>2, <2>2, <2>3
  <1>3. CASE Goto(r, "compiling") /\ staged' = staged \cup {r}
    <2>1. "compiling" \in RequestStates  BY DEF RequestStates, Generating
    <2>2. /\ Turned(r) /\ request'[r].at = "compiling"
          /\ request'[r].session = request[r].session /\ request'[r].kind = request[r].kind
      BY <1>3, <2>1, GotoEffect
    <2>3. Held(r)'
      BY <1>1, <1>3, <2>2, Typed DEF Held, At, Unbound, Unversioned, Unrun, Streamed, Generating, RowsSame,
         Target
    <2>4. \A s \in Sessions : Serves(r, s) => Serves(r, s)'
      BY <2>2 DEF Serves, At, Generating, Target
    <2>5. VersionOwned(r)'
      BY <1>1, Typed DEF VersionOwned, FilesAt, RowsSame
    <2> QED  BY <1>1, <1>3, <2>2, <2>3, <2>4, <2>5, Typed, FilesStep DEF TablesTyped
  <1> QED  BY <1>2, <1>3 DEF WriteContent, Fails

LEMMA CompileStep ==
  ASSUME IInv, NEW r \in Requests, Compile(r), UNCHANGED removed
  PROVE  Step(r)
  <1>1. /\ At(r, "compiling") /\ RowsSame /\ UNCHANGED <<source, lost, cut>>
        /\ staged' = staged \ {r}
    BY DEF Compile
  <1>2. Target(r) \in Sessions /\ versions[r] = NoVersion
    BY <1>1, Typed DEF Held, At, Unbound, Unversioned
  <1>3. PICK state \in {"committing", "failing"} :
          /\ Goto(r, state)
          /\ artifacts' = IF state = "committing" THEN [artifacts EXCEPT ![r] = Target(r)]
                                                  ELSE artifacts
    BY DEF Compile, Fails
  <1>4. state \in RequestStates  BY DEF RequestStates, Generating
  <1>5. /\ Turned(r) /\ request'[r].at = state
        /\ request'[r].session = request[r].session /\ request'[r].kind = request[r].kind
    BY <1>3, <1>4, GotoEffect
  <1>6. /\ artifacts' \in [Requests -> Sessions \cup {NoSession}]
        /\ \A q \in Requests \ {r} : artifacts'[q] = artifacts[q]
        /\ state = "committing" => artifacts'[r] = Target(r)
        /\ state = "failing" => artifacts'[r] = artifacts[r]
    BY <1>2, <1>3, Typed
  <1>7. Held(r)'
    BY <1>1, <1>2, <1>5, <1>6, Typed DEF Held, At, Unbound, Unversioned, Unrun, Streamed, Generating, RowsSame,
       Target, FilesAt
  <1>8. \A s \in Sessions : Serves(r, s) => Serves(r, s)'
    BY <1>5 DEF Serves, At, Generating, Target
  <1>9. VersionOwned(r)'
    BY <1>1, <1>2 DEF VersionOwned, RowsSame
  <1> QED  BY <1>1, <1>5, <1>6, <1>7, <1>8, <1>9, Typed, FilesStep DEF TablesTyped

\* A session with versions has one with the greatest number.
LEMMA HeadTyped ==
  ASSUME IInv, NEW s \in Sessions
  PROVE  Head(s) \in Requests \cup {NoRequest}
  <1>1. CASE VersionsOf(s) = {}  BY <1>1 DEF Head
  <1>2. CASE VersionsOf(s) # {}
    <2>1. Line(s) /\ sessions[s].latest \in Nat
      BY Typed, <1>2 DEF IInv, LineSound, SessionRow, VersionsOf
    <2>2. {versions[v].number : v \in VersionsOf(s)} = 1..sessions[s].latest
      BY <2>1 DEF Line
    <2>3. sessions[s].latest \in 1..sessions[s].latest
      BY <1>2, <2>1, <2>2
    <2>4. PICK v \in VersionsOf(s) : versions[v].number = sessions[s].latest
      BY <2>2, <2>3
    <2>5. \A w \in VersionsOf(s) : versions[w].number <= versions[v].number
      BY <2>1, <2>2, <2>4
    <2>6. Head(s) \in VersionsOf(s)
      BY <1>2, <2>5 DEF Head
    <2> QED  BY <2>6 DEF VersionsOf
  <1> QED  BY <1>1, <1>2

LEMMA ReadStartStep ==
  ASSUME IInv, NEW r \in Requests, ReadStart(r), UNCHANGED removed
  PROVE  Step(r)
  <1> DEFINE row == [request[r].row EXCEPT !.source = source]
             q == [request[r] EXCEPT !.at = "starting", !.row = row]
  <1>1. At(r, "idle") /\ OnlyRequest  BY DEF ReadStart
  <1>2. source \in Nat /\ request[r].row \in SessionRow
    BY Typed DEF TablesTyped, TailoringStoreTypeOK, RequestRow
  <1>3. row \in SessionRow  BY <1>2 DEF SessionRow
  <1>4. request' = [request EXCEPT ![r] = q]  BY Typed DEF ReadStart
  <1> HIDE DEF row
  <1>5. "starting" \in RequestStates  BY DEF RequestStates
  <1>6. q \in RequestRow  BY <1>3, <1>5, Typed DEF RequestRow
  <1>7. q.at = "starting" /\ q.kind = request[r].kind  BY Typed DEF RequestRow
  <1> HIDE DEF q
  <1>8. Turned(r) /\ request'[r] = q  BY <1>4, <1>6, Moved
  <1>9. Held(r)'
    BY <1>1, <1>7, <1>8, Typed DEF Held, At, Unbound, Unversioned, Unrun, Streamed, Generating, OnlyRequest,
       RowsSame, FilesSame, Target
  <1>10. \A s \in Sessions : ~ Serves(r, s)
    BY <1>1 DEF Serves, At, Generating
  <1> QED  BY <1>1, <1>8, <1>9, <1>10, Typed, LocalStep DEF OnlyRequest, TablesTyped

LEMMA ReadSessionStep ==
  ASSUME IInv, NEW r \in Requests, NEW s \in Sessions, NEW kind \in {"ai", "user"},
         ReadSession(r, s, kind), UNCHANGED removed
  PROVE  Step(r)
  <1> DEFINE at == IF kind = "ai" THEN "marking" ELSE "guarding"
             q == [request[r] EXCEPT !.session = s, !.kind = kind, !.row = sessions[s],
                      !.expected = sessions[s].latest, !.parent = Head(s), !.at = at]
  <1>1. At(r, "idle") /\ OnlyRequest  BY DEF ReadSession
  <1>2. sessions[s] \in SessionRow /\ sessions[s].latest \in Nat
    BY Typed DEF SessionRow
  <1>3. at \in {"marking", "guarding"} /\ at \in RequestStates
    BY DEF RequestStates
  <1>4. request' = [request EXCEPT ![r] = q]  BY Typed DEF ReadSession
  <1> HIDE DEF at
  <1>5. q \in RequestRow  BY <1>2, <1>3, HeadTyped, Typed DEF RequestRow
  <1>6. q.at = at /\ q.session = s /\ q.kind = kind  BY Typed DEF RequestRow
  <1> HIDE DEF q
  <1>7. Turned(r) /\ request'[r] = q  BY <1>4, <1>5, Moved
  <1>8. Held(r)'
    BY <1>1, <1>3, <1>6, <1>7, Typed DEF Held, At, Unbound, Unversioned, Unrun, Streamed, Generating,
       OnlyRequest, RowsSame, FilesSame, Target
  <1>9. \A t \in Sessions : ~ Serves(r, t)
    BY <1>1 DEF Serves, At, Generating
  <1> QED  BY <1>1, <1>7, <1>8, <1>9, Typed, LocalStep DEF OnlyRequest, TablesTyped

LEMMA ReadAgainStep ==
  ASSUME IInv, NEW r \in Requests, ReadAgain(r), UNCHANGED removed
  PROVE  Step(r)
  <1>1. At(r, "remarking") /\ OnlyRequest  BY DEF ReadAgain
  <1>2. Target(r) \in Sessions  BY <1>1, Typed DEF Held, At, Unbound
  <1>3. CASE Goto(r, "done")
    BY <1>1, <1>3, Typed, DoneStep DEF OnlyRequest, TablesTyped, At, Generating
  <1>4. CASE request' = [request EXCEPT ![r].row = sessions[Target(r)], ![r].at = "marking"]
    <2> DEFINE q == [request[r] EXCEPT !.row = sessions[Target(r)], !.at = "marking"]
    <2>1. "marking" \in RequestStates  BY DEF RequestStates
    <2>2. sessions[Target(r)] \in SessionRow  BY <1>2, Typed
    <2>3. q \in RequestRow  BY <2>1, <2>2, Typed DEF RequestRow
    <2>4. request' = [request EXCEPT ![r] = q]  BY <1>4, Typed
    <2>5. q.at = "marking" /\ q.session = Target(r) /\ q.kind = request[r].kind
      BY Typed DEF RequestRow, Target
    <2> HIDE DEF q
    <2>6. Turned(r) /\ request'[r] = q  BY <2>3, <2>4, Moved
    <2>7. Held(r)'
      BY <1>1, <1>2, <2>5, <2>6, Typed DEF Held, At, Unbound, Unversioned, Unrun, Streamed, Generating,
         OnlyRequest, RowsSame, FilesSame, Target
    <2>8. \A s \in Sessions : ~ Serves(r, s)
      BY <1>1 DEF Serves, At, Generating
    <2> QED  BY <1>1, <2>6, <2>7, <2>8, Typed, LocalStep DEF OnlyRequest, TablesTyped
  <1> QED  BY <1>3, <1>4 DEF ReadAgain

LEMMA ReadForFailureStep ==
  ASSUME IInv, NEW r \in Requests, ReadForFailure(r), UNCHANGED removed
  PROVE  Step(r)
  <1> DEFINE q == [request[r] EXCEPT !.row = sessions[Target(r)], !.at = "finalizing"]
  <1>1. At(r, "failing") /\ OnlyRequest  BY DEF ReadForFailure
  <1>2. Target(r) \in Sessions  BY <1>1, Typed DEF Held, At, Unbound
  <1>3. "finalizing" \in RequestStates  BY DEF RequestStates, Generating
  <1>4. sessions[Target(r)] \in SessionRow  BY <1>2, Typed
  <1>5. q \in RequestRow  BY <1>3, <1>4, Typed DEF RequestRow
  <1>6. request' = [request EXCEPT ![r] = q]  BY Typed DEF ReadForFailure
  <1>7. q.at = "finalizing" /\ q.session = Target(r) /\ q.row = sessions[Target(r)]
        /\ q.kind = request[r].kind
    BY Typed DEF RequestRow, Target
  <1> HIDE DEF q
  <1>8. Turned(r) /\ request'[r] = q  BY <1>5, <1>6, Moved
  <1>9. Held(r)'
    BY <1>1, <1>2, <1>7, <1>8, Typed DEF Held, At, Unbound, Unversioned, Unrun, Streamed, Generating,
       OnlyRequest, RowsSame, FilesSame, Target
  <1>10. \A s \in Sessions : Serves(r, s) =>
            sessions[s].state # "generating" \/ Serves(r, s)'
    BY <1>7, <1>8 DEF Serves, At, Generating, Target
  <1> QED  BY <1>1, <1>8, <1>9, <1>10, Typed, LocalStep DEF OnlyRequest, TablesTyped

LEMMA ReadDeletionStep ==
  ASSUME IInv, NEW r \in Requests, NEW s \in Sessions, ReadDeletion(r, s)
  PROVE  Step(r)
  <1> DEFINE q == [request[r] EXCEPT !.session = s, !.row = sessions[s], !.at = "deleting"]
  <1>1. At(r, "idle") /\ OnlyRequest /\ UNCHANGED removed  BY DEF ReadDeletion
  <1>2. sessions[s] \in SessionRow  BY Typed
  <1>3. "deleting" \in RequestStates  BY DEF RequestStates
  <1>4. q \in RequestRow  BY <1>2, <1>3, Typed DEF RequestRow
  <1>5. request' = [request EXCEPT ![r] = q]  BY Typed DEF ReadDeletion
  <1>6. q.at = "deleting" /\ q.session = s /\ q.kind = request[r].kind
    BY Typed DEF RequestRow
  <1> HIDE DEF q
  <1>7. Turned(r) /\ request'[r] = q  BY <1>4, <1>5, Moved
  <1>8. Held(r)'
    BY <1>1, <1>6, <1>7, Typed DEF Held, At, Unbound, Unversioned, Unrun, Streamed, Generating,
       OnlyRequest, RowsSame, FilesSame, Target
  <1>9. \A t \in Sessions : ~ Serves(r, t)
    BY <1>1 DEF Serves, At, Generating
  <1> QED  BY <1>1, <1>7, <1>8, <1>9, Typed, LocalStep DEF OnlyRequest, TablesTyped

LEMMA LostStep ==
  ASSUME IInv, NEW r \in Requests,
         ((FinalizeBusy(r) \/ DisconnectFinalization(r)) /\ UNCHANGED removed) \/ Die(r)
  PROVE  Step(r)
  <1>1. /\ Goto(r, "done") /\ RowsSame /\ FilesSame /\ UNCHANGED <<source, removed>>
        /\ lost' = lost \cup (IF request[r].at \in Generating THEN {Target(r)} ELSE {})
        /\ cut' \in {cut, cut \cup {r}}
        /\ request[r].at \notin {"failing", "finalizing"} => r \in cut'
    BY DEF FinalizeBusy, DisconnectFinalization, Die, Generating
  <1>2. request[r].at \in Generating => Target(r) \in Sessions
    BY Typed DEF Held, Unbound, Generating
  <1> QED  BY <1>1, <1>2, Typed, DoneStep DEF TablesTyped

LEMMA RemoveFilesStep ==
  ASSUME IInv, NEW r \in Requests, RemoveFiles(r)
  PROVE  Step(r)
  <1>1. At(r, "removing") /\ RowsSame /\ UNCHANGED <<staged, source, lost, cut>>
    BY DEF RemoveFiles
  <1>2. Target(r) \in Sessions  BY <1>1, Typed DEF Held, At, Unbound
  <1>3. CASE Goto(r, "done") /\ UNCHANGED <<artifacts, removed>>
    BY <1>1, <1>3, Typed, DoneStep DEF FilesSame, TablesTyped, At, Generating
  <1>4. CASE /\ artifacts' = DirectoryRemoved(Target(r))
             /\ removed' = removed \cup {Target(r)} /\ Goto(r, "dropping")
    <2>1. "dropping" \in RequestStates  BY DEF RequestStates
    <2>2. /\ Turned(r) /\ request'[r].at = "dropping"
          /\ request'[r].session = request[r].session /\ request'[r].kind = request[r].kind
      BY <1>4, <2>1, GotoEffect
    <2>3. /\ artifacts' \in [Requests -> Sessions \cup {NoSession}]
          /\ \A q \in Requests : \/ artifacts'[q] = artifacts[q]
                                 \/ artifacts'[q] = NoSession /\ artifacts[q] \in removed'
      BY <1>4, Typed DEF DirectoryRemoved
    <2>4. NoSession \notin removed'
      BY <1>2, <1>4, TailoringStoreAssumption, Typed DEF TablesTyped
    <2>5. VersionOwned(r)'
      BY <1>1, <1>4, <2>3, <2>4, Typed DEF VersionOwned, FilesAt, RowsSame
    <2>6. Held(r)'
      BY <1>1, <1>2, <1>4, <2>2, <2>3, Typed DEF Held, At, Unbound, Unversioned, Unrun, Streamed, Generating,
         RowsSame, Target
    <2>7. \A s \in Sessions : LineSound(s)'
      BY <1>1, LineSame DEF IInv, RowsSame, Live
    <2>8. Frame(r)
      BY <1>1, <1>4, <2>2, <2>3 DEF Frame, RowsSame
    <2>9. TablesTyped'
      BY <1>1, <1>2, <1>4, <2>3, Typed DEF TablesTyped, TailoringStoreTypeOK, RowsSame
    <2>10. \A s \in Sessions : ~ Serves(r, s)
      BY <1>1 DEF Serves, At, Generating
    <2> QED  BY <1>1, <2>5, <2>6, <2>7, <2>8, <2>9, <2>10 DEF Step, RowsSame
  <1> QED  BY <1>3, <1>4 DEF RemoveFiles

-----------------------------------------------------------------------------
(* The steps that write the state of a session *)

LEMMA StateStep ==
  ASSUME IInv, NEW r \in Requests, NEW s \in Sessions, NEW row \in SessionRow, Turned(r),
         sessions' = [sessions EXCEPT ![s] = row],
         row.latest = sessions[s].latest, row.state \notin {"none", "gone"},
         UNCHANGED <<versions, artifacts, source, removed, cut, lost>>,
         runs' \in [Requests -> RunRow], \A q \in Requests \ {r} : runs'[q] = runs[q],
         staged' \subseteq staged \cup {r}, Held(r)',
         row.state = "generating" => sessions[s].state = "generating" \/ Serves(r, s)',
         \A t \in Sessions : Serves(r, t) =>
            (t = s /\ row.state # "generating") \/ Serves(r, t)'
  PROVE  Step(r)
  <1>1. /\ sessions' \in [Sessions -> SessionRow]
        /\ sessions'[s] = row /\ \A t \in Sessions \ {s} : sessions'[t] = sessions[t]
    BY Typed
  <1>2. \A t \in Sessions : LineSound(t)'
    <2> TAKE t \in Sessions
    <2>1. LineSound(t)  BY DEF IInv
    <2> QED  BY <1>1, <2>1, LineSame DEF Live
  <1>3. Frame(r)
    BY DEF Frame
  <1>4. TablesTyped'
    BY <1>1, Typed DEF TablesTyped, TailoringStoreTypeOK
  <1>5. VersionOwned(r)'
    BY Typed DEF VersionOwned, FilesAt
  <1> QED  BY <1>1, <1>2, <1>3, <1>4, <1>5 DEF Step

LEMMA InsertSessionStep ==
  ASSUME IInv, NEW r \in Requests, InsertSession(r), UNCHANGED removed
  PROVE  Step(r)
  <1> DEFINE row == [state |-> "generating", latest |-> 0, source |-> request[r].row.source]
  <1>1. At(r, "starting") /\ UNCHANGED <<versions, artifacts, staged, source, lost, cut>>
    BY DEF InsertSession, FilesSame
  <1>2. PICK s \in Sessions :
          /\ sessions[s].state = "none" /\ sessions' = [sessions EXCEPT ![s] = row]
          /\ runs' = [runs EXCEPT ![r] = [session |-> s, state |-> "running"]]
          /\ request' = [request EXCEPT ![r].session = s, ![r].at = "loading"]
    BY DEF InsertSession
  <1> DEFINE q == [request[r] EXCEPT !.session = s, !.at = "loading"]
  <1>3. request[r].row \in SessionRow  BY Typed DEF RequestRow
  <1>4. row \in SessionRow  BY <1>3 DEF SessionRow, SessionStates
  <1>5. row.latest = 0 /\ row.state = "generating"  OBVIOUS
  <1> HIDE DEF row
  <1>6. "loading" \in RequestStates  BY DEF RequestStates, Generating
  <1>7. q \in RequestRow  BY <1>6, Typed DEF RequestRow
  <1>8. request' = [request EXCEPT ![r] = q]  BY <1>2, Typed
  <1>9. q.at = "loading" /\ q.session = s /\ q.kind = request[r].kind
    BY Typed DEF RequestRow
  <1> HIDE DEF q
  <1>10. Turned(r) /\ request'[r] = q  BY <1>7, <1>8, Moved
  <1>11. sessions[s].latest = 0
    BY <1>2 DEF IInv, LineSound, Live
  <1>12. /\ runs' \in [Requests -> RunRow] /\ runs'[r] = [session |-> s, state |-> "running"]
         /\ \A p \in Requests \ {r} : runs'[p] = runs[p]
    BY <1>2, Typed DEF RunRow, RunStates
  <1>13. Held(r)'
    BY <1>1, <1>9, <1>10, <1>12, Typed DEF Held, At, Unbound, Unversioned, Unrun, Streamed,
       Generating, Target
  <1>14. Serves(r, s)'
    BY <1>9, <1>10 DEF Serves, At, Generating, Target
  <1>15. \A t \in Sessions : ~ Serves(r, t)
    BY <1>1 DEF Serves, At, Generating
  <1> QED
    BY <1>1, <1>2, <1>4, <1>5, <1>10, <1>11, <1>12, <1>13, <1>14, <1>15, StateStep

\* The row that an UPDATE of the state leaves.
LEMMA WrittenRow ==
  ASSUME IInv, NEW s \in Sessions, NEW read, NEW state \in SessionStates \ {"none", "gone"},
         Live(s)
  PROVE  \E row \in SessionRow :
            /\ Written(s, read, state) = [sessions EXCEPT ![s] = row]
            /\ row.latest = sessions[s].latest
            /\ row.state \notin {"none", "gone"}
            /\ row.state = IF read.state = state THEN sessions[s].state ELSE state
  <1> DEFINE old == sessions[s]
             new == StateWritten(s, read, state)
             row == [old EXCEPT !.state = new]
  <1>1. old \in SessionRow  BY DEF IInv, TailoringTypeOK, TailoringStoreTypeOK
  <1>2. Written(s, read, state) = [sessions EXCEPT ![s] = row]  BY DEF Written
  <1>3. new = IF read.state = state THEN old.state ELSE state  BY DEF StateWritten
  <1>4. old.state \notin {"none", "gone"}  BY DEF Live
  <1> HIDE DEF new, old
  <1>5. new \in SessionStates \ {"none", "gone"}
    BY <1>1, <1>3, <1>4 DEF SessionRow
  <1>6. row \in SessionRow /\ row.latest = old.latest /\ row.state = new
    BY <1>1, <1>5 DEF SessionRow, SessionStates
  <1> HIDE DEF row
  <1> USE DEF old
  <1> QED  BY <1>2, <1>3, <1>5, <1>6

LEMMA MarkGeneratingStep ==
  ASSUME IInv, NEW r \in Requests, MarkGenerating(r), UNCHANGED removed
  PROVE  Step(r)
  <1> DEFINE at == IF Streamed(r) THEN "loading" ELSE "compiling"
  <1>1. At(r, "marking") /\ UNCHANGED <<versions, artifacts, source, lost, cut>>
    BY DEF MarkGenerating
  <1>2. PICK s \in Sessions : s = Target(r)
    BY <1>1, Typed DEF Held, At, Unbound
  <1>3. CASE WriteHolds(s, request[r].row, "generating")
    <2>1. /\ Live(s) /\ sessions' = Written(s, request[r].row, "generating")
          /\ runs' = IF Streamed(r)
                     THEN [runs EXCEPT ![r] = [session |-> s, state |-> "running"]] ELSE runs
          /\ staged' = IF Streamed(r) THEN staged ELSE staged \cup {r}
          /\ Goto(r, at)
      BY <1>2, <1>3 DEF MarkGenerating, WriteHolds
    <2>2. PICK row \in SessionRow :
            /\ sessions' = [sessions EXCEPT ![s] = row]
            /\ row.latest = sessions[s].latest /\ row.state \notin {"none", "gone"}
      <3>1. "generating" \in SessionStates \ {"none", "gone"}  BY DEF SessionStates
      <3>2. \E row \in SessionRow :
              /\ Written(s, request[r].row, "generating") = [sessions EXCEPT ![s] = row]
              /\ row.latest = sessions[s].latest
              /\ row.state \notin {"none", "gone"}
              /\ row.state = IF request[r].row.state = "generating" THEN sessions[s].state
                                                                    ELSE "generating"
        <4>1. Live(s)  BY <2>1
        <4> QED  BY <3>1, <4>1, WrittenRow, ZenonT(40)
      <3> QED  BY <2>1, <3>2
    <2>3. at \in RequestStates /\ at \in {"loading", "compiling"}
      BY DEF RequestStates, Generating
    <2>4. /\ Turned(r) /\ request'[r].at = at
          /\ request'[r].session = s /\ request'[r].kind = request[r].kind
      BY <1>2, <2>1, <2>3, GotoEffect DEF Target
    <2>5. /\ runs' \in [Requests -> RunRow]
          /\ \A q \in Requests \ {r} : runs'[q] = runs[q]
          /\ Streamed(r) => runs'[r].session = s
          /\ ~ Streamed(r) => runs'[r] = runs[r]
      BY <1>2, <2>1, Typed DEF RunRow, RunStates
    <2>6. Serves(r, s)'
      BY <2>3, <2>4 DEF Serves, At, Generating, Target
    <2>7. Held(r)'
      <3>1. CASE Streamed(r)
        BY <1>1, <1>2, <2>1, <2>4, <2>5, <3>1, Typed DEF Held, At, Unbound, Unversioned,
           Unrun, Streamed, Generating, Target
      <3>2. CASE ~ Streamed(r)
        BY <1>1, <1>2, <2>1, <2>4, <2>5, <3>2, Typed DEF Held, At, Unbound, Unversioned,
           Unrun, Streamed, Generating, Target
      <3> QED  BY <3>1, <3>2
    <2>8. \A t \in Sessions : ~ Serves(r, t)
      BY <1>1 DEF Serves, At, Generating
    <2>9. staged' \subseteq staged \cup {r}  BY <2>1
    <2> HIDE DEF at
    <2> QED
      BY <1>1, <1>2, <2>2, <2>4, <2>5, <2>6, <2>7, <2>8, <2>9, StateStep
  <1>4. CASE Goto(r, "done") /\ UNCHANGED <<sessions, runs, staged>>
    BY <1>1, <1>4, Typed, DoneStep DEF RowsSame, FilesSame, TablesTyped, At, Generating
  <1> QED  BY <1>2, <1>3, <1>4 DEF MarkGenerating

LEMMA MarkDeletingStep ==
  ASSUME IInv, NEW r \in Requests, MarkDeleting(r)
  PROVE  Step(r)
  <1> DEFINE s == Target(r)
  <1>1. /\ At(r, "deleting")
        /\ UNCHANGED <<versions, runs, artifacts, staged, source, lost, cut, removed>>
    BY DEF MarkDeleting, FilesSame
  <1>2. s \in Sessions  BY <1>1, Typed DEF Held, At, Unbound
  <1>3. CASE WriteHolds(s, request[r].row, "deleting")
    <2>1. /\ Live(s) /\ sessions' = Written(s, request[r].row, "deleting")
          /\ Goto(r, "removing")
      BY <1>3 DEF MarkDeleting, WriteHolds
    <2>2. PICK row \in SessionRow :
            /\ sessions' = [sessions EXCEPT ![s] = row]
            /\ row.latest = sessions[s].latest /\ row.state \notin {"none", "gone"}
            /\ row.state \in {sessions[s].state, "deleting"}
      BY <1>2, <2>1, WrittenRow, SMTT(40) DEF SessionStates
    <2>3. "removing" \in RequestStates  BY DEF RequestStates
    <2>4. /\ Turned(r) /\ request'[r].at = "removing"
          /\ request'[r].session = s /\ request'[r].kind = request[r].kind
      BY <2>1, <2>3, GotoEffect DEF Target
    <2>5. Held(r)'
      BY <1>1, <1>2, <2>4, Typed DEF Held, At, Unbound, Unversioned, Unrun, Streamed,
         Generating, Target
    <2>6. \A t \in Sessions : ~ Serves(r, t)
      BY <1>1 DEF Serves, At, Generating
    <2>7. row.state = "generating" => sessions[s].state = "generating"  BY <2>2
    <2> QED
      BY <1>1, <1>2, <2>2, <2>4, <2>5, <2>6, <2>7, Typed, StateStep
  <1>4. CASE Goto(r, "done") /\ UNCHANGED sessions
    BY <1>1, <1>4, Typed, DoneStep DEF RowsSame, FilesSame, TablesTyped, At, Generating
  <1> QED  BY <1>3, <1>4 DEF MarkDeleting

\* The end of the run of r, whatever it was.
LEMMA RunEnded ==
  ASSUME IInv, NEW r \in Requests, NEW state \in {"completed", "failed"},
         runs' = [runs EXCEPT ![r].state = state]
  PROVE  /\ runs' \in [Requests -> RunRow] /\ runs'[r].state = state
         /\ runs'[r].session = runs[r].session
         /\ \A q \in Requests \ {r} : runs'[q] = runs[q]
  <1>1. runs \in [Requests -> RunRow]  BY Typed
  <1>2. runs' \in [Requests -> RunRow]  BY <1>1 DEF RunRow, RunStates
  <1> QED  BY <1>1, <1>2 DEF RunRow

LEMMA CompleteUnchangedStep ==
  ASSUME IInv, NEW r \in Requests, CompleteUnchanged(r), UNCHANGED removed
  PROVE  Step(r)
  <1> DEFINE s == Target(r)
  <1>1. At(r, "unchanged") /\ UNCHANGED <<versions, artifacts, staged, source, lost, cut>>
    BY DEF CompleteUnchanged, FilesSame
  <1>2. s \in Sessions  BY <1>1, Typed DEF Held, At, Unbound
  <1>3. CASE /\ Live(s) /\ sessions' = [sessions EXCEPT ![s].state = "ready"]
             /\ runs' = [runs EXCEPT ![r].state = "completed"] /\ Settled(r)
    <2> DEFINE row == [sessions[s] EXCEPT !.state = "ready"]
               at == IF Streamed(r) THEN "cleaning" ELSE "done"
    <2>1. row \in SessionRow  BY <1>2, Typed DEF SessionRow, SessionStates
    <2>2. row.latest = sessions[s].latest /\ row.state = "ready"
      BY <1>2, Typed DEF SessionRow
    <2>3. sessions' = [sessions EXCEPT ![s] = row]  BY <1>3
    <2> HIDE DEF row
    <2>4. Goto(r, at)  BY <1>3 DEF Settled
    <2>5. at \in RequestStates /\ at \in {"cleaning", "done"}  BY DEF RequestStates
    <2>6. /\ Turned(r) /\ request'[r].at = at /\ (at = "done" => request'[r].kind = "ai")
          /\ at # "done" => request'[r].session = s /\ request'[r].kind = request[r].kind
      BY <2>4, <2>5, GotoEffect DEF Target
    <2>7. /\ runs' \in [Requests -> RunRow] /\ runs'[r].state = "completed"
          /\ \A q \in Requests \ {r} : runs'[q] = runs[q]
      BY <1>3, RunEnded
    <2> HIDE DEF s, at
    <2>8. Held(r)'
      BY <1>1, <1>2, <2>5, <2>6, <2>7, Typed DEF Held, At, Unbound, Unversioned, Unrun,
         Streamed, Generating, Target
    <2>9. \A t \in Sessions : Serves(r, t) => t = s
      BY DEF Serves, s
    <2> QED
      BY <1>1, <1>2, <2>1, <2>2, <2>3, <2>6, <2>7, <2>8, <2>9, StateStep
  <1>4. CASE Goto(r, "failing") /\ UNCHANGED <<sessions, runs>>
    BY <1>1, <1>4, OnwardStep DEF OnlyRequest, RowsSame, FilesSame, At
  <1> QED  BY <1>3, <1>4 DEF CompleteUnchanged, Fails

\* A finalization that finds its session gone ends its run and nothing else.
LEMMA GoneStep ==
  ASSUME IInv, NEW r \in Requests, At(r, "finalizing"), request[r].row.state = "gone",
         sessions' = sessions, FailRun(r), Goto(r, "done"), FilesSame,
         UNCHANGED <<versions, source, cut, lost, removed>>
  PROVE  Step(r)
  <1>1. "done" \in RequestStates  BY DEF RequestStates
  <1>2. Turned(r) /\ request'[r].at = "done" /\ request'[r].kind = "ai"
    BY <1>1, GotoEffect
  <1>3. /\ runs' \in [Requests -> RunRow] /\ runs'[r].state # "running"
        /\ \A q \in Requests \ {r} : runs'[q] = runs[q]
    BY RunEnded, Typed DEF FailRun
  <1>4. Held(r)'
    BY <1>2, <1>3, Typed DEF Held, At, Unbound, Unversioned, Unrun, Streamed, Generating,
       FilesSame, Target
  <1>5. \A s \in Sessions : LineSound(s)'
    BY LineSame DEF IInv, Live
  <1>6. Frame(r)  BY <1>2, <1>3 DEF Frame, FilesSame
  <1>7. TablesTyped'
    BY <1>3, Typed DEF TablesTyped, TailoringStoreTypeOK, FilesSame
  <1>8. VersionOwned(r)'  BY Typed DEF VersionOwned, FilesAt, FilesSame
  <1>9. \A s \in Sessions : ~ Serves(r, s)  BY DEF Serves
  <1> QED  BY <1>4, <1>5, <1>6, <1>7, <1>8, <1>9 DEF Step

LEMMA FinalizeFailureStep ==
  ASSUME IInv, NEW r \in Requests, FinalizeFailure(r), UNCHANGED removed
  PROVE  Step(r)
  <1> DEFINE read == request[r].row
             to == Restored(read)
  <1>1. /\ At(r, "finalizing") /\ Goto(r, "done") /\ FilesSame
        /\ UNCHANGED <<versions, source, cut>>
    BY DEF FinalizeFailure
  <1>2. PICK s \in Sessions : s = Target(r)
    BY <1>1, Typed DEF Held, At, Unbound
  <1>3. to \in {"failed", "ready"}  BY DEF Restored
  <1>4. CASE read.state = "gone" /\ UNCHANGED <<sessions, lost>> /\ FailRun(r)
    BY <1>1, <1>4, GoneStep
  <1>5. CASE WriteHolds(s, read, to) /\ sessions' = Written(s, read, to) /\ FailRun(r)
             /\ UNCHANGED lost
    <2>1. \E row \in SessionRow :
            /\ Written(s, read, to) = [sessions EXCEPT ![s] = row]
            /\ row.latest = sessions[s].latest
            /\ row.state \notin {"none", "gone"}
            /\ row.state = IF read.state = to THEN sessions[s].state ELSE to
      <3>1. to \in SessionStates \ {"none", "gone"} /\ Live(s)
        BY <1>3, <1>5, SMTT(40) DEF SessionStates, WriteHolds
      <3> HIDE DEF to
      <3> QED  BY <3>1, WrittenRow, SMTT(40)
    <2>2. PICK row \in SessionRow :
            /\ sessions' = [sessions EXCEPT ![s] = row]
            /\ row.latest = sessions[s].latest
            /\ row.state \notin {"none", "gone"}
            /\ row.state = IF read.state = to THEN sessions[s].state ELSE to
      BY <1>5, <2>1
    <2>3. "done" \in RequestStates  BY DEF RequestStates
    <2>4. Turned(r) /\ request'[r].at = "done" /\ request'[r].kind = "ai"
      BY <1>1, <2>3, GotoEffect
    <2>5. /\ runs' \in [Requests -> RunRow] /\ runs'[r].state # "running"
          /\ \A q \in Requests \ {r} : runs'[q] = runs[q]
      BY <1>5, RunEnded, Typed DEF FailRun
    <2>6. Held(r)'
      BY <1>1, <1>5, <2>4, <2>5, Typed DEF Held, At, Unbound, Unversioned, Unrun, Streamed,
         Generating, FilesSame, Target
    <2>7. row.state = "generating" => sessions[s].state = "generating"
      BY <1>3, <2>2
    <2>8. \A t \in Sessions : Serves(r, t) => t = s /\ row.state # "generating"
      BY <1>1, <1>2, <1>3, <2>2 DEF Serves
    <2> HIDE DEF read, to
    <2> QED
      BY <1>1, <1>5, <2>2, <2>4, <2>5, <2>6, <2>7, <2>8, StateStep DEF FilesSame
  <1>6. CASE UNCHANGED <<sessions, runs>> /\ lost' = lost \cup {s}
    BY <1>1, <1>2, <1>6, Typed, DoneStep DEF RowsSame, TablesTyped, At, Generating
  <1> QED  BY <1>2, <1>4, <1>5, <1>6 DEF FinalizeFailure

-----------------------------------------------------------------------------
(* The steps that write versions *)

\* The line of a session after an append.
LEMMA LineAppended ==
  ASSUME IInv, NEW r \in Requests, NEW s \in Sessions, NEW n \in Nat,
         NEW parent \in Requests \cup {NoRequest}, versions[r] = NoVersion,
         sessions[s].latest = n,
         IF n = 0 THEN parent = NoRequest
         ELSE parent # NoRequest /\ versions[parent].session = s
              /\ versions[parent].number = n,
         versions' = [versions EXCEPT ![r] =
                         [session |-> s, number |-> n + 1, parent |-> parent]],
         sessions'[s].latest = n + 1
  PROVE  Line(s)'
  <1> DEFINE of == VersionsOf(s)
             new == [session |-> s, number |-> n + 1, parent |-> parent]
             of2 == of \cup {r}
  <1>1. versions \in [Requests -> VersionRow] /\ s # NoSession
    BY Typed, TailoringStoreAssumption
  <1>2. r \notin of  BY <1>1 DEF VersionsOf, NoVersion
  <1>3. /\ versions'[r] = new /\ \A v \in Requests \ {r} : versions'[v] = versions[v]
        /\ new.session = s /\ new.number = n + 1 /\ new.parent = parent
    BY <1>1
  <1> HIDE DEF new
  <1>4. VersionsOf(s)' = of2  BY <1>3 DEF VersionsOf
  <1>5. /\ IsFiniteSet(of) /\ Cardinality(of) = n
        /\ {versions[v].number : v \in of} = 1..n
        /\ \A v \in of :
             IF versions[v].number = 1 THEN versions[v].parent = NoRequest
             ELSE /\ versions[v].parent \in of
                  /\ versions[versions[v].parent].number = versions[v].number - 1
    BY DEF IInv, LineSound, Line
  <1>6. of \subseteq Requests  BY DEF VersionsOf
  <1>7. n # 0 => parent \in of
    BY <1>1, SMTT(40) DEF VersionsOf
  <1> HIDE DEF of
  <1>8. IsFiniteSet(of2) /\ Cardinality(of2) = n + 1
    BY <1>2, <1>5, FS_AddElement, SMTT(40)
  <1>9. \A v \in of : versions'[v] = versions[v]  BY <1>2, <1>3, <1>6
  <1>10. {versions'[v].number : v \in of2} = 1..(n + 1)
    <2>1. {versions'[v].number : v \in of2} = {versions[v].number : v \in of} \cup {n + 1}
      BY <1>3, <1>9
    <2>2. 1..(n + 1) = (1..n) \cup {n + 1}  OBVIOUS
    <2> QED  BY <1>5, <2>1, <2>2
  <1>11. \A v \in of2 :
            IF versions'[v].number = 1 THEN versions'[v].parent = NoRequest
            ELSE /\ versions'[v].parent \in of2
                 /\ versions'[versions'[v].parent].number = versions'[v].number - 1
    <2>1. ASSUME NEW v \in of
          PROVE  IF versions'[v].number = 1 THEN versions'[v].parent = NoRequest
                 ELSE /\ versions'[v].parent \in of2
                      /\ versions'[versions'[v].parent].number = versions'[v].number - 1
      BY <1>5, <1>9
    <2>2. CASE n = 0  BY <1>3, <2>1, <2>2
    <2>3. CASE n # 0
      <3>1. versions'[parent] = versions[parent]  BY <1>7, <1>9, <2>3
      <3> QED  BY <1>3, <1>7, <2>1, <2>3, <3>1
    <2> QED  BY <2>2, <2>3
  <1> QED  BY <1>4, <1>8, <1>10, <1>11 DEF Line

\* The line of a session whose versions a step leaves alone.
LEMMA LineOther ==
  ASSUME IInv, NEW s \in Sessions, VersionsOf(s)' = VersionsOf(s),
         \A v \in VersionsOf(s) : versions'[v] = versions[v],
         sessions'[s] = sessions[s]
  PROVE  LineSound(s)'
  <1>1. LineSound(s)  BY DEF IInv
  <1>2. {versions'[v].number : v \in VersionsOf(s)} = {versions[v].number : v \in VersionsOf(s)}
    OBVIOUS
  <1> QED  BY <1>1, <1>2 DEF LineSound, Line, Live

\* The transaction of create_version_cas, whatever the request does next.
LEMMA Committed ==
  ASSUME IInv, NEW r \in Requests, At(r, "committing"), MayCommit(r), Versioned(r),
         FilesSame, UNCHANGED <<source, removed, lost>>,
         cut \subseteq cut', cut' \subseteq Requests, Turned(r),
         request'[r].at \in {"cleaning", "done", "failing"},
         At(r, "done")' => Streamed(r)',
         ~ At(r, "done")' => UNCHANGED <<request[r].session, request[r].kind>>
  PROVE  Step(r)
  <1>1. PICK s \in Sessions : s = Target(r)
    BY Typed DEF Held, At, Unbound
  <1>2. PICK n \in Nat, parent \in Requests \cup {NoRequest} :
          n = request[r].expected /\ parent = request[r].parent
    <2>1. /\ request[r].expected \in Nat
          /\ request[r].parent \in Requests \cup {NoRequest}
      BY Typed DEF RequestRow
    <2> QED  BY <2>1
  <1>3. versions[r] = NoVersion /\ FilesAt(r, s)
    BY <1>1, Typed DEF Held, At, Unversioned
  <1> DEFINE row == [sessions[s] EXCEPT !.state = "ready", !.latest = n + 1]
             new == [session |-> s, number |-> n + 1, parent |-> parent]
  <1>4. row \in SessionRow /\ row.state = "ready" /\ row.latest = n + 1
    <2> DEFINE m == n + 1
    <2>1. m \in Nat /\ sessions[s] \in SessionRow  BY Typed
    <2> HIDE DEF m
    <2>2. /\ [sessions[s] EXCEPT !.state = "ready", !.latest = m] \in SessionRow
          /\ [sessions[s] EXCEPT !.state = "ready", !.latest = m].state = "ready"
          /\ [sessions[s] EXCEPT !.state = "ready", !.latest = m].latest = m
      BY <2>1 DEF SessionRow, SessionStates
    <2> QED  BY <2>2 DEF m
  <1>5. sessions' = [sessions EXCEPT ![s] = row] /\ versions' = [versions EXCEPT ![r] = new]
    BY <1>1, <1>2, Typed DEF Versioned
  <1>6. new \in VersionRow /\ new.session = s  BY DEF VersionRow
  <1>7. Line(s)'
    <2>1. sessions[s].latest = n
      BY <1>1, <1>2 DEF MayCommit, Appends
    <2>2. IF n = 0 THEN parent = NoRequest
          ELSE parent # NoRequest /\ versions[parent].session = s
               /\ versions[parent].number = n
      BY <1>1, <1>2 DEF MayCommit, Appends
    <2>3. sessions'[s].latest = n + 1  BY <1>4, <1>5, Typed
    <2> QED  BY <1>3, <1>5, <2>1, <2>2, <2>3, LineAppended
  <1> HIDE DEF row, new
  <1>8. /\ sessions'[s] = row /\ \A t \in Sessions \ {s} : sessions'[t] = sessions[t]
        /\ versions'[r] = new /\ \A v \in Requests \ {r} : versions'[v] = versions[v]
    BY <1>5, Typed
  <1>9. LineSound(s)'  BY <1>4, <1>7, <1>8 DEF LineSound, Live
  <1>10. \A t \in Sessions \ {s} : LineSound(t)'
    <2> TAKE t \in Sessions \ {s}
    <2>1. versions[r].session # t  BY <1>3, TailoringStoreAssumption DEF NoVersion
    <2>2. VersionsOf(t)' = VersionsOf(t) /\ \A v \in VersionsOf(t) : versions'[v] = versions[v]
      BY <1>6, <1>8, <2>1 DEF VersionsOf
    <2> QED  BY <1>8, <2>2, LineOther
  <1>11. /\ runs' \in [Requests -> RunRow]
         /\ \A q \in Requests \ {r} : runs'[q] = runs[q]
         /\ runs'[r].state # "running"
    <2>1. CASE Streamed(r)  BY <2>1, RunEnded DEF Versioned
    <2>2. CASE ~ Streamed(r)  BY <2>2, Typed DEF Versioned, Held
    <2> QED  BY <2>1, <2>2
  <1>12. new # NoVersion
    BY <1>6, TailoringStoreAssumption DEF NoVersion
  <1>13. VersionOwned(r)'
    BY <1>3, <1>6, <1>8 DEF VersionOwned, FilesAt, FilesSame
  <1>14. Held(r)'
    BY <1>1, <1>8, <1>11, <1>12, Typed DEF Held, At, Unbound, Unversioned, Unrun, Streamed,
       FilesSame, Target
  <1>15. Frame(r)  BY <1>8, <1>11 DEF Frame, FilesSame
  <1>16. TablesTyped'
    BY <1>4, <1>5, <1>6, <1>11, Typed DEF TablesTyped, TailoringStoreTypeOK, FilesSame
  <1>17. \A t \in Sessions : Serves(r, t) => t = s  BY <1>1 DEF Serves
  <1> QED
    BY <1>4, <1>8, <1>9, <1>10, <1>13, <1>14, <1>15, <1>16, <1>17 DEF Step

LEMMA CommitVersionStep ==
  ASSUME IInv, NEW r \in Requests, CommitVersion(r), UNCHANGED removed
  PROVE  Step(r)
  <1>1. At(r, "committing") /\ UNCHANGED <<staged, source, lost, cut>>
    BY DEF CommitVersion
  <1>2. Target(r) \in Sessions /\ versions[r] = NoVersion
    BY <1>1, Typed DEF Held, At, Unbound, Unversioned
  <1>3. CASE MayCommit(r)
    <2> DEFINE at == IF Streamed(r) THEN "cleaning" ELSE "done"
    <2>1. Versioned(r) /\ Goto(r, at) /\ UNCHANGED artifacts
      BY <1>3 DEF CommitVersion, Settled
    <2>2. at \in RequestStates /\ at \in {"cleaning", "done"}  BY DEF RequestStates
    <2> HIDE DEF at
    <2>3. /\ Turned(r) /\ request'[r].at = at /\ (at = "done" => request'[r].kind = "ai")
          /\ at # "done" => UNCHANGED <<request[r].session, request[r].kind>>
      BY <2>1, <2>2, GotoEffect
    <2> QED
      BY <1>1, <1>3, <2>1, <2>2, <2>3, Typed, Committed DEF FilesSame, TablesTyped, At,
         Streamed
  <1>4. CASE ~ MayCommit(r)
    <2>1. artifacts' = [artifacts EXCEPT ![r] = NoSession] /\ Goto(r, "failing") /\ RowsSame
      BY <1>4 DEF CommitVersion, Fails
    <2>2. "failing" \in RequestStates  BY DEF RequestStates, Generating
    <2>3. /\ Turned(r) /\ request'[r].at = "failing"
          /\ request'[r].session = request[r].session /\ request'[r].kind = request[r].kind
      BY <2>1, <2>2, GotoEffect
    <2>4. /\ artifacts' \in [Requests -> Sessions \cup {NoSession}]
          /\ artifacts'[r] = NoSession
          /\ \A q \in Requests \ {r} : artifacts'[q] = artifacts[q]
      BY <2>1, Typed
    <2>5. VersionOwned(r)'  BY <1>2, <2>1 DEF VersionOwned, RowsSame
    <2>6. Held(r)'
      BY <1>1, <1>2, <2>1, <2>3, <2>4, Typed DEF Held, At, Unbound, Unversioned, Unrun,
         Streamed, Generating, RowsSame, Target
    <2>7. \A s \in Sessions : Serves(r, s) => Serves(r, s)'
      BY <2>3 DEF Serves, At, Generating, Target
    <2> QED
      BY <1>1, <2>1, <2>3, <2>4, <2>5, <2>6, <2>7, Typed, FilesStep DEF TablesTyped
  <1> QED  BY <1>3, <1>4

LEMMA DisconnectStep ==
  ASSUME IInv, NEW r \in Requests, Disconnect(r), UNCHANGED removed
  PROVE  Step(r)
  <1> DEFINE q == [request[r] EXCEPT !.at = "failing", !.shielded = TRUE]
  <1>1. /\ Streamed(r) /\ request[r].at \in Cancellable
        /\ cut' = cut \cup {r} /\ FilesSame /\ UNCHANGED <<source, lost>>
    BY DEF Disconnect
  <1>2. "failing" \in RequestStates  BY DEF RequestStates, Generating
  <1>3. q \in RequestRow  BY <1>2, Typed DEF RequestRow
  <1>4. request' = [request EXCEPT ![r] = q]  BY Typed DEF Disconnect
  <1>5. q.at = "failing" /\ q.session = request[r].session /\ q.kind = request[r].kind
    BY Typed DEF RequestRow
  <1> HIDE DEF q
  <1>6. Turned(r) /\ request'[r] = q  BY <1>3, <1>4, Moved
  <1>7. cut \subseteq cut' /\ cut' \subseteq Requests  BY <1>1, Typed DEF TablesTyped
  <1>8. CASE RowsSame
    <2>1. Held(r)'
      BY <1>1, <1>5, <1>6, <1>8, Typed DEF Held, At, Unbound, Unversioned, Unrun, Streamed,
         Generating, Cancellable, FilesSame, RowsSame, Target
    <2>2. \A s \in Sessions : Serves(r, s) => Serves(r, s)'
      BY <1>5, <1>6 DEF Serves, At, Generating, Target
    <2> QED  BY <1>1, <1>6, <1>7, <1>8, <2>1, <2>2, Typed, LocalStep DEF TablesTyped
  <1>9. CASE At(r, "committing") /\ MayCommit(r) /\ Versioned(r)
    BY <1>1, <1>5, <1>6, <1>7, <1>9, Committed DEF At
  <1> QED  BY <1>8, <1>9 DEF Disconnect

\* The rows go with the session; its files have gone before.
LEMMA DropSessionStep ==
  ASSUME IInv, NEW r \in Requests, DropSession(r)
  PROVE  Step(r)
  <1>1. /\ At(r, "dropping") /\ Goto(r, "deleted") /\ FilesSame
        /\ UNCHANGED <<source, lost, cut, removed>>
    BY DEF DropSession
  <1>2. PICK s \in Sessions : s = Target(r)
    BY <1>1, Typed DEF Held, At, Unbound
  <1>3. s \in removed  BY <1>1, <1>2, Typed DEF Held
  <1>4. "deleted" \in RequestStates  BY DEF RequestStates
  <1>5. Turned(r) /\ request'[r].at = "deleted" /\ request'[r].kind = "ai"
    BY <1>1, <1>4, GotoEffect
  <1>6. \A t \in Sessions : ~ Serves(r, t)  BY <1>1 DEF Serves, At, Generating
  <1>7. CASE RowsSame
    <2>1. Held(r)'
      BY <1>1, <1>5, <1>7, Typed DEF Held, At, Unbound, Unversioned, Unrun, Streamed,
         Generating, FilesSame, RowsSame, Target
    <2> QED  BY <1>1, <1>5, <1>6, <1>7, <2>1, Typed, LocalStep DEF TablesTyped
  <1>8. CASE DropSessionRow(s)
    <2> DEFINE row == [EmptySession EXCEPT !.state = "gone"]
    <2>1. row \in SessionRow /\ row.state = "gone" /\ row.latest = 0
      BY IdleTyped DEF EmptySession, SessionRow, SessionStates
    <2>2. sessions' = [sessions EXCEPT ![s] = row]
      BY <1>8 DEF DropSessionRow
    <2> HIDE DEF row
    <2>3. sessions'[s] = row /\ \A t \in Sessions \ {s} : sessions'[t] = sessions[t]
      BY <2>2, Typed
    <2>4. /\ versions' \in [Requests -> VersionRow]
          /\ \A v \in Requests :
               versions'[v] = IF versions[v].session = s THEN NoVersion ELSE versions[v]
      BY <1>8, IdleTyped, Typed DEF DropSessionRow
    <2>5. /\ runs' \in [Requests -> RunRow]
          /\ \A q \in Requests : runs'[q] = runs[q] \/ runs'[q] = NoRun
      BY <1>8, IdleTyped, Typed DEF DropSessionRow
    <2>6. LineSound(s)'
      <3>1. VersionsOf(s)' = {}
        BY <2>4, TailoringStoreAssumption DEF VersionsOf, NoVersion
      <3>2. IsFiniteSet({}) /\ Cardinality({}) = 0  BY FS_EmptySet
      <3>3. 1..0 = {} /\ {versions'[v].number : v \in {}} = {}  OBVIOUS
      <3> QED  BY <2>1, <2>3, <3>1, <3>2, <3>3 DEF LineSound, Line
    <2>7. \A t \in Sessions \ {s} : LineSound(t)'
      <3> TAKE t \in Sessions \ {s}
      <3>1. VersionsOf(t)' = VersionsOf(t) /\ \A v \in VersionsOf(t) : versions'[v] = versions[v]
        BY <2>4, TailoringStoreAssumption DEF VersionsOf, NoVersion
      <3> QED  BY <2>3, <3>1, LineOther
    <2>8. VersionOwned(r)'
      BY <1>1, <2>4, Typed DEF VersionOwned, FilesAt, FilesSame
    <2>9. Held(r)'
      <3>1. artifacts[r] # NoSession /\ versions'[r] = NoVersion =>
              r \in cut \/ artifacts[r] \in removed
        BY <1>1, <1>3, <2>4, Typed DEF Held, VersionOwned, FilesAt, At
      <3>2. runs'[r].state = "running" => runs'[r].session \in lost
        BY <1>1, <2>5, Typed DEF Held, NoRun, Generating, At
      <3>3. runs'[r].state # "running" \/ runs[r].state = "running"
        BY <2>5 DEF NoRun
      <3> QED
        BY <1>1, <1>5, <3>1, <3>2, <3>3, Typed DEF Held, At, Unbound, Unversioned, Unrun,
           Streamed, Generating, FilesSame
    <2>10. Frame(r)
      BY <1>1, <1>3, <1>5, <2>4, <2>5 DEF Frame, FilesSame
    <2>11. TablesTyped'
      BY <1>1, <2>1, <2>2, <2>4, <2>5, Typed DEF TablesTyped, TailoringStoreTypeOK, FilesSame
    <2> QED
      BY <1>6, <2>1, <2>3, <2>6, <2>7, <2>8, <2>9, <2>10, <2>11 DEF Step
  <1> QED  BY <1>2, <1>7, <1>8 DEF DropSession

-----------------------------------------------------------------------------
(* The invariant *)

LEMMA InitInv ==
  ASSUME TailoringInit
  PROVE  IInv
  <1> USE DEF TailoringInit, TailoringStoreInit, GenerationInit
  <1>1. TailoringTypeOK
    <2>1. request \in [Requests -> RequestRow]  BY IdleTyped
    <2>2. TailoringStoreTypeOK  BY IdleTyped DEF TailoringStoreTypeOK
    <2> QED  BY <2>1, <2>2 DEF TailoringTypeOK, GenerationTypeOK
  <1>2. ASSUME NEW s \in Sessions
        PROVE  LineSound(s)
    <2>1. VersionsOf(s) = {}
      BY TailoringStoreAssumption DEF VersionsOf, NoVersion
    <2>2. sessions[s].latest = 0  BY DEF EmptySession
    <2>3. 1..0 = {} /\ {versions[v].number : v \in {}} = {}  OBVIOUS
    <2> QED  BY <2>1, <2>2, <2>3, FS_EmptySet DEF LineSound, Line
  <1>3. \A s \in Sessions : Served(s)  BY DEF Served, EmptySession
  <1>4. \A v \in Requests : VersionOwned(v)  BY DEF VersionOwned
  <1>5. \A r \in Requests : Held(r)
    BY DEF Held, Idle, At, Unbound, Unversioned, Unrun, Streamed, NoRun
  <1> QED  BY <1>1, <1>2, <1>3, <1>4, <1>5 DEF IInv

LEMMA RequestStepInv ==
  ASSUME IInv, NEW r \in Requests, RequestStep(r) \/ Interrupted(r)
  PROVE  IInv'
  <1>1. CASE GenerationStep(r) /\ UNCHANGED removed
    <2>1. CASE ReadStart(r)  BY <1>1, <2>1, ReadStartStep, StepPreserves
    <2>2. CASE InsertSession(r)  BY <1>1, <2>2, InsertSessionStep, StepPreserves
    <2>3. CASE \E s \in Sessions, kind \in {"ai", "user"} : ReadSession(r, s, kind)
      BY <1>1, <2>3, ReadSessionStep, StepPreserves
    <2>4. CASE GuardContent(r)  BY <1>1, <2>4, GuardContentStep, StepPreserves
    <2>5. CASE ConfirmHead(r) \/ CleanCheckpoint(r)  BY <1>1, <2>5, EndStep, StepPreserves
    <2>6. CASE ReadAgain(r)  BY <1>1, <2>6, ReadAgainStep, StepPreserves
    <2>7. CASE MarkGenerating(r)  BY <1>1, <2>7, MarkGeneratingStep, StepPreserves
    <2>8. CASE LoadContext(r)  BY <1>1, <2>8, LoadContextStep, StepPreserves
    <2>9. CASE WriteContent(r)  BY <1>1, <2>9, WriteContentStep, StepPreserves
    <2>10. CASE Compile(r)  BY <1>1, <2>10, CompileStep, StepPreserves
    <2>11. CASE CommitVersion(r)  BY <1>1, <2>11, CommitVersionStep, StepPreserves
    <2>12. CASE CompleteUnchanged(r)  BY <1>1, <2>12, CompleteUnchangedStep, StepPreserves
    <2>13. CASE ReadForFailure(r)  BY <1>1, <2>13, ReadForFailureStep, StepPreserves
    <2>14. CASE FinalizeFailure(r)  BY <1>1, <2>14, FinalizeFailureStep, StepPreserves
    <2> QED
      BY <1>1, <2>1, <2>2, <2>3, <2>4, <2>5, <2>6, <2>7, <2>8, <2>9, <2>10, <2>11, <2>12,
         <2>13, <2>14 DEF GenerationStep
  <1>2. CASE \E s \in Sessions : ReadDeletion(r, s)
    BY <1>2, ReadDeletionStep, StepPreserves
  <1>3. CASE MarkDeleting(r)  BY <1>3, MarkDeletingStep, StepPreserves
  <1>4. CASE RemoveFiles(r)  BY <1>4, RemoveFilesStep, StepPreserves
  <1>5. CASE DropSession(r)  BY <1>5, DropSessionStep, StepPreserves
  <1>6. CASE Disconnect(r) /\ UNCHANGED removed
    BY <1>6, DisconnectStep, StepPreserves
  <1>7. CASE \/ (FinalizeBusy(r) \/ DisconnectFinalization(r)) /\ UNCHANGED removed
             \/ Die(r)
    BY <1>7, LostStep, StepPreserves
  <1> QED
    BY <1>1, <1>2, <1>3, <1>4, <1>5, <1>6, <1>7 DEF RequestStep, Interrupted

\* A step that leaves all but the sources.
LEMMA SourceInv ==
  ASSUME IInv, source' \in Nat,
         UNCHANGED <<sessions, versions, runs, staged, artifacts, request, lost, cut, removed>>
  PROVE  IInv'
  <1>1. TailoringTypeOK'
    BY DEF IInv, TailoringTypeOK, TailoringStoreTypeOK, GenerationTypeOK
  <1>2. \A s \in Sessions : LineSound(s)'
    BY LineSame DEF IInv, Live
  <1>3. \A s \in Sessions : Served(s)'
    BY DEF IInv, Served, Serves, At, Target
  <1>4. \A v \in Requests : VersionOwned(v)'
    BY DEF IInv, VersionOwned, FilesAt
  <1>5. \A r \in Requests : Held(r)'
    BY DEF IInv, Held, FilesAt, At, Target, Streamed
  <1> QED  BY <1>1, <1>2, <1>3, <1>4, <1>5 DEF IInv

LEMMA NextInv ==
  ASSUME IInv, [TailoringNext]_tailoringVars
  PROVE  IInv'
  <1>1. source \in Nat  BY DEF IInv, TailoringTypeOK, TailoringStoreTypeOK
  <1>2. CASE \E r \in Requests : RequestStep(r) \/ Interrupted(r)
    BY <1>2, RequestStepInv
  <1>3. CASE ChangeSource
    BY <1>1, <1>3, SourceInv DEF ChangeSource, RowsSame, FilesSame
  <1>4. CASE UNCHANGED tailoringVars
    BY <1>1, <1>4, SourceInv DEF tailoringVars
  <1> QED  BY <1>2, <1>3, <1>4 DEF TailoringNext

LEMMA SpecInv == TailoringSpec => []IInv
  BY InitInv, NextInv, PTL DEF TailoringSpec

-----------------------------------------------------------------------------
(* The properties *)

\* Every table, and every request, keeps its type.
THEOREM TailoringTypeCorrect == TailoringSpec => []TailoringTypeOK
  <1>1. IInv => TailoringTypeOK  BY DEF IInv
  <1> QED  BY <1>1, SpecInv, PTL

\* A session that is generating, and a tailoring run that is running, is being
\* worked on by a request, however many generate at the same time, unless the
\* request that worked on it was lost.
THEOREM GenerationsServed == TailoringSpec => []GenerationServed
  <1>1. ASSUME IInv PROVE GenerationServed
    <2>1. ASSUME NEW s \in Sessions, sessions[s].state = "generating"
          PROVE  \/ \E r \in Requests : request[r].at \in Generating /\ Target(r) = s
                 \/ s \in lost
      BY <1>1, <2>1 DEF IInv, Served, Serves
    <2>2. ASSUME NEW s \in Sessions, NEW q \in RunsOf(s), runs[q].state = "running"
          PROVE  \/ \E r \in Requests : request[r].at \in Generating /\ Target(r) = s
                 \/ s \in lost
      BY <1>1, <2>2, Typed DEF Held, RunsOf
    <2> QED  BY <2>1, <2>2 DEF GenerationServed
  <1> QED  BY <1>1, SpecInv, PTL

\* The versions of a session form one line of consecutive numbers, each the child
\* of the one before, however many generations overlap (create_version_cas).
THEOREM VersionLines == TailoringSpec => []VersionsFormLine
  <1>1. ASSUME IInv PROVE VersionsFormLine
    BY <1>1 DEF IInv, LineSound, Line, VersionsFormLine
  <1> QED  BY <1>1, SpecInv, PTL

\* A committed version has its files, unless its session is being deleted.
THEOREM VersionsKeepFiles == TailoringSpec => []VersionHasArtifacts
  <1>1. ASSUME IInv PROVE VersionHasArtifacts
    BY <1>1 DEF IInv, VersionOwned, FilesAt, VersionHasArtifacts
  <1> QED  BY <1>1, SpecInv, PTL

\* Files that belong to no version are those of a request that was cut off, or that
\* overlapped with a deletion.
THEOREM FilesHaveOwners == TailoringSpec => []FilesOwned
  <1>1. ASSUME IInv PROVE FilesOwned
    BY <1>1 DEF IInv, Held, At, FilesOwned
  <1> QED  BY <1>1, SpecInv, PTL
=============================================================================

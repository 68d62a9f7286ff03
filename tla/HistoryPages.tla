----------------------------- MODULE HistoryPages -----------------------------
(***************************************************************************)
(* The lists that clients page through: run history and CV history of the  *)
(* selected profile (services/observability.py), messages of a             *)
(* conversation (chat_history.py), saved jobs (saved_jobs.py), and the     *)
(* chunks of a CV, in ascending order.                                     *)
(*                                                                         *)
(* Every list is paged by a key, not by an offset: a page asks for one row *)
(* more than its limit, and the cursor is the key (created_at, id) or      *)
(* (created_at, ordinal) of its last row.  A created_at is read before the *)
(* insert waits for the writer lock, so a row may appear with an older     *)
(* stamp than rows that are there.  The chunk rows of CvReading are the    *)
(* ones listed: the profile Cv owns them.                                  *)
(***************************************************************************)
EXTENDS CvReading, FiniteSetsExt

CONSTANTS
    Profiles,   \* owners of rows: profiles, or conversations for messages
    Cv,         \* the one whose CV CvReading reads
    NoProfile,  \* a request that names no owner; no selection
    Ids,        \* row ids, whose order is that of their strings
    Stamps,     \* created_at values
    Limits      \* values of limit

ASSUME HistoryAssumption ==
    /\ Cv \in Profiles /\ NoProfile \notin Profiles
    /\ Ids \subseteq Nat /\ Stamps \subseteq Nat
    /\ Limits \subseteq Nat \ {0}

VARIABLES
    selected,  \* workspace_state.active_profile_id
    live,      \* profiles in state ready, conversations that exist
    rows,      \* runs, attachments, messages or jobs: [id, stamp, profile]
    used,      \* ids that were given out: none is given twice
    view       \* what the client pages through and has been shown

historyVars == <<selected, live, rows, used, view>>

-----------------------------------------------------------------------------
(* Keyset pages *)

Row == [id: Ids, stamp: Stamps, profile: Profiles]

Precedes(a, b) == a[1] < b[1] \/ (a[1] = b[1] /\ a[2] < b[2])

Key(row) == <<row.stamp, row.id>>

NewestFirst(a, b) == Precedes(Key(b), Key(a))

\* list_runs_before, list_attachments_before, list_messages_before and
\* list_jobs_before: rows of the scope with a key before the cursor, newest first.
Before(scope, cursor, count) ==
    LET matching == {row \in rows :
                       /\ scope # NoProfile => row.profile = scope
                       /\ cursor # <<>> => Precedes(Key(row), cursor)}
        ordered == InOrder(matching, NewestFirst)
    IN  SubSeq(ordered, 1, SmallerOf(count, Len(ordered)))

\* Faulty variant: the extra row is the cursor, and nobody returns it.
KeysetPageFromExtra(scope, cursor, limit) ==
    LET seen == Before(scope, cursor, limit + 1)
        page == SubSeq(seen, 1, SmallerOf(limit, Len(seen)))
    IN  [items |-> page,
         next |-> IF Len(seen) > limit THEN Key(seen[limit + 1]) ELSE <<>>]

\* A page, newest row first, and the key of its oldest row if an older one was
\* seen.
KeysetPage(scope, cursor, limit) ==
    LET seen == Before(scope, cursor, limit + 1)
        page == SubSeq(seen, 1, SmallerOf(limit, Len(seen)))
    IN  [items |-> page,
         next |-> IF Len(seen) > limit THEN Key(page[Len(page)]) ELSE <<>>]

\* list_chunks_after: filtered by (created_at, ordinal), ordered by ordinal.  The
\* rows of one publication have one stamp here.
ChunksAfter(cursor, count) ==
    LET matching == Where(ChunkIndices(Stored),
                          LAMBDA i : cursor # <<>> =>
                                       Precedes(cursor, <<published, i - 1>>))
    IN  SubSeq(matching, 1, SmallerOf(count, Len(matching)))

ChunkPage(cursor, limit) ==
    LET seen == ChunksAfter(cursor, limit + 1)
        page == SubSeq(seen, 1, SmallerOf(limit, Len(seen)))
    IN  [items |-> Each(LAMBDA i : i - 1, page),
         next |-> IF Len(seen) > limit
                  THEN <<published, page[Len(page)] - 1>> ELSE <<>>]

-----------------------------------------------------------------------------
(* State *)

NoView == [at |-> "none", kind |-> "", scope |-> NoProfile, next |-> <<>>,
           shown |-> <<>>, began |-> {}, editions |-> {}]

HistoryInit ==
    /\ selected \in Profiles \cup {NoProfile}
    /\ live = Profiles
    /\ rows = {} /\ used = {}
    /\ view = NoView

\* The client opens a list and pages on until it has no cursor.  Chunks are
\* those of the CV; saved jobs have no owner.
OpenView(kind, scope) ==
    /\ view.at = "none"
    /\ kind = "workspace" => scope = NoProfile
    /\ kind = "conversation" => scope # NoProfile
    /\ view' = [NoView EXCEPT
         !.at = "paging", !.kind = kind, !.scope = scope,
         !.began = {row \in rows : kind = "workspace" \/ row.profile = scope}]
    /\ UNCHANGED <<cvVars, selected, live, rows, used>>

\* _require_selected_ready_profile.
SelectionRefused ==
    \/ selected = NoProfile /\ view.scope # NoProfile
    \/ selected # NoProfile /\ selected \notin live
    \/ selected # NoProfile /\ view.scope \notin {NoProfile, selected}

Refused ==
    CASE view.kind = "selected" -> SelectionRefused
      [] view.kind = "conversation" -> view.scope \notin live
      [] view.kind = "workspace" -> FALSE
      [] view.kind = "chunks" ->
           \/ SelectionRefused \/ selected \notin {NoProfile, Cv}
           \/ ~ owned \/ ~ Stored

ShowItems(page, shown) ==
    view' = [view EXCEPT !.at = IF page.next = <<>> THEN "complete" ELSE @,
                         !.next = page.next, !.shown = shown,
                         !.editions = @ \cup {published}]

Refuse ==
    /\ view.at = "paging" /\ Refused
    /\ view' = [view EXCEPT !.at = "failed"]
    /\ UNCHANGED <<cvVars, selected, live, rows, used>>

\* Histories answer a page in chronological order and the client puts it before
\* what it has; saved jobs stay newest first.
NextRows ==
    /\ view.at = "paging" /\ view.kind # "chunks" /\ ~ Refused
    /\ \E limit \in Limits :
         LET scope == IF view.kind = "selected" THEN selected ELSE view.scope
             page == KeysetPage(scope, view.next, limit)
         IN  ShowItems(page, IF view.kind = "workspace"
                             THEN view.shown \o page.items
                             ELSE Reverse(page.items) \o view.shown)
    /\ UNCHANGED <<cvVars, selected, live, rows, used>>

NextChunks ==
    /\ view.at = "paging" /\ view.kind = "chunks" /\ ~ Refused
    /\ \E limit \in Limits :
         LET page == ChunkPage(view.next, limit)
         IN  ShowItems(page, view.shown \o page.items)
    /\ UNCHANGED <<cvVars, selected, live, rows, used>>

-----------------------------------------------------------------------------
(* The writers *)

\* A run begins, a CV is uploaded, a message is written or a job is saved.
AddRow(row) ==
    /\ row.id \notin used
    /\ rows' = rows \cup {row}
    /\ used' = used \cup {row.id}
    /\ UNCHANGED <<cvVars, selected, live, view>>

\* A conversation goes with its runs, a profile with its CV, or a job.
RemoveRow(row) ==
    /\ rows' = rows \ {row}
    /\ UNCHANGED <<cvVars, selected, live, used, view>>

\* Another profile is selected, or none, as one is activated, set up or deleted.
Activate(p) ==
    /\ selected # p
    /\ selected' = p
    /\ live' \in {live, live \ {p}}
    /\ UNCHANGED <<cvVars, rows, used, view>>

\* A set-up is completed.
Completes(p) ==
    /\ p \notin live
    /\ live' = live \cup {p}
    /\ UNCHANGED <<cvVars, selected, rows, used, view>>

RowWrites ==
    \/ \E row \in Row : AddRow(row)
    \/ \E row \in rows : RemoveRow(row)

SelectionWrites ==
    \/ \E p \in Profiles \cup {NoProfile} : Activate(p)
    \/ \E p \in Profiles : Completes(p)

HistoryReads(kinds) ==
    \/ \E kind \in kinds, scope \in Profiles \cup {NoProfile} :
         OpenView(kind, scope)
    \/ Refuse
    \/ NextRows
    \/ NextChunks

-----------------------------------------------------------------------------
(* Properties *)

HistoryTypeOK ==
    /\ selected \in Profiles \cup {NoProfile} /\ live \subseteq Profiles
    /\ rows \subseteq Row /\ {row.id : row \in rows} \subseteq used
    /\ view.at \in {"none", "paging", "complete", "failed"}

\* A client that names the owner of its list, or lists saved jobs, and pages to
\* the end has seen every row that was there when it began and still is, none of
\* them twice and all of them in order, whatever is added or removed between the
\* pages and whichever stamps the new rows have.
RowWalkExact ==
    LET workspace == view.kind = "workspace" IN
    /\ view.at = "complete" /\ view.kind # "chunks"
    /\ workspace \/ view.scope # NoProfile
    =>  /\ view.began \cap rows \subseteq ToSet(view.shown)
        /\ \A i, j \in DOMAIN view.shown : i < j =>
             IF workspace THEN NewestFirst(view.shown[i], view.shown[j])
                          ELSE NewestFirst(view.shown[j], view.shown[i])
        /\ \A row \in ToSet(view.shown) : workspace \/ row.profile = view.scope

\* A client that pages through the chunks of a CV to the end has seen every one
\* of them, though a re-extraction replaces the rows between two pages; if
\* all pages came from one publication, it has seen each once and in order.
ChunkWalkComplete ==
    view.at = "complete" /\ view.kind = "chunks" =>
        /\ \A i \in DOMAIN Chunks : i - 1 \in ToSet(view.shown)
        /\ Cardinality(view.editions) = 1 =>
             view.shown = [i \in DOMAIN Chunks |-> i - 1]

\* Paging by key neither loses nor repeats, whatever changes between the pages.
ListWalkExact == RowWalkExact /\ ChunkWalkComplete
=============================================================================

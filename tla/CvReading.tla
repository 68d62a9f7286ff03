------------------------------ MODULE CvReading ------------------------------
(***************************************************************************)
(* The agent's bounded reads of the active CV (active_cv_reader.py and the *)
(* read_active_cv tool), and the writers that can overtake them.           *)
(*                                                                         *)
(* A tool call uses three sessions: it resolves the identity of the CV,    *)
(* reads one page under the expectation that the identity still holds, and *)
(* resolves it again before the page is returned.  The agent follows       *)
(* next_cursor from call to call: a WALK.  The identity is the attachment  *)
(* and source_hash, which is the hash of the canonical chunk text: every   *)
(* extraction of one PDF has the same, and a profile without a document    *)
(* has the empty one.                                                      *)
(*                                                                         *)
(* Text is abstracted to its length and to the terms a query finds in it.  *)
(* The durable execution of the call is ToolExecution's subject.           *)
(***************************************************************************)
EXTENDS Ordering, Sequences, SequencesExt

CONSTANTS
    Documents,      \* contents that extractions of the one PDF can produce
    NoDocument,     \* a profile approved before documents were stored
    Outline,        \* [Documents -> Seq([id, entries])]: the sections in order
    Chunks,         \* Seq([size, terms]): the canonical chunks of the PDF
    ExcerptLimit,   \* 400 characters of a search hit
    SearchCeiling,  \* 2000 rows that one search scans
    Asks,           \* [mode, selector] records that begin a walk
    ResultCaps,     \* values of max_results
    CharCaps,       \* values of max_chars
    MaxExtractions  \* bound on the re-extractions that are published

ASSUME ReadingAssumption ==
    /\ NoDocument \notin Documents
    /\ Chunks \in Seq([size: Nat, terms: SUBSET STRING]) /\ Chunks # <<>>
    /\ SearchCeiling \in Nat
    /\ ResultCaps \subseteq Nat \ {0} /\ CharCaps \subseteq Nat \ {0}
    /\ \A a \in Asks :
         /\ a = [mode |-> a.mode, selector |-> a.selector]
         /\ a.mode \in {"section", "search", "chunk"}
    /\ MaxExtractions \in Nat

VARIABLES
    document,   \* cv_documents of the attachment
    draft,      \* cv_document_drafts of the attachment
    extracted,  \* re-extractions published so far
    published,  \* the one that wrote the chunk rows last, 0 for none stored
    owned,      \* the conversation, its profile and its CV exist
    call,       \* the tool call in flight
    walk        \* what the agent follows and has been shown

sourceVars == <<document, draft, extracted, published, owned>>
cvVars == <<document, draft, extracted, published, owned, call, walk>>

-----------------------------------------------------------------------------
(* Candidates, in source order *)

Contents == Documents \cup {NoDocument}
Structured(content) == content # NoDocument

\* The part of ActiveCvIdentity that can change.
Hash(content) == IF Structured(content) THEN "canonical" ELSE ""

SmallerOf(a, b) == IF a < b THEN a ELSE b

Entries(content) ==
    IF Structured(content)
    THEN FlattenSeq([i \in DOMAIN Outline[content] |->
                        Outline[content][i].entries])
    ELSE <<>>

CvEntry == [id: STRING, size: Nat, blob: Nat, terms: SUBSET STRING]

Unrepeated(entries) ==
    \A i, j \in DOMAIN entries : entries[i].id = entries[j].id => i = j

\* The id of an entry holds the ordinals of its section and of itself
\* (deterministic_entry_id): no two entries of a document share one.
ASSUME OutlineAssumption ==
    /\ Outline \in [Documents -> Seq([id: STRING, entries: Seq(CvEntry)])]
    /\ \A d \in Documents :
         /\ Entries(d) \in Seq(CvEntry) /\ Unrepeated(Entries(d))
         /\ \A i \in DOMAIN Outline[d] : Unrepeated(Outline[d][i].entries)

EntryRow(e) == [identity |-> <<"entry", e.id>>, size |-> e.size]
ChunkRow(i) == [identity |-> <<"chunk", i - 1>>, size |-> Chunks[i].size]

Each(op(_), s) == [i \in DOMAIN s |-> op(s[i])]

SectionsNamed(content, section) ==
    {i \in DOMAIN Outline[content] : Outline[content][i].id = section}

\* A hit is charged its excerpt, an entry its record on top of it.
EntryHit(e) ==
    [identity |-> <<"entry", e.id>>, terms |-> e.terms,
     size |-> SmallerOf(e.blob, ExcerptLimit) + e.size]

ChunkHit(i) ==
    [identity |-> <<"chunk", i - 1>>, terms |-> Chunks[i].terms,
     size |-> SmallerOf(Chunks[i].size, ExcerptLimit)]

ChunkIndices(stored) == IF stored THEN [i \in DOMAIN Chunks |-> i] ELSE <<>>

Scanned(content, stored) ==
    LET rows == Each(EntryHit, Entries(content))
                \o Each(ChunkHit, ChunkIndices(stored))
    IN  SubSeq(rows, 1, SmallerOf(Len(rows), SearchCeiling))

SearchCandidates(content, stored, term) ==
    Where(Scanned(content, stored), LAMBDA row : term \in row.terms)

ChunkCandidates(stored, ordinal) ==
    Where(Each(ChunkRow, ChunkIndices(stored)),
          LAMBDA row : row.identity[2] >= ordinal)

Candidates(content, stored, ask) ==
    CASE ask.mode = "section" ->
           Each(EntryRow, Outline[content][Min(SectionsNamed(content, ask.selector))].entries)
      [] ask.mode = "search" -> SearchCandidates(content, stored, ask.selector)
      [] ask.mode = "chunk" -> ChunkCandidates(stored, ask.selector)

\* Why a mode has nothing to page through, "" when it has.
Refusal(content, stored, ask) ==
    CASE ask.mode = "section" /\ ~ Structured(content) ->
           "CV_DOCUMENT_REPROCESS_REQUIRED"
      [] ask.mode = "section" /\ Structured(content)
                /\ SectionsNamed(content, ask.selector) = {} ->
           "SECTION_NOT_FOUND"
      [] ask.mode = "chunk" /\ ChunkCandidates(stored, ask.selector) = <<>> ->
           "CHUNK_NOT_FOUND"
      [] OTHER -> ""

-----------------------------------------------------------------------------
(* Pages and cursors *)

Begin == [hash |-> "", mode |-> "", selector |-> "", after |-> <<>>]

\* What follows the cursor; a record that is not there any more ends the list.
Rest(candidates, after) ==
    LET places == {i \in DOMAIN candidates : candidates[i].identity = after}
    IN  IF after = <<>> THEN candidates
        ELSE IF places = {} THEN <<>>
        ELSE SubSeq(candidates, (CHOOSE i \in places : \A j \in places : i <= j) + 1,
                    Len(candidates))

Total(rows) == FoldLeft(LAMBDA sum, row : sum + row.size, 0, rows)

\* A record is taken as long as both caps leave room for it; the one that
\* overflows the characters is cut and is the last.
TakenCount(rest, results, chars) ==
    Cardinality({n \in 1..SmallerOf(results, Len(rest)) :
                   Total(SubSeq(rest, 1, n - 1)) < chars})

\* Faulty variant: a page that ends in a cut record has no next one.
NextCursorUnlessCut(content, ask, rest, taken, cut) ==
    IF taken > 0 /\ ~ cut /\ taken < Len(rest)
    THEN [hash |-> Hash(content), mode |-> ask.mode, selector |-> ask.selector,
          after |-> rest[taken].identity]
    ELSE Begin

\* The cursor of a page that leaves something out.
NextCursor(content, ask, rest, taken, cut) ==
    IF taken > 0 /\ (cut \/ taken < Len(rest))
    THEN [hash |-> Hash(content), mode |-> ask.mode, selector |-> ask.selector,
          after |-> rest[taken].identity]
    ELSE Begin

PageOf(content, stored, ask, after, results, chars) ==
    LET rest == Rest(Candidates(content, stored, ask), after)
        taken == TakenCount(rest, results, chars)
        used == Total(SubSeq(rest, 1, taken))
    IN  [code |-> "",
         shown |-> [i \in 1..taken |-> rest[i].identity],
         chars |-> SmallerOf(used, chars),
         next |-> NextCursor(content, ask, rest, taken, used > chars)]

Failed(code) == [code |-> code, shown |-> <<>>, chars |-> 0, next |-> Begin]

\* _bind_cursor: why a cursor cannot be followed, "" when it can.
CursorRefusal(cursor, content, ask) ==
    CASE cursor # Begin /\ cursor.hash # Hash(content) -> "ACTIVE_CV_CHANGED"
      [] cursor # Begin /\ cursor.hash = Hash(content)
                /\ (cursor.mode # ask.mode \/ cursor.selector # ask.selector) ->
           "MALFORMED_CURSOR"
      [] OTHER -> ""

\* read_active_cv under an expected identity.
ReadPage(expected, content, stored, ask, cursor, results, chars) ==
    LET bound == CursorRefusal(cursor, content, ask)
        refused == Refusal(content, stored, ask)
    IN  CASE Hash(content) # expected -> Failed("ACTIVE_CV_CHANGED")
          [] Hash(content) = expected /\ bound # "" -> Failed(bound)
          [] Hash(content) = expected /\ bound = "" /\ refused # "" ->
               Failed(refused)
          [] OTHER -> PageOf(content, stored, ask, cursor.after, results, chars)

-----------------------------------------------------------------------------
(* State *)

Codes == {"", "NO_ACTIVE_CV", "ACTIVE_CV_CHANGED", "MALFORMED_CURSOR",
          "CV_DOCUMENT_REPROCESS_REQUIRED", "SECTION_NOT_FOUND",
          "CHUNK_NOT_FOUND"}

\* What a page was read from.
Basis == [content: Contents, stored: BOOLEAN]

NoCall == [at |-> "idle", expected |-> "", page |-> Failed(""),
           basis |-> [content |-> NoDocument, stored |-> FALSE]]

NoAsk == [mode |-> "", selector |-> ""]

NoWalk == [at |-> "none", ask |-> NoAsk, next |-> Begin, shown |-> <<>>,
           bases |-> {}, code |-> ""]

CvInit ==
    /\ document \in Contents
    /\ published \in {0, 1} /\ (Structured(document) => published = 1)
    /\ draft = NoDocument
    /\ extracted = 1
    /\ owned = TRUE
    /\ call = NoCall
    /\ walk = NoWalk

Stored == published # 0

-----------------------------------------------------------------------------
(* The tool call *)

StartWalk(ask) ==
    /\ walk.at = "none"
    /\ walk' = [NoWalk EXCEPT !.at = "walking", !.ask = ask]
    /\ UNCHANGED <<sourceVars, call>>

EndInError(code) ==
    /\ call' = NoCall
    /\ walk' = [walk EXCEPT !.at = "failed", !.code = code]

\* The first session: the identity that the rest of the call relies on.
Identify ==
    /\ walk.at = "walking" /\ call.at = "idle"
    /\ \/ /\ owned
          /\ call' = [NoCall EXCEPT !.at = "identified",
                                    !.expected = Hash(document)]
          /\ UNCHANGED walk
       \/ ~ owned /\ EndInError("NO_ACTIVE_CV")
    /\ UNCHANGED sourceVars

\* A call that follows a cursor in chunk mode may leave chunk_ordinal out, and
\* then asks for ordinal 0.
AskedNow ==
    {walk.ask} \cup (IF walk.ask.mode = "chunk" /\ walk.next # Begin
                     THEN {[walk.ask EXCEPT !.selector = 0]} ELSE {})

\* The second session.
Read ==
    /\ call.at = "identified"
    /\ \/ ~ owned /\ EndInError("NO_ACTIVE_CV")
       \/ /\ owned
          /\ \E ask \in AskedNow, results \in ResultCaps, chars \in CharCaps :
               LET page == ReadPage(call.expected, document, Stored, ask,
                                    walk.next, results, chars)
               IN  \/ page.code # "" /\ EndInError(page.code)
                   \/ /\ page.code = ""
                      /\ call' = [call EXCEPT
                           !.at = "read", !.page = page,
                           !.basis = [content |-> document, stored |-> Stored]]
                      /\ UNCHANGED walk
    /\ UNCHANGED sourceVars

\* An unexpected failure is answered as such and changes nothing: the agent may
\* repeat the call.
ReadRaises ==
    /\ call.at \in {"identified", "read"}
    /\ call' = NoCall
    /\ UNCHANGED <<sourceVars, walk>>

\* The agent is shown the page, and has its cursor or the end of the walk.
Show(page, basis) ==
    walk' = [walk EXCEPT !.at = IF page.next = Begin THEN "complete" ELSE @,
                         !.next = page.next,
                         !.shown = @ \o page.shown,
                         !.bases = @ \cup {basis}]

\* The third session: the page counts only if the identity still holds.
Confirm ==
    /\ call.at = "read"
    /\ \/ /\ owned /\ Hash(document) = call.expected
          /\ Show(call.page, call.basis)
          /\ call' = NoCall
       \/ /\ ~ (owned /\ Hash(document) = call.expected)
          /\ EndInError("ACTIVE_CV_CHANGED")
    /\ UNCHANGED sourceVars

-----------------------------------------------------------------------------
(* The writers *)

\* Faulty variant: the chunk rows are not stored with the draft.
PublishDraftOnly(content) ==
    /\ owned /\ extracted <= MaxExtractions
    /\ draft' = content
    /\ extracted' = extracted + 1
    /\ UNCHANGED <<document, published, owned, call, walk>>

\* A re-extraction publishes its document draft and replaces the chunk rows, in
\* one transaction.
Publish(content) ==
    /\ owned /\ extracted <= MaxExtractions
    /\ draft' = content
    /\ extracted' = extracted + 1
    /\ published' = extracted + 1
    /\ UNCHANGED <<document, owned, call, walk>>

\* The approval promotes the document draft over the attachment's document.
Approve ==
    /\ owned /\ draft # NoDocument
    /\ document' = draft
    /\ draft' = NoDocument
    /\ UNCHANGED <<extracted, published, owned, call, walk>>

Discard ==
    /\ owned /\ draft # NoDocument
    /\ draft' = NoDocument
    /\ UNCHANGED <<document, extracted, published, owned, call, walk>>

\* The deletion of the profile takes the conversation, document and chunks.
Delete ==
    /\ owned
    /\ owned' = FALSE
    /\ document' = NoDocument /\ draft' = NoDocument /\ published' = 0
    /\ UNCHANGED <<extracted, call, walk>>

Writes == (\E d \in Documents : Publish(d)) \/ Approve \/ Discard \/ Delete

Reads ==
    (\E ask \in Asks : StartWalk(ask)) \/ Identify \/ Read \/ ReadRaises \/ Confirm

-----------------------------------------------------------------------------
(* Properties *)

CvTypeOK ==
    /\ document \in Contents /\ draft \in Contents
    /\ extracted \in 1..MaxExtractions + 1 /\ published \in 0..extracted
    /\ owned \in BOOLEAN
    /\ call.at \in {"idle", "identified", "read"}
    /\ call.expected \in {"", "canonical"}
    /\ walk.at \in {"none", "walking", "complete", "failed"}
    /\ walk.code \in Codes
    /\ \A basis \in walk.bases : basis \in Basis
    /\ Structured(document) => Stored

Identities(basis) ==
    Each(LAMBDA row : row.identity,
         Candidates(basis.content, basis.stored, walk.ask))

\* A walk that reached its end has shown the candidates of its question exactly
\* once and in source order, however the caps cut the pages and whatever was
\* published, discarded or approved meanwhile; a walk begun on a CV without a
\* document never continues on one with a document.  The exception is a section
\* or search walk during which one document of the PDF replaced another: both
\* carry the hash of the same text, and the cursor is followed into the new one.
CvWalkExact ==
    walk.at = "complete" =>
        \/ \E basis \in walk.bases :
             /\ walk.shown = Identities(basis)
             /\ Structured(basis.content) \/ walk.bases = {basis}
        \/ /\ walk.ask.mode # "chunk"
           /\ \A basis \in walk.bases : Structured(basis.content)
           /\ Cardinality(walk.bases) > 1
=============================================================================

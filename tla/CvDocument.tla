----------------------------- MODULE CvDocument -----------------------------
(***************************************************************************)
(* The deterministic part of CV extraction: how text is packed in chunks   *)
(* and batches, and how the fragments that the provider returns become an  *)
(* ordered document in which every chunk is referenced.                    *)
(*                                                                         *)
(* A text is the sequence of the sizes of its paragraphs, an entry is its  *)
(* title and the chunks it was read from.  Ordinals count from one.        *)
(***************************************************************************)
EXTENDS Ordering, SequencesExt, FiniteSetsExt

CONSTANTS
    JoinSize,       \* CHUNK_JOIN
    ChunkSize,      \* MAX_CHUNK_CHARS
    BatchSize,      \* CV_DOCUMENT_BATCH_MAX_CHARS, in the units of the text
    OutlineSize,    \* the same bound, in the units of fragments
    NoTitle         \* an entry without any content

ASSUME CvDocumentAssumption ==
    /\ JoinSize \in Nat /\ ChunkSize \in Nat /\ BatchSize \in Nat /\ OutlineSize \in Nat
    /\ ChunkSize > 0 /\ BatchSize > 0

RecoveredHeading == "Recovered content"
RecoveredTitle == "Chunk"
BlankHeading == ""

Total(sizes) == FoldLeft(LAMBDA a, b : a + b, 0, sizes)

-----------------------------------------------------------------------------
(* Chunks and batches *)

JoinedSize(sizes, group) ==
    Total([i \in DOMAIN group |-> sizes[group[i]]]) + JoinSize * (Len(group) - 1)

\* Greedy packing in order, of paragraphs in chunks and of chunks in batches.  One
\* item beyond the ceiling is a group of its own.
Placed(groups, i, sizes, ceiling) ==
    IF groups # <<>> /\ JoinedSize(sizes, Append(Last(groups), i)) <= ceiling
    THEN [groups EXCEPT ![Len(groups)] = Append(@, i)]
    ELSE Append(groups, <<i>>)
Packed(sizes, ceiling) ==
    LET groups[n \in 0..Len(sizes)] ==
            IF n = 0 THEN <<>> ELSE Placed(groups[n - 1], n, sizes, ceiling)
    IN  groups[Len(sizes)]

\* A paragraph beyond the chunk size is cut at white space; the cuts are made as late
\* as possible, so only the last piece may be short.
Pieces(paragraph) ==
    IF paragraph <= ChunkSize THEN <<paragraph>>
    ELSE [i \in 1..((paragraph + ChunkSize - 1) \div ChunkSize) |->
             IF i * ChunkSize <= paragraph THEN ChunkSize ELSE paragraph % ChunkSize]

ChunksOf(text) ==
    LET pieces == FlattenSeq([i \in DOMAIN text |-> Pieces(text[i])])
        groups == Packed(pieces, ChunkSize) IN
    [i \in DOMAIN groups |-> JoinedSize(pieces, groups[i])]

BatchesOf(chunks) == LET groups == Packed(chunks, BatchSize) IN
    [i \in DOMAIN groups |-> ToSet(groups[i])]

-----------------------------------------------------------------------------
(* Fragments *)

SourcesOf(entries) == UNION {entries[i].sources : i \in DOMAIN entries}

\* Faulty variant: an entry keeps the chunks that it names.
ClampedLoosely(entry, allowed) == entry

\* An entry that names no chunk that it was shown belongs to the first of them.
Clamped(entry, allowed) ==
    [entry EXCEPT !.sources = IF @ \cap allowed = {} THEN {Min(allowed)}
                                                     ELSE @ \cap allowed]

\* What extract_cv_document_from_chunks keeps of a fragment of one batch.
ClampedFragment(fragment, allowed) ==
    LET entries == [i \in DOMAIN fragment.entries |->
                        Clamped(fragment.entries[i], allowed)] IN
    [fragment EXCEPT !.entries = entries,
                     !.sources = IF entries = <<>> THEN @ \cap allowed
                                                   ELSE SourcesOf(entries)]

\* _fragments_char_size.
FragmentsSize(fragments) ==
    Total([i \in DOMAIN fragments |-> 1 + Len(fragments[i].entries)])

-----------------------------------------------------------------------------
(* Sections *)

\* A section at its place: ordinals and identifiers of it and of its entries.
Numbered(section, place) ==
    [section EXCEPT !.ordinal = place,
                    !.entries = [i \in DOMAIN @ |->
                        [@[i] EXCEPT !.id = <<place, i, section.entries[i].title>>]]]

Section(heading, kind, entries, sources) ==
    [heading |-> heading, kind |-> kind, sources |-> sources, ordinal |-> 0,
     entries |-> [i \in DOMAIN entries |->
         [title |-> entries[i].title, sources |-> entries[i].sources,
          id |-> <<0, i, entries[i].title>>]]]

\* sections_from_fragments: without a heading, or without entries and chunks, a
\* fragment is decoration.
SectionOf(fragment, allowed) ==
    LET kept == Where(fragment.entries, LAMBDA e : e.title # NoTitle)
        entries == [i \in DOMAIN kept |-> Clamped(kept[i], allowed)] IN
    Section(fragment.heading, fragment.kind, entries,
            IF entries = <<>> THEN fragment.sources \cap allowed ELSE SourcesOf(entries))

SectionsFrom(fragments, allowed) ==
    LET sections == [i \in DOMAIN fragments |-> SectionOf(fragments[i], allowed)]
        kept == Where(sections, LAMBDA s : s.heading # BlankHeading /\ s.sources # {}) IN
    [i \in DOMAIN kept |-> Numbered(kept[i], i)]

Alike(a, b) == a.kind = b.kind /\ a.heading = b.heading

\* Where a section starts that is not merged with the one before it, and the sections
\* that are merged in it.
Starts(sections) ==
    InOrder({i \in DOMAIN sections : i = 1 \/ ~Alike(sections[i - 1], sections[i])}, <)
Run(sections, k) ==
    LET starts == Starts(sections) IN
    SubSeq(sections, starts[k],
           IF k = Len(starts) THEN Len(sections) ELSE starts[k + 1] - 1)

\* Several sections become one; what only an empty one referenced is dropped.
Joined(run) ==
    LET entries == FlattenSeq([i \in DOMAIN run |-> run[i].entries]) IN
    IF Len(run) = 1 THEN run[1]
    ELSE Section(run[1].heading, run[1].kind, entries, SourcesOf(entries))

\* Faulty variant: the sections after a merge keep their places.
MergedKeepingPlaces(sections) ==
    [k \in DOMAIN Starts(sections) |->
        Numbered(Joined(Run(sections, k)), Starts(sections)[k])]

\* Faulty variant: the later of two like sections replaces the earlier.
MergedReplacing(sections) ==
    [k \in DOMAIN Starts(sections) |-> Numbered(Last(Run(sections, k)), k)]

\* merge_adjacent_sections.
Merged(sections) ==
    [k \in DOMAIN Starts(sections) |-> Numbered(Joined(Run(sections, k)), k)]

Covered(sections) == UNION {sections[i].sources : i \in DOMAIN sections}

\* apply_coverage_recovery: the text of every chunk that is not referenced becomes an
\* entry, in a last section of their own.
Recovered(sections, allowed) ==
    LET missing == InOrder(allowed \ Covered(sections), <)
        entries == [i \in DOMAIN missing |->
                       [title |-> RecoveredTitle, sources |-> {missing[i]}]]
        last == Len(sections)
        place == IF last > 0 /\ Alike(sections[last],
                                      [kind |-> "other", heading |-> RecoveredHeading])
                 THEN last ELSE last + 1
        all == (IF place = last THEN sections[last].entries ELSE <<>>) \o entries IN
    IF missing = <<>> THEN sections
    ELSE SubSeq(sections, 1, place - 1) \o
         <<Numbered(Section(RecoveredHeading, "other", all, SourcesOf(all)), place)>>

\* The audit at the end of build_cv_document_from_consolidated.
AuditHolds(document, allowed) == allowed \subseteq Covered(document)

\* The validators of CVSection and CVDocument.
ValidDocument(document) ==
    \A i \in DOMAIN document :
        /\ document[i].ordinal = i
        /\ document[i].entries # <<>> =>
              document[i].sources = SourcesOf(document[i].entries)

\* Entries of the sections of one kind, in their order: an item of the profile each.
OfKind(document, kind) ==
    FlattenSeq([i \in DOMAIN document |->
        IF document[i].kind = kind THEN document[i].entries ELSE <<>>])

\* project_outline: a section with the number of its entries and the range of its chunks.
ProjectedOutline(document) ==
    [i \in DOMAIN document |->
        [heading |-> document[i].heading, count |-> Len(document[i].entries),
         range |-> IF document[i].sources = {} THEN {}
                   ELSE Min(document[i].sources)..Max(document[i].sources)]]

EntriesOf(document) == FlattenSeq([i \in DOMAIN document |-> document[i].entries])
=============================================================================

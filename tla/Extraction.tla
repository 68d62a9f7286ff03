----------------------------- MODULE Extraction -----------------------------
(***************************************************************************)
(* The extraction pipelines.  A CV goes through chunks, one structured     *)
(* call per batch, the consolidation of the fragments, the document, one   *)
(* call per batch of its entries for the skills, and the projection of the *)
(* profile; a job description through one call.  Every call has one        *)
(* provider retry and one repair, and its answer is the provider's choice. *)
(***************************************************************************)
EXTENDS CvDocument

CONSTANTS
    Texts,            \* texts a PDF may hold; the empty one is not meaningful
    BatchAnswers,     \* [sections, contacts, name] for a batch of chunks
    OutlineAnswers,   \* [sections, name] for a consolidation
    SkillAnswers,     \* assertions for a batch of entries
    JobAnswers,       \* [required, preferred, grounded] for a job description
    Canonical,        \* canonical key of every skill label
    Structural,       \* labels that are a heading, a group or metadata
    Compound,         \* labels that enumerate several skills
    LongTitles,       \* entries that fill two source records
    BulkyTitles,      \* entries whose ids and headings alone exceed a skill batch
    SkillBatchSize,   \* source records of one skill batch
    NoKey             \* the key of a label that names no skill

\* What the schemas of the answers accept.
EntryFields == [title: STRING, sources: SUBSET Int]
FragmentFields ==
    [heading: STRING, kind: STRING, entries: Seq(EntryFields), sources: SUBSET Int]
AssertionFields ==
    [label: DOMAIN Canonical, sources: Seq(Nat), quoted: Nat, level: STRING]

ASSUME ExtractionAssumption ==
    /\ Texts \subseteq Seq(Nat)
    /\ \A answer \in BatchAnswers \cup OutlineAnswers :
         answer.sections \in Seq(FragmentFields) /\ answer.name \in STRING
    /\ \A answer \in BatchAnswers : IsFiniteSet(answer.contacts)
    /\ SkillAnswers \subseteq Seq(AssertionFields)
    /\ \A answer \in JobAnswers :
         answer.required \in Seq(DOMAIN Canonical) /\ answer.preferred \in Seq(DOMAIN Canonical)
    /\ SkillBatchSize \in Nat

VARIABLES
    stage,       \* where the pipeline is
    call,        \* attempts and repairs of the structured call under way
    outcome,     \* "none", "published" or the failure code
    chunks,      \* sizes of the chunks
    batches,     \* chunks, then entries, of every batch
    batch,       \* number of the batch that is asked for
    fragments,   \* clamped fragments of the batches so far
    stack,       \* consolidate_fragments: one frame per activation
    document,    \* the CV document
    identity,    \* candidate name and contacts found so far
    skills       \* assertions accepted so far, then the skills; both for a job

extractionVars == <<stage, call, outcome, chunks, batches, batch, fragments, stack,
                    document, identity, skills>>

MAX_PROVIDER_RETRIES == 1
MAX_REPAIR_ATTEMPTS == 1

Failures == {"MALFORMED_PDF", "NO_EXTRACTABLE_TEXT", "PROVIDER_TIMEOUT",
             "PROVIDER_RATE_LIMIT", "PROVIDER_ERROR", "INVALID_STRUCTURED_OUTPUT",
             "COVERAGE_AUDIT_FAILED"}
Stages == {"reading", "batches", "consolidating", "building", "merging", "recovering",
           "sourcing", "skills", "projecting", "job", "ended"}
NewCall == [attempt |-> 0, repairs |-> 0]
NoIdentity == [name |-> "none", contacts |-> {}]

Allowed == 1..Len(chunks)
Outline == Head(stack).items

\* One activation of consolidate_fragments: what it has to merge, the name and the left
\* half found so far, and the half of its caller that it is.
Frame(items, name, at) ==
    [items |-> items, name |-> name, left |-> <<>>, merged |-> FALSE, at |-> at]

FirstName(a, b) == IF a = "none" THEN b ELSE a

ExtractionInit ==
    /\ stage \in {"reading", "job"}
    /\ call = NewCall
    /\ outcome = "none"
    /\ chunks = <<>> /\ batches = <<>> /\ batch = 1 /\ fragments = <<>> /\ stack = <<>>
    /\ document = <<>> /\ identity = NoIdentity /\ skills = <<>>

Fail(code) ==
    /\ outcome' = code
    /\ stage' = "ended"
    /\ UNCHANGED <<call, chunks, batches, batch, fragments, stack, document, identity,
                   skills>>

-----------------------------------------------------------------------------
(* One structured call *)

\* A consolidation asks only for a frame that fits, and that has something to merge.
Asks ==
    \/ stage \in {"batches", "skills", "job"}
    \/ /\ stage = "consolidating"
       /\ FragmentsSize(Outline) <= OutlineSize
       /\ Len(Outline) > 1 \/ Head(stack).merged

\* Faulty variant: the call starts over when its retry is spent.
CallTimesOutFreely ==
    /\ Asks
    /\ call' = [call EXCEPT !.attempt = (@ + 1) % (MAX_PROVIDER_RETRIES + 1)]
    /\ UNCHANGED <<stage, outcome, chunks, batches, batch, fragments, stack, document,
                   identity, skills>>

\* invoke_with_provider_retry: only a timeout or a rate limit is tried again.
CallTimesOut ==
    /\ Asks
    /\ IF call.attempt < MAX_PROVIDER_RETRIES
       THEN /\ call' = [call EXCEPT !.attempt = @ + 1]
            /\ UNCHANGED <<stage, outcome, chunks, batches, batch, fragments, stack, document,
                           identity, skills>>
       ELSE Fail("PROVIDER_TIMEOUT") \/ Fail("PROVIDER_RATE_LIMIT")

CallErrors == Asks /\ Fail("PROVIDER_ERROR")

\* An answer that its schema, or the guard of its stage, does not accept.  The repair
\* has its provider retry again.
CallInvalid ==
    IF call.repairs < MAX_REPAIR_ATTEMPTS
    THEN /\ call' = [attempt |-> 0, repairs |-> call.repairs + 1]
         /\ UNCHANGED <<stage, outcome, chunks, batches, batch, fragments, stack, document,
                        identity, skills>>
    ELSE Fail("INVALID_STRUCTURED_OUTPUT")

SchemaFails == Asks /\ CallInvalid

-----------------------------------------------------------------------------
(* The CV document *)

\* _parse_and_chunk_pdf: the layout mode of the parser is preferred.
ReadPdf ==
    /\ stage = "reading"
    /\ \/ Fail("MALFORMED_PDF")
       \/ \E layout \in Texts, normal \in Texts :
            LET text == IF layout # <<>> THEN layout ELSE normal IN
            IF text = <<>> THEN Fail("NO_EXTRACTABLE_TEXT")
            ELSE /\ chunks' = ChunksOf(text)
                 /\ batches' = BatchesOf(chunks')
                 /\ stage' = "batches"
                 /\ UNCHANGED <<call, outcome, batch, fragments, stack, document,
                                identity, skills>>

\* The first name wins; contacts must come from a chunk of the batch.
Identified(answer) ==
    [name |-> FirstName(identity.name, answer.name),
     contacts |-> identity.contacts \cup
                  {c \in answer.contacts : c.source \in batches[batch]}]

AnswerBatch(answer) ==
    /\ stage = "batches"
    /\ fragments' = fragments \o
          [i \in DOMAIN answer.sections |->
              ClampedFragment(answer.sections[i], batches[batch])]
    /\ identity' = Identified(answer)
    /\ call' = NewCall
    /\ IF batch < Len(batches)
       THEN batch' = batch + 1 /\ UNCHANGED <<stage, stack>>
       ELSE /\ batch' = 1
            /\ stage' = "consolidating"
            /\ stack' = <<Frame(fragments', "none", "whole")>>
    /\ UNCHANGED <<outcome, chunks, batches, document, skills>>

\* A frame is done with these items: its parent goes on with the right half or, when
\* both are there, with the whole.  The name that a consolidation gives comes before
\* those of the batches.
Returns(items, name) ==
    LET parent == Head(Tail(stack))
        rest == Tail(Tail(stack))
        mid == Len(parent.items) \div 2 IN
    IF Len(stack) = 1
    THEN /\ stage' = "building"
         /\ stack' = <<Frame(items, name, "whole")>>
         /\ identity' = [identity EXCEPT !.name = FirstName(name, @)]
    ELSE /\ UNCHANGED <<stage, identity>>
         /\ stack' =
              IF Head(stack).at = "left"
              THEN <<Frame(SubSeq(parent.items, mid + 1, Len(parent.items)), "none",
                           "right"),
                     [parent EXCEPT !.left = items, !.name = name]>> \o rest
              ELSE <<[parent EXCEPT !.items = parent.left \o items, !.merged = TRUE,
                                    !.left = <<>>,
                                    !.name = FirstName(parent.name, name)]>> \o rest

\* Two halves first; what is still too large after them, or cannot be halved, is
\* returned as it is.
Consolidate ==
    /\ stage = "consolidating" /\ ~Asks
    /\ IF Len(Outline) <= 1 \/ Head(stack).merged
       THEN Returns(Outline, Head(stack).name)
       ELSE /\ stack' = <<Frame(SubSeq(Outline, 1, Len(Outline) \div 2), "none", "left")>>
                        \o stack
            /\ UNCHANGED <<stage, identity>>
    /\ UNCHANGED <<call, outcome, chunks, batches, batch, fragments, document, skills>>

AnswerOutline(answer) ==
    /\ stage = "consolidating" /\ Asks
    /\ Returns(answer.sections, answer.name)
    /\ call' = NewCall
    /\ UNCHANGED <<outcome, chunks, batches, batch, fragments, document, skills>>

\* One source record per entry, or several for one that is too long.
RecordsOf(entries) ==
    FlattenSeq([i \in DOMAIN entries |->
        IF entries[i].title \in LongTitles THEN <<i, i>> ELSE <<i>>])

\* build_source_batches: the records, packed in order.
SkillBatchesOf(entries) ==
    LET records == RecordsOf(entries)
        n == (Len(records) + SkillBatchSize - 1) \div SkillBatchSize IN
    [b \in 1..n |-> {records[i] : i \in {j \in DOMAIN records :
                        (j - 1) \div SkillBatchSize = b - 1}}]

\* What build_source_batches refuses: a bound that holds no record, an entry that does
\* not fit however it is cut, two entries of one id.
SourceRefused(entries) ==
    \/ SkillBatchSize = 0
    \/ \E i \in DOMAIN entries : entries[i].title \in BulkyTitles
    \/ \E i, j \in DOMAIN entries : i # j /\ entries[i].id = entries[j].id

\* build_cv_document_from_consolidated: the sections, their merges, the recovery.
BuildSections ==
    /\ stage = "building"
    /\ document' = SectionsFrom(Outline, Allowed)
    /\ stage' = "merging"
    /\ UNCHANGED <<call, outcome, chunks, batches, batch, fragments, stack, identity,
                   skills>>

MergeSections ==
    /\ stage = "merging"
    /\ document' = Merged(document)
    /\ stage' = "recovering"
    /\ UNCHANGED <<call, outcome, chunks, batches, batch, fragments, stack, identity,
                   skills>>

RecoverSections ==
    LET built == Recovered(document, Allowed) IN
    /\ stage = "recovering"
    /\ IF ~AuditHolds(built, Allowed) THEN Fail("COVERAGE_AUDIT_FAILED")
       ELSE IF ~ValidDocument(built) THEN Fail("INVALID_STRUCTURED_OUTPUT")
       ELSE /\ document' = built
            /\ stage' = "sourcing"
            /\ UNCHANGED <<call, outcome, chunks, batches, batch, fragments, stack,
                           identity, skills>>

-----------------------------------------------------------------------------
(* Skills *)

\* A document without entries has no batch to ask for.
BatchSkills ==
    LET entries == EntriesOf(document) IN
    /\ stage = "sourcing"
    /\ IF SourceRefused(entries) THEN Fail("INVALID_STRUCTURED_OUTPUT")
       ELSE /\ batches' = SkillBatchesOf(entries)
            /\ stage' = IF entries = <<>> THEN "projecting" ELSE "skills"
            /\ UNCHANGED <<call, outcome, chunks, batch, fragments, stack, document,
                           identity, skills>>

\* An assertion has a label, the entries it comes from and the entry that holds the
\* text it quotes.
SoundLabel(label) == label \notin Structural \cup Compound /\ Canonical[label] # NoKey

\* _guard_batch.
Guard(answer, entries) ==
    /\ \A i \in DOMAIN answer :
         /\ ToSet(answer[i].sources) \subseteq entries
         /\ \A j, k \in DOMAIN answer[i].sources :
              j < k => answer[i].sources[j] < answer[i].sources[k]
         /\ answer[i].quoted \in ToSet(answer[i].sources)
         /\ SoundLabel(answer[i].label)
    /\ \A i, j \in DOMAIN answer :
         i # j => Canonical[answer[i].label] # Canonical[answer[j].label]

AnswerSkills(answer) ==
    /\ stage = "skills"
    /\ IF Guard(answer, batches[batch])
       THEN /\ skills' = skills \o answer
            /\ call' = NewCall
            /\ IF batch < Len(batches) THEN batch' = batch + 1 /\ stage' = stage
               ELSE batch' = 1 /\ stage' = "projecting"
            /\ UNCHANGED <<outcome, chunks, batches, fragments, stack, document, identity>>
       ELSE CallInvalid

\* _aggregate: one skill per key, in the order of the first entry that supports it.
Aggregated ==
    LET keys == {Canonical[skills[i].label] : i \in DOMAIN skills}
        Of(key) == {i \in DOMAIN skills : Canonical[skills[i].label] = key}
        First(key) == Min({Min(ToSet(skills[i].sources)) : i \in Of(key)})
        Levels(key) == {skills[i].level : i \in Of(key)} \ {"unknown"}
        order == InOrder(keys, LAMBDA a, b :
                    \/ First(a) < First(b)
                    \/ First(a) = First(b) /\ Min(Of(a)) < Min(Of(b))) IN
    [k \in DOMAIN order |->
        [key |-> order[k],
         quoted |-> {skills[i].quoted : i \in Of(order[k])},
         sources |-> UNION {ToSet(skills[i].sources) : i \in Of(order[k])},
         level |-> IF Cardinality(Levels(order[k])) = 1
                   THEN CHOOSE l \in Levels(order[k]) : TRUE ELSE "unknown"]]

\* Faulty variant: the first contact is taken.
FirstContact ==
    IF identity.contacts = {} THEN {}
    ELSE {(CHOOSE c \in identity.contacts : TRUE).value}

\* A contact is taken when its evidence is in its chunk and there is only one.
Contacts ==
    LET values == {c.value : c \in {d \in identity.contacts : d.grounded}} IN
    IF Cardinality(values) = 1 THEN values ELSE {}

\* guard_optional_identity_fields: only what the text holds.
GroundedName(name) == IF name = "invented" THEN "none" ELSE name

\* project_candidate_profile, from the document, the skills and the contacts.
Project ==
    /\ stage = "projecting"
    /\ skills' = Aggregated
    /\ identity' = [name |-> GroundedName(identity.name), contacts |-> Contacts,
                    experiences |-> OfKind(document, "experience"),
                    outline |-> ProjectedOutline(document)]
    /\ stage' = "ended" /\ outcome' = "published"
    /\ UNCHANGED <<call, chunks, batches, batch, fragments, stack, document>>

-----------------------------------------------------------------------------
(* A job description *)

JobLabels(answer) == answer.required \o answer.preferred

\* guard_extracted_job_post: evidence in the text, no label that enumerates skills, and
\* each skill that has a key once and in one group.
GuardJob(answer) ==
    LET labels == JobLabels(answer)
        keyed == {i \in DOMAIN labels : Canonical[labels[i]] # NoKey} IN
    /\ answer.grounded
    /\ \A i \in DOMAIN labels : labels[i] \notin Compound
    /\ \A i, j \in keyed : i # j => Canonical[labels[i]] # Canonical[labels[j]]

\* _normalize_skill_rows raises on a label without a key; the repair is the same.
Normalizes(answer) ==
    \A label \in ToSet(JobLabels(answer)) : Canonical[label] # NoKey

\* extracted_to_job_post: the skills of both groups under their canonical keys.
JobPost(answer) ==
    [required |-> [i \in DOMAIN answer.required |-> Canonical[answer.required[i]]],
     preferred |-> [i \in DOMAIN answer.preferred |-> Canonical[answer.preferred[i]]]]

AnswerJob(answer) ==
    /\ stage = "job"
    /\ IF GuardJob(answer) /\ Normalizes(answer)
       THEN /\ skills' = JobPost(answer)
            /\ stage' = "ended" /\ outcome' = "published"
            /\ UNCHANGED <<call, chunks, batches, batch, fragments, stack, document,
                           identity>>
       ELSE CallInvalid

ExtractionStep ==
    \/ CallTimesOut \/ CallErrors \/ SchemaFails
    \/ ReadPdf \/ Consolidate \/ BuildSections \/ MergeSections \/ RecoverSections
    \/ BatchSkills \/ Project
    \/ \E answer \in BatchAnswers : AnswerBatch(answer)
    \/ \E answer \in OutlineAnswers : AnswerOutline(answer)
    \/ \E answer \in SkillAnswers : AnswerSkills(answer)
    \/ \E answer \in JobAnswers : AnswerJob(answer)

\* A call comes back: the clients raise after a time limit, the one that
\* shopaikey_embeddings sets or the default of the chat client's SDK.
ExtractionSpec ==
    /\ ExtractionInit /\ [][ExtractionStep]_extractionVars
    /\ WF_extractionVars(ExtractionStep)

-----------------------------------------------------------------------------
(* Properties *)

\* Type invariant of a pipeline.
ExtractionTypeOK ==
    /\ stage \in Stages /\ outcome \in Failures \cup {"none", "published"}
    /\ call.attempt \in 0..MAX_PROVIDER_RETRIES
    /\ call.repairs \in 0..MAX_REPAIR_ATTEMPTS
    /\ (stage = "ended") = (outcome # "none")
    /\ batch \in Nat \ {0}
    /\ \A i \in DOMAIN fragments :
         \A j \in DOMAIN fragments[i].entries :
             fragments[i].entries[j].sources \in (SUBSET Allowed) \ {{}}

\* Titles of the content of the outline: what has a heading, some text and a source.
OutlineTitles ==
    FlattenSeq([i \in DOMAIN Outline |->
        IF Outline[i].heading = BlankHeading THEN <<>>
        ELSE Where([j \in DOMAIN Outline[i].entries |-> Outline[i].entries[j].title],
                   LAMBDA title : title # NoTitle)])

\* A document that was built loses nothing: every chunk of the text is referenced, every
\* entry of the outline is in it, once and in order, and what follows them is recovered
\* text (sections_from_fragments, merge_adjacent_sections, apply_coverage_recovery).
DocumentKeepsOutline ==
    stage \in {"sourcing", "skills", "projecting"} =>
        LET entries == EntriesOf(document) IN
        /\ Covered(document) = Allowed
        /\ Len(entries) >= Len(OutlineTitles)
        /\ \A i \in DOMAIN entries :
             entries[i].title = IF i <= Len(OutlineTitles) THEN OutlineTitles[i]
                                                           ELSE RecoveredTitle
        /\ \A i, j \in DOMAIN entries : i # j => entries[i].id # entries[j].id

\* Whatever outline the provider returns, a document is built from it, and it is valid:
\* the merges and the recovery renumber what they move.  The exception is an outline
\* that ends in a section of the recovery's own heading without any entry; what only
\* that section referenced is lost, and the audit refuses the document.
DocumentIsBuilt ==
    [][stage = "recovering" =>
         \/ outcome' = "none"
         \/ /\ outcome' = "COVERAGE_AUDIT_FAILED"
            /\ document # <<>>
            /\ Last(document).heading = RecoveredHeading
            /\ Last(document).entries = <<>>]_extractionVars

\* What is published is supported by the text: a skill stands once, its sources are
\* entries of the document and hold what it quotes, a name is never invented, a contact
\* is the only one that its evidence supports; a skill of a job has a key, and one group.
PublishedGrounded ==
    outcome = "published" =>
        IF chunks = <<>>
        THEN LET keys == skills.required \o skills.preferred IN
             Cardinality(ToSet(keys)) = Len(keys) /\ NoKey \notin ToSet(keys)
        ELSE /\ \A i, j \in DOMAIN skills : i # j => skills[i].key # skills[j].key
             /\ \A i \in DOMAIN skills :
                  /\ skills[i].key # NoKey
                  /\ skills[i].quoted \subseteq skills[i].sources
                  /\ skills[i].sources \subseteq DOMAIN EntriesOf(document)
             /\ identity.name # "invented"
             /\ UNION {identity.outline[i].range : i \in DOMAIN identity.outline} = Allowed
             /\ \A v, w \in identity.contacts : v = w
             /\ identity.contacts \subseteq
                  {c.value : c \in {d \in UNION {a.contacts : a \in BatchAnswers} :
                                        d.grounded}}

\* An extraction ends, published or with its failure: retries, repairs and the halving
\* of an outline are bounded.
ExtractionEnds == <>(stage = "ended")
=============================================================================

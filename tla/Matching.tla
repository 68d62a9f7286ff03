------------------------------ MODULE Matching ------------------------------
(***************************************************************************)
(* match_jobs (services/matching.py) while other requests save, replace    *)
(* and delete jobs and approve profiles: the profile, the consistency      *)
(* gate, the embedding, the vector index and the facts are read one after  *)
(* another, each in its own session.                                       *)
(***************************************************************************)
EXTENDS SavedJobs, Scoring

CONSTANTS
    SavedContent,       \* the text of each job saved before the request
    Seeds,              \* contents of the taxonomy file
    Extraction(_, _),   \* the facts of a job in the n-th extraction stored
    ProfileAt(_),       \* profile and preferences of a revision, as approved
    Names,              \* raw skill names
    Similarity(_, _),   \* cosine of the embeddings of a candidate and a job text
    IdOrder,            \* the order of job ids, as pairs
    Limits,             \* limits that a caller asks for
    MaxLimit,           \* MATCH_LIMIT_MAX
    RetrievalSize       \* MAX_VECTOR_RETRIEVAL_K

\* Ids are UUIDs, and ordered as texts.
ASSUME MatchingAssumption ==
    /\ MaxLimit \in Nat \ {0} /\ RetrievalSize \in Nat \ {0}
    /\ IsFiniteSet(Jobs)
    /\ \A name \in Names : name \in Seq(STRING)
    /\ \A j \in DOMAIN SavedContent : j \in Jobs /\ SavedContent[j] \in Contents
    /\ \A i, j \in Jobs :
         /\ ~ (<<i, j>> \in IdOrder /\ <<j, i>> \in IdOrder)
         /\ i # j => <<i, j>> \in IdOrder \/ <<j, i>> \in IdOrder
    /\ \A i, j, k \in Jobs :
         <<i, j>> \in IdOrder /\ <<j, k>> \in IdOrder => <<i, k>> \in IdOrder

VARIABLES
    seed,               \* the taxonomy file
    selected,           \* the state of the selected profile, or none
    matching            \* control state and locals of the request

matchingVars == <<savedJobsVars, seed, selected, matching>>

MatchStates == {"idle", "loading", "gating", "comparing", "embedding", "querying",
                "hydrating", "done"}

Outcomes == {"none", "ok", "INVALID_MATCH_LIMIT", "MATCH_JOBS_FAILED",
             "ACTIVE_PROFILE_MISSING", "PROFILE_NOT_READY", "EMBEDDING_FAILED",
             "NEO4J_UNAVAILABLE", "NEO4J_REBUILD_REQUIRED"}

Asked == [at |-> "idle", limit |-> 0, profile |-> 0, gated |-> 0,
          snapshot |-> [j \in Jobs |-> NoNode], found |-> {}, answer |-> <<>>,
          code |-> "none", quiet |-> TRUE, taxonomy |-> <<>>]

\* The jobs saved before were processed once and projected.
MatchingInit ==
    /\ IngestionInit
    /\ jobs = [j \in Jobs |->
                 IF j \in DOMAIN SavedContent
                 THEN [status |-> "processed", content |-> SavedContent[j],
                       scorable |-> TRUE, revision |-> 2, version |-> 1]
                 ELSE EmptyRow]
    /\ nodes = Projection
    /\ evaluations = {}
    /\ profileRevision = 1 /\ candidate = 1
    /\ seed \in Seeds
    /\ selected \in {"none", "pending", "ready"}
    /\ matching = Asked

-----------------------------------------------------------------------------
(* What the rows hold *)

\* Skills are stored under the keys that this file gives them.
Taxonomy == matching.taxonomy

JobFacts(j, version) ==
    LET facts == Extraction(j, version) IN
    [facts EXCEPT !.required = Normalize(Taxonomy, @),
                  !.preferred = Normalize(Taxonomy, @)]

ApprovedProfile(revision) ==
    [ProfileAt(revision) EXCEPT !.skills = Normalize(Taxonomy, @)]

Clamped(score) == Max({0, Min({One, score})})

Semantic(revision, j, version) ==
    Clamped(Similarity(CandidateText(ApprovedProfile(revision)),
                       JobText(JobFacts(j, version))))

-----------------------------------------------------------------------------
(* The request *)

MatchAt(state) == matching.at = state
OthersSame == UNCHANGED <<savedJobsVars, seed, selected>>

Answered(code, answer) ==
    matching' = [matching EXCEPT !.at = "done", !.code = code, !.answer = answer,
                                 !.found = {}, !.taxonomy = <<>>,
                                 !.snapshot = Asked.snapshot]
Refused(code) == Answered(code, <<>>)

\* The tool checks the limit and loads the taxonomy before anything is read.
AskMatch(limit) ==
    /\ MatchAt("idle")
    /\ IF limit \notin 1..MaxLimit THEN Refused("INVALID_MATCH_LIMIT")
       ELSE IF ~Accepted(seed) THEN Refused("MATCH_JOBS_FAILED")
       ELSE matching' = [matching EXCEPT !.at = "loading", !.limit = limit,
                                         !.taxonomy = Loaded(seed)]
    /\ OthersSame

LoadApproved ==
    /\ MatchAt("loading")
    /\ CASE selected = "none" -> Refused("ACTIVE_PROFILE_MISSING")
         [] selected = "pending" -> Refused("PROFILE_NOT_READY")
         [] selected = "ready" ->
              matching' = [matching EXCEPT !.at = "gating",
                                           !.profile = profileRevision]
    /\ OthersSame

ReadSourceRevisions ==
    /\ MatchAt("gating")
    /\ matching' = [matching EXCEPT !.at = "comparing", !.snapshot = Projection,
                                    !.gated = profileRevision]
    /\ OthersSame

GraphAgrees(snapshot, revision) ==
    /\ candidate = revision
    /\ \A j \in Jobs : nodes[j].revision = snapshot[j].revision

CompareGraph ==
    /\ MatchAt("comparing")
    /\ \/ "graph" \in Faults /\ Refused("NEO4J_UNAVAILABLE")
       \/ IF GraphAgrees(matching.snapshot, matching.gated)
          THEN matching' = [matching EXCEPT !.at = "embedding"]
          ELSE Refused("NEO4J_REBUILD_REQUIRED")
    /\ OthersSame

EmbedCandidate ==
    /\ MatchAt("embedding")
    /\ \/ "provider" \in Faults /\ Refused("EMBEDDING_FAILED")
       \/ matching' = [matching EXCEPT !.at = "querying"]
    /\ OthersSame

Scorable(snapshot) == {j \in Jobs : snapshot[j] # NoNode}

\* The nodes that are most similar, as many as k, whatever is equally similar.
Nearest(k) ==
    LET indexed == {j \in Jobs : nodes[j] # NoNode}
        semantic == [j \in indexed |-> Semantic(matching.profile, j, nodes[j].version)] IN
    {{[id |-> j, semantic |-> semantic[j]] : j \in top} :
       top \in {near \in kSubset(Min({k, Cardinality(indexed)}), indexed) :
                  \A a \in near, b \in indexed \ near : semantic[a] >= semantic[b]}}

\* Faulty variant: no more candidates than the caller wants results.
AsManyAsAnswered(gated) == Min({matching.limit, Cardinality(gated)})

RetrievalCount(gated) == Min({RetrievalSize, Cardinality(gated)})

\* Faulty variant: whatever the index returns.
AnyHits(found, gated) == TRUE

\* An id outside of the gated set raises JobRetrievalError.
KnownHits(found, gated) == \A hit \in found : hit.id \in gated

\* The index is not asked when there is no scorable job.
QueryIndex ==
    LET gated == Scorable(matching.snapshot) IN
    /\ MatchAt("querying")
    /\ \/ "graph" \in Faults /\ gated # {} /\ Refused("NEO4J_UNAVAILABLE")
       \/ \E found \in Nearest(RetrievalCount(gated)) :
            IF KnownHits(found, gated)
            THEN matching' = [matching EXCEPT !.at = "hydrating", !.found = found]
            ELSE Refused("NEO4J_REBUILD_REQUIRED")
    /\ OthersSame

Scored(found) ==
    {Score(Taxonomy, ApprovedProfile(matching.profile),
           [id |-> hit.id, semantic |-> hit.semantic,
            facts |-> JobFacts(hit.id, jobs[hit.id].version)]) : hit \in found}

\* Facts and quality come from SQLite; scoring suspends nowhere.
HydrateAndScore ==
    /\ MatchAt("hydrating")
    /\ IF \A hit \in matching.found : ScorableRow(jobs[hit.id])
       THEN Answered("ok", Ranked(Scored(matching.found), matching.limit, IdOrder))
       ELSE Refused("NEO4J_REBUILD_REQUIRED")
    /\ OthersSame

MatchStep ==
    \/ \E limit \in Limits : AskMatch(limit)
    \/ LoadApproved \/ ReadSourceRevisions \/ CompareGraph \/ EmbedCandidate
    \/ QueryIndex \/ HydrateAndScore

\* The other requests; an approval makes the selected profile ready.
OtherStep ==
    /\ SavedJobsNext
    /\ selected' = IF profileRevision' = profileRevision THEN selected ELSE "ready"
    /\ matching' = [matching EXCEPT !.quiet =
         @ /\ (MatchAt("idle") \/ MatchAt("done")
               \/ UNCHANGED <<jobs, nodes, profileRevision, candidate>>)]
    /\ UNCHANGED seed

MatchingNext == MatchStep \/ OtherStep

MatchingSpec == MatchingInit /\ [][MatchingNext]_matchingVars

-----------------------------------------------------------------------------
(* Properties *)

MatchingTypeOK ==
    /\ JobStoreTypeOK /\ IngestionTypeOK
    /\ selected \in {"none", "pending", "ready"}
    /\ matching.at \in MatchStates /\ matching.code \in Outcomes
    /\ {hit.id : hit \in matching.found} \subseteq Scorable(matching.snapshot)
    /\ Len(matching.answer) <= Min({matching.limit, RetrievalSize})

TrueScore(j) ==
    Score(Taxonomy, ApprovedProfile(profileRevision),
          [id |-> j, semantic |-> Semantic(profileRevision, j, jobs[j].version),
           facts |-> JobFacts(j, jobs[j].version)])

\* The answer that the rows determine: of the jobs nearest to the candidate, those
\* that no other one beats, in order.
IsBest(answer) ==
    LET all == Scorable(Projection)
        score == [j \in all |-> TrueScore(j)] IN
    \E near \in kSubset(Min({RetrievalSize, Cardinality(all)}), all) :
        /\ \A a \in near, b \in all \ near : score[a].semantic >= score[b].semantic
        /\ Len(answer) = Min({matching.limit, Cardinality(near)})
        /\ \A i \in DOMAIN answer :
             /\ answer[i].id \in near /\ answer[i] = score[answer[i].id]
             /\ \A j \in near : \/ \E k \in 1..i : answer[k].id = j
                                \/ Beats(answer[i], score[j], IdOrder)

\* A request that nothing overtakes is refused for a rebuild only when the graph
\* differs from SQLite, and answers with the best jobs that SQLite knows, scored by
\* what SQLite holds although the vectors come from the graph.
MatchIsCurrent ==
    [][matching.at # "done" /\ matching'.at = "done" /\ matching.quiet =>
         /\ matching'.code = "NEO4J_REBUILD_REQUIRED" =>
              ~GraphAgrees(Projection, profileRevision)
         /\ matching'.code = "ok" =>
              /\ GraphAgrees(Projection, profileRevision)
              /\ IsBest(matching'.answer)]_matchingVars

\* The profiles that a candidate has after one more skill, at either end of the list,
\* or after one that is no longer excluded.
MoreSkilled(profile) ==
    LET named == {Normalize(Taxonomy, <<[name |-> n, excluded |-> FALSE]>>) :
                    n \in {name \in Names : Nameable(name)}} IN
    {[profile EXCEPT !.skills = more \o @] : more \in named}
    \cup {[profile EXCEPT !.skills = @ \o more] : more \in named}
    \cup {[profile EXCEPT !.skills[i].excluded = FALSE] : i \in DOMAIN profile.skills}

\* Another skill lowers the skill score of no job and adds nothing to what its skill
\* map says is missing, whatever the skill is related to.
AnotherSkillNeverHurts ==
    MatchAt("hydrating") =>
        \A hit \in {h \in matching.found : ScorableRow(jobs[h.id])} :
            LET facts == JobFacts(hit.id, jobs[hit.id].version)
                profile == ApprovedProfile(matching.profile)
                score == SkillCoverage(Taxonomy, profile, facts).score IN
            \A better \in MoreSkilled(profile) :
                /\ score # Absent => SkillCoverage(Taxonomy, better, facts).score >= score
                /\ \A old \in SkillMap(Taxonomy, profile, facts),
                      new \in SkillMap(Taxonomy, better, facts) :
                     /\ new.missing_required <= old.missing_required
                     /\ new.missing_preferred <= old.missing_preferred

\* Two names share a key only when they are written alike or are labels of one seed
\* skill: an unknown name never takes the identity of a seed skill, and with it the
\* relationships that were approved for that one.
IdentitiesDistinct ==
    MatchAt("loading") =>
        \A a, b \in {n \in Names : Nameable(n)} :
            CanonicalKey(Taxonomy, a) = CanonicalKey(Taxonomy, b) =>
                Fingerprint(a) = Fingerprint(b) \/ (Known(Taxonomy, a) /\ Known(Taxonomy, b))
=============================================================================

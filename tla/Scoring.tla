------------------------------ MODULE Scoring ------------------------------
(***************************************************************************)
(* The deterministic part of matching: the identity of a skill in the      *)
(* approved taxonomy, the match of the skills of a job with those of a     *)
(* candidate, the components of a score and the order of the scored jobs.  *)
(*                                                                         *)
(* A raw name or place is the sequence of its words, case folded, where a  *)
(* word of punctuation is empty.  Components count in parts of One, the    *)
(* weights in twentieths.                                                  *)
(***************************************************************************)
EXTENDS Ordering, SequencesExt, FiniteSetsExt

CONSTANTS
    One,            \* the score 1.0, a multiple of the denominators that occur
    Absent,         \* a fact that was not stated
    MaxItems        \* MAX_SKILL_MAP_ITEMS

ASSUME ScoringAssumption ==
    One \in Nat /\ One % 5 = 0 /\ MaxItems \in Nat /\ Absent \notin Int

Total(parts) ==
    LET sum[n \in 0..Len(parts)] == IF n = 0 THEN 0 ELSE sum[n - 1] + parts[n]
    IN  sum[Len(parts)]

Words(raw) == Where(raw, LAMBDA word : word # "")

-----------------------------------------------------------------------------
(* The taxonomy *)

\* comparison_fingerprint keeps no separator.
Join(text, word) == text \o word
Fingerprint(raw) ==
    LET print[n \in 0..Len(raw)] == IF n = 0 THEN "" ELSE Join(print[n - 1], raw[n])
    IN  print[Len(raw)]

\* Faulty variant: the aliases and the display name only.
LabelsShown(skill) == {skill.display} \cup ToSet(skill.aliases)

Labels(skill) == {skill.key, skill.display} \cup ToSet(skill.aliases)

Keys(seed) == {skill.key : skill \in ToSet(seed.skills)}

AliasIndex(seed) ==
    UNION {{[print |-> Fingerprint(label), key |-> skill.key] : label \in Labels(skill)} :
               skill \in ToSet(seed.skills)}

\* load_skill_taxonomy raises SkillTaxonomyError otherwise.
Accepted(seed) ==
    /\ Cardinality(Keys(seed)) = Len(seed.skills)
    /\ \A a, b \in AliasIndex(seed) :
         a.print # "" /\ (a.print = b.print => a.key = b.key)
    /\ \A edge \in ToSet(seed.edges) :
         /\ edge.from \in Keys(seed) /\ edge.to \in Keys(seed)
         /\ edge.from # edge.to
         /\ edge.weight \in 1..One
    /\ \A i, k \in DOMAIN seed.edges :
         i # k => \E part \in {"from", "to", "source"} :
                    seed.edges[i][part] # seed.edges[k][part]

Loaded(seed) == [index |-> AliasIndex(seed), keys |-> Keys(seed),
                 edges |-> ToSet(seed.edges)]

Nameable(raw) == Fingerprint(raw) # ""

Known(taxonomy, raw) == \E entry \in taxonomy.index : entry.print = Fingerprint(raw)

\* The key of an unknown name joins its words with underscores.
CanonicalKey(taxonomy, raw) ==
    IF Known(taxonomy, raw)
    THEN (CHOOSE entry \in taxonomy.index : entry.print = Fingerprint(raw)).key
    ELSE Words(raw)

RelatedTo(taxonomy, key) == {edge.to : edge \in {e \in taxonomy.edges : e.from = key}}

\* A skill is stored under its key, the rest of the assertion as it was.
Normalize(taxonomy, skills) ==
    [i \in DOMAIN skills |->
        [part \in DOMAIN skills[i] \cup {"key"} |->
            IF part = "key" THEN CanonicalKey(taxonomy, skills[i].name) ELSE skills[i][part]]]

-----------------------------------------------------------------------------
(* Quality and texts *)

\* A place without a word is no place.
PlaceOf(raw) == IF Words(raw) = <<>> THEN Absent ELSE Words(raw)
PlacesIn(raw) == {PlaceOf(place) : place \in raw} \ {Absent}

HasSignal(facts) ==
    \/ facts.responsibilities # {}
    \/ \E skill \in ToSet(facts.required \o facts.preferred) : skill.evidence

KnownGroups(facts) ==
    Cardinality({group \in {"seniority", "mode"} : facts[group] # Absent}
                \cup {"experience" : bound \in {facts.min, facts.max} \ {Absent}}
                \cup {"location" : place \in PlacesIn({facts.location})})

Quality(facts) ==
    IF ~facts.summary \/ ~HasSignal(facts) THEN "unscorable"
    ELSE IF facts.title /\ KnownGroups(facts) >= 3 THEN "full" ELSE "partial"

Eligible(skills) == Where(skills, LAMBDA skill : ~skill.excluded)

KeysIn(skills) == {skill.key : skill \in ToSet(skills)}

\* What the embedding of a job and of a candidate is made of.
JobText(facts) ==
    [skills |-> KeysIn(facts.required \o facts.preferred),
     phrases |-> facts.responsibilities]

CandidateText(profile) ==
    [skills |-> KeysIn(Eligible(profile.skills)),
     phrases |-> profile.roles, seniority |-> profile.seniority,
     modes |-> profile.modes, places |-> PlacesIn(profile.places)]

-----------------------------------------------------------------------------
(* Skills *)

\* Faulty variant: the first candidate skill that matches in any way.
FirstOfAny(taxonomy, wanted, skills) ==
    LET eligible == Eligible(skills)
        first == SelectInSeq(eligible, LAMBDA s :
                     s.key = wanted \/ wanted \in RelatedTo(taxonomy, s.key)) IN
    [skill |-> wanted, by |-> first,
     type |-> IF first = 0 THEN "none"
              ELSE IF eligible[first].key = wanted THEN "direct" ELSE "related"]

\* Direct before related, then the order of the profile; by is the position of the
\* candidate skill that wins.
SkillMatch(taxonomy, wanted, skills) ==
    LET eligible == Eligible(skills)
        direct == SelectInSeq(eligible, LAMBDA s : s.key = wanted)
        related == SelectInSeq(eligible, LAMBDA s : wanted \in RelatedTo(taxonomy, s.key)) IN
    [skill |-> wanted,
     by |-> IF direct # 0 THEN direct ELSE related,
     type |-> IF direct # 0 THEN "direct" ELSE IF related # 0 THEN "related" ELSE "none"]

Strength(match) ==
    [direct |-> One, related |-> 3 * (One \div 5), none |-> 0][match.type]

MatchSkills(taxonomy, wanted, skills) ==
    [i \in DOMAIN wanted |-> SkillMatch(taxonomy, wanted[i].key, skills)]

Coverage(matches) ==
    IF matches = <<>> THEN Absent
    ELSE Total([i \in DOMAIN matches |-> Strength(matches[i])]) \div Len(matches)

\* The mean over the parts that are there, as <<numerator, denominator>>.
Weighted(parts) ==
    LET weight == [i \in DOMAIN parts |->
                      IF parts[i].value = Absent THEN 0 ELSE parts[i].weight] IN
    <<Total([i \in DOMAIN parts |->
                IF weight[i] = 0 THEN 0 ELSE weight[i] * parts[i].value]),
      Total(weight)>>

SkillScore(required, preferred) ==
    LET mean == Weighted(<<[weight |-> 4, value |-> Coverage(required)],
                           [weight |-> 1, value |-> Coverage(preferred)]>>) IN
    IF mean[2] = 0 THEN Absent ELSE mean[1] \div mean[2]

SkillCoverage(taxonomy, profile, facts) ==
    LET required == MatchSkills(taxonomy, facts.required, profile.skills)
        preferred == MatchSkills(taxonomy, facts.preferred, profile.skills) IN
    [required |-> required, preferred |-> preferred,
     score |-> SkillScore(required, preferred)]

-----------------------------------------------------------------------------
(* The other components, the score and the order *)

\* Unavailable when the job or the candidate says nothing.
Membership(value, accepted) ==
    IF value = Absent \/ accepted = {} THEN Absent
    ELSE IF value \in accepted THEN One ELSE 0

ExperienceScore(years, min) ==
    IF years = Absent \/ min = Absent THEN Absent
    ELSE IF min <= 0 \/ years >= min THEN One       \* a ratio above one is cut to one
    ELSE IF years < 0 THEN 0 ELSE (One * years) \div min


Components(profile, job, coverage) ==
    [id |-> job.id, semantic |-> job.semantic, quality |-> Quality(job.facts),
     skill |-> coverage.score,
     seniority |-> Membership(job.facts.seniority, profile.seniority),
     experience |-> ExperienceScore(profile.years, job.facts.min),
     location |-> Membership(PlaceOf(job.facts.location), PlacesIn(profile.places)),
     mode |-> Membership(job.facts.mode, profile.modes)]

Weights == <<[name |-> "semantic", weight |-> 6], [name |-> "skill", weight |-> 8],
             [name |-> "seniority", weight |-> 2], [name |-> "experience", weight |-> 2],
             [name |-> "location", weight |-> 1], [name |-> "mode", weight |-> 1]>>

Multiplier(quality) == IF quality = "full" THEN 20 ELSE 17

FinalScore(c) ==
    LET mean == Weighted([i \in DOMAIN Weights |->
                    [weight |-> Weights[i].weight, value |-> c[Weights[i].name]]]) IN
    <<Multiplier(c.quality) * mean[1], mean[2]>>

Above(a, b) == a[1] * b[2] > b[1] * a[2]

SkillPart(c) == IF c.skill = Absent THEN 0 ELSE c.skill

\* _scored_match_order_key, where the pairs of before order the ids.
Beats(a, b, before) ==
    \/ Above(a.final, b.final)
    \/ /\ ~Above(b.final, a.final)
       /\ \/ a.skill # Absent /\ b.skill = Absent
          \/ /\ (a.skill = Absent) = (b.skill = Absent)
             /\ \/ SkillPart(a) > SkillPart(b)
                \/ /\ SkillPart(a) = SkillPart(b)
                   /\ \/ a.semantic > b.semantic
                      \/ a.semantic = b.semantic /\ <<a.id, b.id>> \in before

Ranked(scored, limit, before) ==
    LET order == InOrder(scored, LAMBDA a, b : Beats(a, b, before)) IN
    SubSeq(order, 1, Min({limit, Len(order)}))

-----------------------------------------------------------------------------
(* Explanations *)

OfType(matches, type) == Where(matches, LAMBDA match : match.type = type)

Explanation(coverage) ==
    [matched |-> OfType(coverage.required, "direct"),
     preferred |-> OfType(coverage.preferred, "direct"),
     related |-> OfType(coverage.required \o coverage.preferred, "related"),
     missing |-> OfType(coverage.required, "none")]

Score(taxonomy, profile, job) ==
    LET coverage == SkillCoverage(taxonomy, profile, job.facts)
        components == Components(profile, job, coverage) IN
    [id |-> job.id, final |-> FinalScore(components), skill |-> components.skill,
     semantic |-> job.semantic, components |-> components, why |-> Explanation(coverage)]

\* The items of the selected-job skill map by kind; there is no map beyond the limit.
SkillMap(taxonomy, profile, facts) ==
    LET coverage == SkillCoverage(taxonomy, profile, facts)
        all == coverage.required \o coverage.preferred
        alone == {i \in DOMAIN Eligible(profile.skills) :
                    \A match \in ToSet(all) : match.by # i}
        counts == [direct |-> Len(OfType(all, "direct")),
                   related |-> Len(OfType(all, "related")),
                   missing_required |-> Len(OfType(coverage.required, "none")),
                   missing_preferred |-> Len(OfType(coverage.preferred, "none")),
                   candidate_only |-> Cardinality(alone)] IN
    {c \in {counts} : Len(all) + counts.candidate_only <= MaxItems}
=============================================================================

---------------------------- MODULE MatchingProofs ----------------------------
(***************************************************************************)
(* Theorems about matching, for every number of jobs and requests, and for *)
(* all contents, taxonomies, profiles, limits and retrieval sizes.         *)
(*                                                                         *)
(* They rest on these facts.  A score is made of fractions and optional    *)
(* numbers, and Beats is a strict total order of what was scored, so that  *)
(* the ranking has one first element.  The graph holds nothing but nodes   *)
(* of rows that were written (GraphReal), so that the consistency gate,    *)
(* which compares revisions, decides which nodes there are.  And while     *)
(* nothing overtakes a request, what it has read in one session is what    *)
(* the next one finds (QuietInv).  Two more are about the scorer alone:    *)
(* what a candidate offers decides every match, and a key that joins words *)
(* is spelt as the name it was made of.                                    *)
(***************************************************************************)
EXTENDS Matching, SavedJobsProofs, OrderingProofs

-----------------------------------------------------------------------------
(* Sums and weighted means *)

\* The sums that Total goes through.
Running(t, s) ==
    /\ t \in [0..Len(s) -> Int] /\ t[0] = 0
    /\ \A n \in 1..Len(s) : t[n] = t[n - 1] + s[n]

\* Sums up to any place exist.
LEMMA PartialSums ==
    ASSUME NEW s \in Seq(Int)
    PROVE  \E t : Running(t, s)
<1> DEFINE N == Len(s)
           Sums(n) == {t \in [0..N -> Int] :
                         t[0] = 0 /\ \A i \in 1..n : t[i] = t[i - 1] + s[i]}
           T == {n \in 0..N : Sums(n) # {}}
<1>1. N \in Nat /\ \A i \in 1..N : s[i] \in Int
  OBVIOUS
<1>2. 0 \in T
  <2>1. [i \in 0..N |-> 0] \in Sums(0)
    BY <1>1
  <2> QED BY <2>1, <1>1
<1>3. ASSUME NEW n \in 1..N, n - 1 \in T
      PROVE  n \in T
  <2>1. PICK t : t \in Sums(n - 1)
    BY <1>3
  <2> DEFINE u == [t EXCEPT ![n] = t[n - 1] + s[n]]
  <2>2. u \in [0..N -> Int] /\ u[0] = 0
    <3>1. n \in 0..N /\ n # 0 /\ n - 1 \in 0..N
      BY <1>1
    <3>2. t \in [0..N -> Int] /\ t[0] = 0
      BY <2>1
    <3>3. t[n - 1] + s[n] \in Int
      BY <1>1, <3>1, <3>2
    <3> QED BY <3>1, <3>2, <3>3
  <2>3. \A i \in 1..n : u[i] = u[i - 1] + s[i]
    BY <1>1, <2>1
  <2>4. u \in Sums(n)
    BY <2>2, <2>3
  <2>5. n \in 0..N
    BY <1>1
  <2> HIDE DEF Sums, u
  <2> QED BY <2>4, <2>5
<1>4. \A n \in 0..N : n \in T
  <2> HIDE DEF T
  <2> QED BY <1>1, <1>2, <1>3, UpTo
<1>5. Sums(N) # {}
  <2> HIDE DEF Sums
  <2> QED BY <1>1, <1>4
<1> QED BY <1>5 DEF Running

\* Total takes the sums in turn.
LEMMA TotalRuns ==
    ASSUME NEW s \in Seq(Int)
    PROVE  \E t : Running(t, s) /\ Total(s) = t[Len(s)]
<1> DEFINE N == Len(s)
           Body(g) == [n \in 0..N |-> IF n = 0 THEN 0 ELSE g[n - 1] + s[n]]
           sum == CHOOSE g : g = Body(g)
<1>1. N \in Nat /\ \A i \in 1..N : s[i] \in Int
  OBVIOUS
<1>2. PICK t : Running(t, s)
  BY PartialSums
<1>3. t = Body(t)
  <2>1. t = [n \in 0..N |-> t[n]]
    BY <1>2 DEF Running
  <2>2. \A n \in 0..N : t[n] = IF n = 0 THEN 0 ELSE t[n - 1] + s[n]
    BY <1>1, <1>2 DEF Running
  <2> QED BY <2>1, <2>2, Zenon
<1>4. sum = Body(sum)
  <2> HIDE DEF Body
  <2> QED BY <1>3, Zenon
<1>5. Total(s) = sum[N]
  BY Zenon DEF Total
<1>6. \A n \in 0..N : sum[n] = IF n = 0 THEN 0 ELSE sum[n - 1] + s[n]
  <2> HIDE DEF sum
  <2> QED BY <1>4, Zenon
<1>7. DOMAIN sum = 0..N /\ sum = [n \in 0..N |-> sum[n]]
  <2> HIDE DEF sum
  <2> QED BY <1>4, Zenon
<1> HIDE DEF sum
<1>8. \A n \in 0..N : sum[n] \in Int
  <2> DEFINE T == {n \in 0..N : sum[n] \in Int}
  <2>1. 0 \in T
    BY <1>1, <1>6
  <2>2. \A n \in 1..N : n - 1 \in T => n \in T
    BY <1>1, <1>6
  <2>3. \A n \in 0..N : n \in T
    <3> HIDE DEF T
    <3> QED BY <1>1, <2>1, <2>2, UpTo
  <2> QED BY <2>3
<1>9. sum \in [0..N -> Int]
  BY <1>7, <1>8
<1>10. \A n \in 1..N : sum[n] = sum[n - 1] + s[n]
  BY <1>1, <1>6
<1>11. Running(sum, s)
  BY <1>1, <1>6, <1>9, <1>10 DEF Running
<1> QED BY <1>5, <1>11

\* A sum of integers is one; of naturals it is at least each of them.
LEMMA TotalType ==
    ASSUME NEW s \in Seq(Int)
    PROVE  /\ Total(s) \in Int
           /\ (\A i \in 1..Len(s) : s[i] >= 0) =>
                 Total(s) >= 0 /\ \A i \in 1..Len(s) : Total(s) >= s[i]
<1> DEFINE N == Len(s)
<1>1. N \in Nat /\ \A i \in 1..N : s[i] \in Int
  OBVIOUS
<1>2. PICK t : Running(t, s) /\ Total(s) = t[N]
  BY TotalRuns
<1>3. /\ t[0] = 0 /\ \A n \in 0..N : t[n] \in Int
      /\ \A n \in 1..N : t[n] = t[n - 1] + s[n]
  BY <1>2 DEF Running
<1>4. ASSUME \A i \in 1..N : s[i] >= 0
      PROVE  t[N] >= 0 /\ \A i \in 1..N : t[N] >= s[i]
  <2> DEFINE T == {n \in 0..N : t[n] >= 0 /\ \A i \in 1..n : t[n] >= s[i]}
  <2>1. 0 \in T
    BY <1>1, <1>3
  <2>2. ASSUME NEW n \in 1..N, n - 1 \in T
        PROVE  n \in T
    <3>1. t[n] = t[n - 1] + s[n] /\ t[n - 1] >= 0 /\ s[n] >= 0 /\ t[n] \in Int
          /\ t[n - 1] \in Int /\ s[n] \in Int
      BY <1>1, <1>3, <1>4, <2>2
    <3>2. \A i \in 1..n - 1 : t[n - 1] >= s[i] /\ s[i] \in Int
      BY <1>1, <2>2
    <3>3. \A i \in 1..n : t[n] >= s[i]
      BY <3>1, <3>2, <1>1
    <3> QED BY <3>1, <3>3
  <2>3. \A n \in 0..N : n \in T
    <3> HIDE DEF T
    <3> QED BY <1>1, <2>1, <2>2, UpTo
  <2> QED BY <1>1, <2>3
<1> QED BY <1>1, <1>2, <1>3, <1>4

Part == [weight: Nat, value: Int \cup {Absent}]

\* A weighted mean is a fraction, with a divisor as soon as a part is there.
LEMMA WeightedMean ==
    ASSUME NEW parts \in Seq(Part)
    PROVE  /\ Weighted(parts)[1] \in Int /\ Weighted(parts)[2] \in Nat
           /\ \A i \in 1..Len(parts) :
                parts[i].value # Absent /\ parts[i].weight > 0 => Weighted(parts)[2] > 0
<1> DEFINE weight == [i \in DOMAIN parts |->
                        IF parts[i].value = Absent THEN 0 ELSE parts[i].weight]
           mass == [i \in DOMAIN parts |->
                      IF weight[i] = 0 THEN 0 ELSE weight[i] * parts[i].value]
<1>1. Weighted(parts) = <<Total(mass), Total(weight)>>
  BY Zenon DEF Weighted
<1>2. DOMAIN parts = 1..Len(parts) /\ Len(parts) \in Nat
  OBVIOUS
<1>3. \A i \in 1..Len(parts) :
        parts[i].weight \in Nat /\ parts[i].value \in Int \cup {Absent}
  <2> TAKE i \in 1..Len(parts)
  <2>1. parts[i] \in Part
    OBVIOUS
  <2> QED BY <2>1 DEF Part
<1>4. weight \in [1..Len(parts) -> Nat]
  BY <1>2, <1>3
<1>5. \A i \in 1..Len(parts) :
        (IF weight[i] = 0 THEN 0 ELSE weight[i] * parts[i].value) \in Int
  <2> TAKE i \in 1..Len(parts)
  <2>1. CASE parts[i].value = Absent
    BY <1>2, <2>1
  <2>2. CASE parts[i].value # Absent
    <3>1. parts[i].value \in Int /\ parts[i].weight \in Int
      BY <1>3, <2>2
    <3>2. parts[i].weight * parts[i].value \in Int
      BY <3>1
    <3> QED BY <1>2, <2>2, <3>2
  <2> QED BY <2>1, <2>2
<1>6. mass \in [1..Len(parts) -> Int]
  <2> HIDE DEF weight
  <2> QED BY <1>2, <1>5
<1>7. \A i \in 1..Len(parts) :
        parts[i].value # Absent => weight[i] = parts[i].weight
  BY <1>2
<1> HIDE DEF weight, mass
<1>8. mass \in Seq(Int) /\ weight \in Seq(Int) /\ Len(weight) = Len(parts)
  BY <1>2, <1>4, <1>6
<1>9. Total(mass) \in Int /\ Total(weight) \in Int
  BY <1>8, TotalType
<1>10. \A i \in 1..Len(weight) : weight[i] >= 0
  BY <1>4, <1>8
<1>11. Total(weight) >= 0 /\ \A i \in 1..Len(weight) : Total(weight) >= weight[i]
  BY <1>8, <1>10, TotalType
<1>12. Weighted(parts)[1] = Total(mass) /\ Weighted(parts)[2] = Total(weight)
  BY <1>1
<1> DEFINE m == Total(mass)  w == Total(weight)
<1> HIDE DEF m, w
<1>13. m \in Int /\ w \in Nat /\ \A i \in 1..Len(parts) : w >= weight[i]
  BY <1>8, <1>9, <1>11 DEF m, w
<1> QED BY <1>3, <1>7, <1>12, <1>13 DEF m, w

\* The strength of a match, in parts of One.
LEMMA StrengthType ==
    ASSUME NEW taxonomy, NEW wanted, NEW skills
    PROVE  Strength(SkillMatch(taxonomy, wanted, skills)) \in Nat
<1> DEFINE m == SkillMatch(taxonomy, wanted, skills)
<1>1. m.type \in {"direct", "related", "none"}
  BY DEF SkillMatch
<1>2. One \in Nat /\ 3 * (One \div 5) \in Nat
  BY ScoringAssumption
<1> HIDE DEF m
<1> QED BY <1>1, <1>2 DEF Strength, m

LEMMA CoverageType ==
    ASSUME NEW taxonomy, NEW wanted, IsList(wanted), NEW skills
    PROVE  Coverage(MatchSkills(taxonomy, wanted, skills)) \in Int \cup {Absent}
<1> DEFINE m == MatchSkills(taxonomy, wanted, skills)
           strength == [i \in DOMAIN m |-> Strength(m[i])]
<1>1. DOMAIN wanted = 1..Len(wanted) /\ Len(wanted) \in Nat
  BY DEF IsList
<1>2. m = [i \in 1..Len(wanted) |-> SkillMatch(taxonomy, wanted[i].key, skills)]
  BY <1>1, Zenon DEF MatchSkills
<1> HIDE DEF m
<1>3. \A i \in 1..Len(wanted) : Strength(m[i]) \in Int
  <2> TAKE i \in 1..Len(wanted)
  <2>1. m[i] = SkillMatch(taxonomy, wanted[i].key, skills)
    BY <1>2
  <2>2. Strength(m[i]) \in Nat
    BY <2>1, StrengthType, Zenon
  <2> QED BY <2>2
<1>4. DOMAIN m = 1..Len(wanted)
  BY <1>2
<1>5. strength \in [1..Len(wanted) -> Int]
  BY <1>3, <1>4
<1>6. strength \in Seq(Int)
  <2> HIDE DEF strength
  <2> QED BY <1>1, <1>5
<1>7. Total(strength) \in Int
  <2> HIDE DEF strength
  <2> QED BY <1>6, TotalType
<1>8. Len(m) = Len(wanted)
  BY <1>1, <1>4, LenProperties
<1>9. m # <<>> => Len(m) > 0
  <2> SUFFICES ASSUME Len(wanted) = 0 PROVE m = <<>>
    BY <1>1, <1>8
  <2> QED BY <1>2
<1>10. Coverage(m) = IF m = <<>> THEN Absent ELSE Total(strength) \div Len(m)
  BY Zenon DEF Coverage
<1> HIDE DEF strength
<1> QED BY <1>1, <1>7, <1>8, <1>9, <1>10 DEF m

-----------------------------------------------------------------------------
(* Scores *)

\* What the score reads of a job and of a profile.
PostFits(facts) ==
    IsList(facts.required) /\ IsList(facts.preferred) /\ facts.min \in Int \cup {Absent}

ProfileFits(profile) == IsList(profile.skills) /\ profile.years \in Int \cup {Absent}

LEMMA SkillScoreType ==
    ASSUME NEW required, NEW preferred,
           Coverage(required) \in Int \cup {Absent},
           Coverage(preferred) \in Int \cup {Absent}
    PROVE  SkillScore(required, preferred) \in Int \cup {Absent}
<1> DEFINE parts == <<[weight |-> 4, value |-> Coverage(required)],
                      [weight |-> 1, value |-> Coverage(preferred)]>>
           mean == Weighted(parts)
<1>1. parts \in Seq(Part)
  BY DEF Part
<1>2. SkillScore(required, preferred) = IF mean[2] = 0 THEN Absent ELSE mean[1] \div mean[2]
  BY Zenon DEF SkillScore
<1>3. mean[1] \in Int /\ mean[2] \in Nat
  <2> HIDE DEF parts
  <2> QED BY <1>1, WeightedMean
<1> HIDE DEF mean
<1> QED BY <1>2, <1>3

LEMMA MembershipType ==
    ASSUME NEW value, NEW accepted
    PROVE  Membership(value, accepted) \in Int \cup {Absent}
  BY ScoringAssumption DEF Membership

LEMMA ExperienceType ==
    ASSUME NEW years \in Int \cup {Absent}, NEW min \in Int \cup {Absent}
    PROVE  ExperienceScore(years, min) \in Int \cup {Absent}
<1>1. CASE years = Absent \/ min = Absent
  BY <1>1 DEF ExperienceScore
<1>2. CASE years # Absent /\ min # Absent
  <2>1. years \in Int /\ min \in Int /\ One \in Nat
    BY <1>2, ScoringAssumption
  <2>2. One * years \in Int
    BY <2>1
  <2> DEFINE p == One * years
  <2> HIDE DEF p
  <2>3. min > 0 => p \div min \in Int
    BY <2>1, <2>2 DEF p
  <2>4. ExperienceScore(years, min) =
            IF min <= 0 \/ years >= min THEN One ELSE IF years < 0 THEN 0 ELSE p \div min
    BY <1>2, Zenon DEF ExperienceScore, p
  <2> QED BY <2>1, <2>3, <2>4
<1> QED BY <1>1, <1>2

ComponentsFit(c) ==
    /\ c.semantic \in Int
    /\ c.skill \in Int \cup {Absent} /\ c.seniority \in Int \cup {Absent}
    /\ c.experience \in Int \cup {Absent} /\ c.location \in Int \cup {Absent}
    /\ c.mode \in Int \cup {Absent}

\* The final score is a fraction: the similarity is always there.
LEMMA FinalType ==
    ASSUME NEW c, ComponentsFit(c)
    PROVE  FinalScore(c)[1] \in Int /\ FinalScore(c)[2] \in Nat \ {0}
<1> DEFINE parts == [i \in DOMAIN Weights |->
                      [weight |-> Weights[i].weight, value |-> c[Weights[i].name]]]
           mean == Weighted(parts)
<1>1. DOMAIN Weights = 1..6
  BY DEF Weights
<1>2. \A i \in 1..6 : Weights[i].weight \in Nat \ {0}
  BY DEF Weights
<1>3. Weights[1].name = "semantic"
  BY DEF Weights
<1>4. \A i \in 1..6 : c[Weights[i].name] \in Int \cup {Absent}
  <2>1. \A i \in 1..6 : Weights[i].name \in
           {"semantic", "skill", "seniority", "experience", "location", "mode"}
    BY DEF Weights
  <2> QED BY <2>1 DEF ComponentsFit
<1>5. parts \in Seq(Part) /\ Len(parts) = 6
  <2> DEFINE part(i) == [weight |-> Weights[i].weight, value |-> c[Weights[i].name]]
  <2>1. \A i \in 1..6 : part(i) \in Part
    BY <1>2, <1>4 DEF Part
  <2>2. parts = [i \in 1..6 |-> part(i)]
    BY <1>1, Zenon
  <2> HIDE DEF part, parts
  <2>3. parts \in [1..6 -> Part]
    BY <2>1, <2>2
  <2>4. 6 \in Nat /\ DOMAIN parts = 1..6
    BY <2>3
  <2>5. parts \in Seq(Part)
    BY <2>3, <2>4, SeqDef
  <2> QED BY <2>4, <2>5, LenProperties
<1>6. parts[1].value = c.semantic /\ parts[1].weight > 0
  BY <1>1, <1>2, <1>3
<1>7. parts[1].value # Absent
  BY <1>6, ScoringAssumption DEF ComponentsFit
<1>8. mean[1] \in Int /\ mean[2] \in Nat /\ mean[2] > 0
  <2> HIDE DEF parts
  <2> QED BY <1>5, <1>6, <1>7, WeightedMean
<1>9. FinalScore(c) = <<Multiplier(c.quality) * mean[1], mean[2]>>
  BY Zenon DEF FinalScore
<1>10. Multiplier(c.quality) \in Int
  BY DEF Multiplier
<1> DEFINE k == Multiplier(c.quality)  p == k * mean[1]
<1> HIDE DEF mean, k
<1>11. p \in Int
  BY <1>8, <1>10 DEF k
<1> HIDE DEF p
<1>12. FinalScore(c) = <<p, mean[2]>>
  BY <1>9, Zenon DEF p, k
<1> QED BY <1>8, <1>11, <1>12

\* What the order of the answer reads of a scored job.
ScoreFits(s) ==
    /\ s.id \in Jobs /\ s.semantic \in Int /\ s.skill \in Int \cup {Absent}
    /\ s.final[1] \in Int /\ s.final[2] \in Nat \ {0}

\* A scored job has an order, whatever the facts and the profile say.
LEMMA ScoreType ==
    ASSUME NEW taxonomy, NEW profile, ProfileFits(profile),
           NEW job, PostFits(job.facts), job.semantic \in Int, job.id \in Jobs
    PROVE  /\ ScoreFits(Score(taxonomy, profile, job))
           /\ Score(taxonomy, profile, job).id = job.id
           /\ Score(taxonomy, profile, job).semantic = job.semantic
<1> DEFINE coverage == SkillCoverage(taxonomy, profile, job.facts)
           c == Components(profile, job, coverage)
           s == Score(taxonomy, profile, job)
<1>1. coverage.score \in Int \cup {Absent}
  <2> DEFINE required == MatchSkills(taxonomy, job.facts.required, profile.skills)
             preferred == MatchSkills(taxonomy, job.facts.preferred, profile.skills)
  <2>1. Coverage(required) \in Int \cup {Absent} /\ Coverage(preferred) \in Int \cup {Absent}
    BY CoverageType, Zenon DEF PostFits
  <2>2. coverage.score = SkillScore(required, preferred)
    BY DEF SkillCoverage
  <2> HIDE DEF required, preferred
  <2> QED BY <2>1, <2>2, SkillScoreType, Zenon
<1> HIDE DEF coverage
<1>2. ComponentsFit(c)
  <2>1. /\ c.semantic = job.semantic /\ c.skill = coverage.score
        /\ c.seniority = Membership(job.facts.seniority, profile.seniority)
        /\ c.experience = ExperienceScore(profile.years, job.facts.min)
        /\ c.location = Membership(PlaceOf(job.facts.location), PlacesIn(profile.places))
        /\ c.mode = Membership(job.facts.mode, profile.modes)
    BY DEF Components
  <2>2. ExperienceScore(profile.years, job.facts.min) \in Int \cup {Absent}
    BY ExperienceType, Zenon DEF PostFits, ProfileFits
  <2> HIDE DEF c
  <2> QED BY <1>1, <2>1, <2>2, MembershipType, Zenon DEF ComponentsFit
<1>3. FinalScore(c)[1] \in Int /\ FinalScore(c)[2] \in Nat \ {0}
  BY <1>2, FinalType, Zenon
<1>4. s = [id |-> job.id, final |-> FinalScore(c), skill |-> c.skill,
           semantic |-> job.semantic, components |-> c, why |-> Explanation(coverage)]
  BY Zenon DEF Score, coverage
<1>5. c.skill \in Int \cup {Absent}
  BY <1>2 DEF ComponentsFit
<1> HIDE DEF c, s
<1>6. s.id = job.id /\ s.semantic = job.semantic /\ s.final = FinalScore(c) /\ s.skill = c.skill
  BY <1>4
<1> QED BY <1>3, <1>5, <1>6 DEF ScoreFits, s

-----------------------------------------------------------------------------
(* The order of the answer *)

\* Cross multiplication compares fractions: what is above is above, or not below,
\* whatever is between.
LEMMA FractionsOrdered ==
    ASSUME NEW a1 \in Int, NEW b1 \in Int, NEW c1 \in Int,
           NEW a2 \in Nat \ {0}, NEW b2 \in Nat \ {0}, NEW c2 \in Nat \ {0},
           a1 * b2 <= b1 * a2, b1 * c2 <= c1 * b2
    PROVE  a1 * c2 <= c1 * a2
<1>1. \A x, y, z \in Int : x <= y /\ z > 0 => x * z <= y * z
  OBVIOUS
<1>2. \A x, y, z \in Int : (x * y) * z = (x * z) * y /\ x * y \in Int
  OBVIOUS
<1>3. (a1 * b2) * c2 <= (b1 * a2) * c2
  BY <1>1, <1>2
<1>4. (b1 * c2) * a2 <= (c1 * b2) * a2
  BY <1>1, <1>2
<1>5. (a1 * c2) * b2 <= (c1 * a2) * b2
  BY <1>2, <1>3, <1>4
<1>6. \A x, y, z \in Int : x > y /\ z > 0 => x * z > y * z
  OBVIOUS
<1>7. a1 * c2 \in Int /\ c1 * a2 \in Int /\ b2 \in Int /\ b2 > 0
  BY <1>2
<1> QED BY <1>5, <1>6, <1>7

AtMost(a, b) == ~ Above(a.final, b.final)

\* The keys below the final score.
TieBroken(a, b) ==
    \/ a.skill # Absent /\ b.skill = Absent
    \/ /\ (a.skill = Absent) <=> (b.skill = Absent)
       /\ \/ SkillPart(a) > SkillPart(b)
          \/ /\ SkillPart(a) = SkillPart(b)
             /\ \/ a.semantic > b.semantic
                \/ a.semantic = b.semantic /\ <<a.id, b.id>> \in IdOrder

LEMMA AtMostOrders ==
    ASSUME NEW S, \A s \in S : ScoreFits(s)
    PROVE  /\ \A a, b \in S : AtMost(a, b) \/ AtMost(b, a)
           /\ \A a, b, c \in S : AtMost(a, b) /\ AtMost(b, c) => AtMost(a, c)
<1>1. \A s \in S : s.final[1] \in Int /\ s.final[2] \in Nat \ {0}
  BY Zenon DEF ScoreFits
<1>2. \A x, y \in Int : x * y \in Int
  OBVIOUS
<1>3. \A x, y \in Int : ~ (x > y) <=> x <= y
  OBVIOUS
<1>4. \A a, b \in S : AtMost(a, b) <=> a.final[1] * b.final[2] <= b.final[1] * a.final[2]
  <2> TAKE a, b \in S
  <2>1. a.final[1] * b.final[2] \in Int /\ b.final[1] * a.final[2] \in Int
    BY <1>1, <1>2
  <2> QED BY <1>3, <2>1, Zenon DEF AtMost, Above
<1>5. ASSUME NEW a \in S, NEW b \in S
      PROVE  AtMost(a, b) \/ AtMost(b, a)
  <2> DEFINE p == a.final[1] * b.final[2]  q == b.final[1] * a.final[2]
  <2>1. p \in Int /\ q \in Int
    BY <1>1, <1>2
  <2>2. (AtMost(a, b) <=> p <= q) /\ (AtMost(b, a) <=> q <= p)
    BY <1>4, Zenon
  <2> HIDE DEF p, q
  <2> QED BY <2>1, <2>2
<1>6. ASSUME NEW a \in S, NEW b \in S, NEW c \in S, AtMost(a, b), AtMost(b, c)
      PROVE  AtMost(a, c)
  <2>1. /\ a.final[1] * b.final[2] <= b.final[1] * a.final[2]
        /\ b.final[1] * c.final[2] <= c.final[1] * b.final[2]
    BY <1>4, <1>6, Zenon
  <2>2. a.final[1] * c.final[2] <= c.final[1] * a.final[2]
    <3> DEFINE a1 == a.final[1]  b1 == b.final[1]  c1 == c.final[1]
               a2 == a.final[2]  b2 == b.final[2]  c2 == c.final[2]
    <3>1. /\ a1 \in Int /\ b1 \in Int /\ c1 \in Int
          /\ a2 \in Nat \ {0} /\ b2 \in Nat \ {0} /\ c2 \in Nat \ {0}
      BY <1>1
    <3>2. a1 * b2 <= b1 * a2 /\ b1 * c2 <= c1 * b2
      BY <2>1
    <3> HIDE DEF a1, b1, c1, a2, b2, c2
    <3>3. a1 * c2 <= c1 * a2
      BY <3>1, <3>2, FractionsOrdered
    <3> QED BY <3>3 DEF a1, c1, a2, c2
  <2> QED BY <1>4, <2>2, Zenon
<1> QED BY <1>5, <1>6, Zenon

LEMMA TiesBroken ==
    ASSUME NEW S, \A s \in S : ScoreFits(s)
    PROVE  /\ \A a \in S : ~ TieBroken(a, a)
           /\ \A a, b, c \in S : TieBroken(a, b) /\ TieBroken(b, c) => TieBroken(a, c)
           /\ \A a, b \in S : a.id # b.id => TieBroken(a, b) \/ TieBroken(b, a)
<1>1. \A s \in S : s.semantic \in Int /\ s.id \in Jobs /\ SkillPart(s) \in Int
  BY DEF ScoreFits, SkillPart
<1>2. /\ \A i, j \in Jobs : ~ (<<i, j>> \in IdOrder /\ <<j, i>> \in IdOrder)
      /\ \A i, j \in Jobs : i # j => <<i, j>> \in IdOrder \/ <<j, i>> \in IdOrder
      /\ \A i, j, k \in Jobs :
           <<i, j>> \in IdOrder /\ <<j, k>> \in IdOrder => <<i, k>> \in IdOrder
  BY MatchingAssumption, Zenon
<1>3. ASSUME NEW a \in S
      PROVE  ~ TieBroken(a, a)
  BY <1>1, <1>2 DEF TieBroken
<1>4. ASSUME NEW a \in S, NEW b \in S, NEW c \in S, TieBroken(a, b), TieBroken(b, c)
      PROVE  TieBroken(a, c)
  <2>1. a.semantic \in Int /\ b.semantic \in Int /\ c.semantic \in Int
    BY <1>1
  <2>2. SkillPart(a) \in Int /\ SkillPart(b) \in Int /\ SkillPart(c) \in Int
    BY <1>1
  <2>3. <<a.id, b.id>> \in IdOrder /\ <<b.id, c.id>> \in IdOrder => <<a.id, c.id>> \in IdOrder
    BY <1>1, <1>2, Zenon
  <2> QED BY <1>4, <2>1, <2>2, <2>3 DEF TieBroken
<1>5. ASSUME NEW a \in S, NEW b \in S, a.id # b.id
      PROVE  TieBroken(a, b) \/ TieBroken(b, a)
  <2>1. a.semantic \in Int /\ b.semantic \in Int /\ SkillPart(a) \in Int /\ SkillPart(b) \in Int
    BY <1>1
  <2>2. <<a.id, b.id>> \in IdOrder \/ <<b.id, a.id>> \in IdOrder
    BY <1>1, <1>2, <1>5, Zenon
  <2> QED BY <2>1, <2>2 DEF TieBroken
<1> QED BY <1>3, <1>4, <1>5, Zenon

\* Beats is a strict total order of scored jobs with different ids.
LEMMA BeatsOrders ==
    ASSUME NEW S, \A s \in S : ScoreFits(s), \A s, t \in S : s.id = t.id => s = t
    PROVE  /\ \A a \in S : ~ Beats(a, a, IdOrder)
           /\ \A a, b, c \in S :
                Beats(a, b, IdOrder) /\ Beats(b, c, IdOrder) => Beats(a, c, IdOrder)
           /\ \A a, b \in S : a # b => Beats(a, b, IdOrder) \/ Beats(b, a, IdOrder)
<1>1. \A a, b \in S : Beats(a, b, IdOrder) <=>
        ~ AtMost(a, b) \/ (AtMost(b, a) /\ TieBroken(a, b))
  BY Zenon DEF Beats, AtMost, TieBroken
<1>2. /\ \A a, b \in S : AtMost(a, b) \/ AtMost(b, a)
      /\ \A a, b, c \in S : AtMost(a, b) /\ AtMost(b, c) => AtMost(a, c)
  BY AtMostOrders
<1>3. /\ \A a \in S : ~ TieBroken(a, a)
      /\ \A a, b, c \in S : TieBroken(a, b) /\ TieBroken(b, c) => TieBroken(a, c)
      /\ \A a, b \in S : a.id # b.id => TieBroken(a, b) \/ TieBroken(b, a)
  BY TiesBroken
<1>4. ASSUME NEW a \in S PROVE ~ Beats(a, a, IdOrder)
  BY <1>1, <1>2, <1>3
<1>5. ASSUME NEW a \in S, NEW b \in S, NEW c \in S,
             Beats(a, b, IdOrder), Beats(b, c, IdOrder)
      PROVE  Beats(a, c, IdOrder)
  BY <1>1, <1>2, <1>3, <1>5
<1>6. ASSUME NEW a \in S, NEW b \in S, a # b
      PROVE  Beats(a, b, IdOrder) \/ Beats(b, a, IdOrder)
  BY <1>1, <1>2, <1>3, <1>6
<1> QED BY <1>4, <1>5, <1>6, Zenon

LEMMA SmallerOfTwo ==
    ASSUME NEW a \in Int, NEW b \in Int
    PROVE  Min({a, b}) = IF a <= b THEN a ELSE b
<1> DEFINE m == IF a <= b THEN a ELSE b
<1>1. m \in {a, b} /\ \A y \in {a, b} : m =< y
  OBVIOUS
<1>2. \A x \in {a, b} : (\A y \in {a, b} : x =< y) => x = m
  OBVIOUS
<1> HIDE DEF m
<1> QED BY <1>1, <1>2, Zenon DEF Min, m

Place(S, n) ==
    CHOOSE x \in S : Cardinality({y \in S : Beats(y, x, IdOrder)}) = n - 1

Standing(S) == [n \in 1..Cardinality(S) |-> Place(S, n)]

\* The answer is the beginning of the listing.
LEMMA RankedPrefix ==
    ASSUME NEW S, IsFiniteSet(S), NEW limit \in Nat
    PROVE  /\ Len(Standing(S)) = Cardinality(S) /\ Cardinality(S) \in Nat
           /\ Len(Ranked(S, limit, IdOrder)) = Min({limit, Cardinality(S)})
           /\ DOMAIN Ranked(S, limit, IdOrder) = 1..Min({limit, Cardinality(S)})
           /\ \A i \in 1..Min({limit, Cardinality(S)}) :
                Ranked(S, limit, IdOrder)[i] = Standing(S)[i]
<1> DEFINE N == Cardinality(S)
           o == Standing(S)
           m == Min({limit, N})
<1>1. N \in Nat
  BY FS_CardinalityType
<1>2. DOMAIN o = 1..N
  BY Zenon DEF Standing
<1>3. Len(o) = N
  <2>1. \E n \in Nat : DOMAIN o = 1..n
    BY <1>1, <1>2
  <2> HIDE DEF o, N
  <2>2. o = [i \in 1..N |-> o[i]]
    BY <1>2, Zenon DEF Standing, o, N
  <2> QED BY <1>1, <1>2, <2>2, FunctionIsList
<1>4. Ranked(S, limit, IdOrder) = SubSeq(o, 1, m)
  BY <1>3, Zenon DEF Ranked, InOrder, Standing, Place
<1>5. m \in Nat /\ m <= N /\ m <= limit
  BY <1>1, SmallerOfTwo
<1> HIDE DEF o, m, N
<1> DEFINE q == SubSeq(o, 1, m)  T == {o[i] : i \in 1..m}
<1>6. \A i \in 1..m : o[i] \in T
  OBVIOUS
<1>7. q \in Seq(T) /\ Len(q) = m /\ \A i \in 1..m : q[i] = o[i]
  <2> HIDE DEF T
  <2>1. /\ q \in Seq(T) /\ Len(q) = IF 1 <= m THEN m - 1 + 1 ELSE 0
        /\ \A i \in 1..(m - 1) + 1 : q[i] = o[(1 + i) - 1]
    BY <1>5, <1>6, SubSeqProperties
  <2> HIDE DEF q
  <2> QED BY <1>5, <2>1
<1> HIDE DEF q, T
<1>8. DOMAIN q = 1..m
  BY <1>7
<1> QED BY <1>1, <1>3, <1>4, <1>7, <1>8, Zenon DEF o, m, N, q

\* The best come first: what is not among the first i is beaten by the i-th.
LEMMA RankedBest ==
    ASSUME NEW S, IsFiniteSet(S), NEW limit \in Nat,
           \A s \in S : ScoreFits(s), \A s, t \in S : s.id = t.id => s = t
    PROVE  \A i \in 1..Min({limit, Cardinality(S)}) :
             /\ Ranked(S, limit, IdOrder)[i] \in S
             /\ \A s \in S : \/ \E k \in 1..i : Ranked(S, limit, IdOrder)[k] = s
                             \/ Beats(Ranked(S, limit, IdOrder)[i], s, IdOrder)
<1> DEFINE R == {p \in S \X S : Beats(p[1], p[2], IdOrder)}
           o == Standing(S)
           N == Cardinality(S)
           m == Min({limit, N})
<1>1. \A x, y \in S : <<x, y>> \in R <=> Beats(x, y, IdOrder)
  OBVIOUS
<1>2. Orders(R, S)
  <2>1. /\ \A a \in S : ~ Beats(a, a, IdOrder)
        /\ \A a, b, c \in S :
             Beats(a, b, IdOrder) /\ Beats(b, c, IdOrder) => Beats(a, c, IdOrder)
        /\ \A a, b \in S : a # b => Beats(a, b, IdOrder) \/ Beats(b, a, IdOrder)
    BY BeatsOrders
  <2> HIDE DEF R
  <2> QED BY <1>1, <2>1, Zenon DEF Orders
<1>3. o = RankOrder(R, S)
  <2>1. \A x \in S : {y \in S : Beats(y, x, IdOrder)} = {y \in S : <<y, x>> \in R}
    <3> HIDE DEF R
    <3> QED BY <1>1
  <2>2. \A x \in S : Cardinality({y \in S : Beats(y, x, IdOrder)}) = RankOf(R, S, x)
    BY <2>1, Zenon DEF RankOf
  <2> DEFINE Standard(n) == CHOOSE x \in S : RankOf(R, S, x) = n - 1
  <2>3. \A n : Place(S, n) = Standard(n)
    BY <2>2, Zenon DEF Place
  <2>4. RankOrder(R, S) = [n \in 1..N |-> Standard(n)]
    BY Zenon DEF RankOrder
  <2>5. o = [n \in 1..N |-> Place(S, n)]
    BY Zenon DEF Standing
  <2> HIDE DEF R, o, Standard
  <2> QED BY <2>3, <2>4, <2>5, Zenon
<1> HIDE DEF R, o
<1>4. /\ o \in Seq(S) /\ Len(o) = N
      /\ \A i, j \in 1..Len(o) : i < j => <<o[i], o[j]>> \in R
      /\ \A x \in S : \E n \in 1..Len(o) : o[n] = x
  BY <1>2, <1>3, ListedByRank
<1>5. /\ N \in Nat /\ m \in Nat /\ m <= N
      /\ \A i \in 1..m : Ranked(S, limit, IdOrder)[i] = o[i]
  <2>1. N \in Nat /\ m = IF limit <= N THEN limit ELSE N
    BY FS_CardinalityType, SmallerOfTwo
  <2>2. \A i \in 1..m : Ranked(S, limit, IdOrder)[i] = o[i]
    BY RankedPrefix, Zenon DEF o
  <2> HIDE DEF N, m
  <2> QED BY <2>1, <2>2
<1> HIDE DEF N, m
<1>6. \A i \in 1..m : i \in 1..N /\ o[i] \in S
  BY <1>4, <1>5
<1>7. ASSUME NEW i \in 1..m, NEW s \in S
      PROVE  (\E k \in 1..i : o[k] = s) \/ Beats(o[i], s, IdOrder)
  <2>1. PICK n \in 1..N : o[n] = s
    BY <1>4
  <2>2. CASE n \in 1..i
    BY <2>1, <2>2
  <2>3. CASE n > i
    <3>1. <<o[i], o[n]>> \in R
      BY <1>4, <1>6, <2>1, <2>3
    <3> QED BY <1>1, <1>6, <2>1, <3>1, Zenon
  <2> QED BY <1>5, <2>1, <2>2, <2>3
<1>8. \A i \in 1..m : \A k \in 1..i : Ranked(S, limit, IdOrder)[k] = o[k]
  BY <1>5
<1>9. \A i \in 1..m : i \in 1..i
  BY <1>5
<1> QED BY <1>5, <1>6, <1>7, <1>8, Zenon DEF m, N

-----------------------------------------------------------------------------
(* The graph *)

\* A node that was never written, or was removed, has no revision.
Real(copy) == copy.revision = 0 => copy = NoNode

\* The states of a request that carries copies to the graph.
Copying == {"syncing", "clearing", "rebuilding"}

CopiesReal(q) ==
    /\ q.at = "syncing" => q.row.revision > 0
    /\ q.at \in {"clearing", "rebuilding"} => \A j \in Jobs : Real(q.snapshot[j])

\* What the graph holds or will be given are nodes of rows that were written.
GraphReal ==
    /\ \A j \in Jobs : Real(nodes[j])
    /\ \A r \in Requests : CopiesReal(request[r])

\* A scorable row was written, so its node has a revision.
LEMMA ProjectionReal ==
    ASSUME IInv
    PROVE  /\ Projection \in [Jobs -> NodeRow]
           /\ \A j \in Jobs : /\ Real(Projection[j])
                              /\ ScorableRow(jobs[j]) <=> Projection[j] # NoNode
                              /\ ScorableRow(jobs[j]) => Projection[j].revision > 0
<1>1. jobs \in [Jobs -> JobRow]
  BY DEF IInv, SavedJobsTypeOK, JobStoreTypeOK
<1>2. ASSUME NEW j \in Jobs
      PROVE  /\ Projection[j] \in NodeRow /\ Real(Projection[j])
             /\ ScorableRow(jobs[j]) <=> Projection[j] # NoNode
             /\ ScorableRow(jobs[j]) => Projection[j].revision > 0
  <2>1. jobs[j] \in JobRow /\ (Live(j) => jobs[j].revision > 0)
    BY <1>1, <1>2 DEF IInv, RowSound
  <2>2. CASE ScorableRow(jobs[j])
    <3>1. Projection[j] = [revision |-> jobs[j].revision, version |-> jobs[j].version]
      BY <1>2, <2>2 DEF Projection
    <3>2. Live(j)  BY <2>2 DEF Live, ScorableRow
    <3> QED  BY <2>1, <2>2, <3>1, <3>2 DEF Real, NodeRow, NoNode, JobRow
  <2>3. CASE ~ ScorableRow(jobs[j])
    <3>1. Projection[j] = NoNode
      BY <1>2, <2>3 DEF Projection
    <3> QED  BY <2>3, <3>1, IdleTyped DEF Real, NoNode
  <2> QED  BY <2>2, <2>3
<1>3. Projection = [j \in Jobs |-> Projection[j]]
  BY DEF Projection
<1> QED  BY <1>2, <1>3

LEMMA SameCopies ==
    ASSUME GraphReal, NEW r \in Requests, Turned(r),
           request'[r].at \notin Copying, nodes' = nodes
    PROVE  GraphReal'
  BY DEF GraphReal, Turned, CopiesReal, Copying, Real

\* The steps that carry nothing to the graph.
LEMMA FewCopy ==
    ASSUME IInv, NEW r \in Requests, RequestStep(r) \/ Abort(r)
    PROVE  \/ request'[r].at \notin Copying /\ nodes' = nodes
           \/ LoadCommitted(r) \/ SyncJob(r) \/ DetachNode(r)
           \/ LoadRebuildInputs(r) \/ ClearGraph(r) \/ RebuildNode(r)
<1> DEFINE Quiet == request'[r].at \notin Copying /\ nodes' = nodes
<1>1. request \in [Requests -> RequestRow]  BY Typed
<1> USE <1>1 DEF Copying, GraphSame, RequestRow
<1>2. ASSUME NEW state, Goto(r, state)
      PROVE  request'[r].at = state
  BY <1>2 DEF Goto, Idle
<1>3. ASSUME NEW c \in Contents, SelectText(r, c) \/ FetchAndSelect(r, c)
      PROVE  Quiet
  <2>1. ASSUME NEW i, NEW at,
               request' = [request EXCEPT ![r].job = i, ![r].content = c, ![r].at = at]
        PROVE  request'[r].at = at
    BY <2>1
  <2>2. ASSUME NEW i, NEW row,
               request' = [request EXCEPT ![r].content = c, ![r].match = i,
                                          ![r].row = row, ![r].at = "disposing"]
        PROVE  request'[r].at = "disposing"
    BY <2>2
  <2>3. ASSUME NEW at,
               request' = [request EXCEPT ![r].content = c, ![r].at = at]
        PROVE  request'[r].at = at
    BY <2>3
  <2> HIDE <1>1 DEF RequestRow
  <2>4. ASSUME SelectText(r, c)
        PROVE  Quiet
    <3>1. \/ \E i, at : /\ at \in {"retrying", "saved"}
                        /\ request' = [request EXCEPT ![r].job = i, ![r].content = c,
                                                      ![r].at = at]
          \/ request' = [request EXCEPT ![r].content = c, ![r].at = "inserting"]
      BY <2>4 DEF SelectText
    <3> QED  BY <2>1, <2>3, <2>4, <3>1 DEF SelectText
  <2>5. ASSUME FetchAndSelect(r, c)
        PROVE  Quiet
    BY <2>2, <2>3, <2>5 DEF FetchAndSelect
  <2> QED  BY <1>3, <2>4, <2>5
<1>4. ASSUME FetchFails(r) \/ Extract(r) \/ ReadForFinish(r)
      PROVE  Quiet
  BY <1>2, <1>4 DEF FetchFails, Extract, ReadForFinish
<1>5. ASSUME InsertText(r) \/ RetryText(r) \/ CommitPlaceholder(r)
      PROVE  Quiet
  BY <1>2, <1>5 DEF InsertText, RetryText, CommitPlaceholder
<1>6. ASSUME DropPlaceholder(r) \/ RetryMatch(r) \/ AttachContent(r)
      PROVE  Quiet
  BY <1>2, <1>6 DEF DropPlaceholder, RetryMatch, AttachContent
<1>7. ASSUME WriteFinish(r) \/ SyncJobFails(r)
      PROVE  Quiet
  BY <1>2, <1>7 DEF WriteFinish, SyncJobFails
<1>8. ASSUME NEW j \in Jobs, CaptureJob(r, j) \/ BeginEvaluate(r, j) \/ BeginDelete(r, j)
      PROVE  Quiet
  BY <1>8 DEF CaptureJob, BeginEvaluate, BeginDelete, OnlyReads
<1>9. ASSUME Reextract(r) \/ ReplaceConflicts(r) \/ ReplaceIfUnchanged(r)
      PROVE  Quiet
  BY <1>2, <1>9 DEF Reextract, ReplaceConflicts, ReplaceIfUnchanged, OnlyReads
<1>10. ASSUME ResolveContext(r) \/ GateReadsTruth(r) \/ GateComparesGraph(r)
      PROVE  Quiet
  BY <1>2, <1>10 DEF ResolveContext, GateReadsTruth, GateComparesGraph, OnlyReads
<1>11. ASSUME RetrieveExact(r) \/ Recheck(r) \/ InsertEvaluation(r)
      PROVE  Quiet
  BY <1>2, <1>11 DEF RetrieveExact, Recheck, InsertEvaluation, OnlyReads
<1>12. ASSUME ConfirmDetached(r) \/ DropRow(r) \/ EndRebuild(r)
      PROVE  Quiet
  BY <1>2, <1>12 DEF ConfirmDetached, DropRow, EndRebuild, OnlyReads
<1>13. ASSUME ApproveProfile(r) \/ SyncCandidate(r)
      PROVE  Quiet
  BY <1>2, <1>13 DEF ApproveProfile, SyncCandidate
<1>14. ASSUME Abort(r)
      PROVE  Quiet
  BY <1>2, <1>14 DEF Abort
<1> QED
  BY <1>3, <1>4, <1>5, <1>6, <1>7, <1>8, <1>9, <1>10, <1>11, <1>12, <1>13, <1>14
     DEF RequestStep, IngestionStep

LEMMA StepReal ==
    ASSUME IInv, GraphReal, NEW r \in Requests, RequestStep(r) \/ Abort(r)
    PROVE  GraphReal'
<1>1. Turned(r)  BY StepKeeps DEF Writes, Reads
<1>2. \A s \in Requests \ {r} : CopiesReal(request'[s])
  BY <1>1 DEF GraphReal, Turned
<1>3. /\ request \in [Requests -> RequestRow] /\ request[r] \in RequestRow
      /\ RowHeld(request[r]) /\ CopiesReal(request[r])
      /\ nodes \in [Jobs -> NodeRow] /\ \A j \in Jobs : Real(nodes[j])
  BY Typed DEF GraphReal, IInv, SavedJobsTypeOK, JobStoreTypeOK
<1>4. ASSUME NEW state, Goto(r, state), state # "done"
      PROVE  request'[r].at = state /\ request'[r].snapshot = request[r].snapshot
  BY <1>3, <1>4 DEF Goto, RequestRow
<1>5. ASSUME \A j \in Jobs : Real(nodes'[j]), CopiesReal(request'[r])
      PROVE  GraphReal'
  BY <1>2, <1>5 DEF GraphReal, CopiesReal, Real
<1>6. CASE request'[r].at \notin Copying /\ nodes' = nodes
  BY <1>1, <1>6, SameCopies
<1>7. CASE LoadCommitted(r)
  <2> DEFINE row == jobs[Target(r)]
             state == IF ScorableRow(row) THEN "syncing"
                      ELSE IF Live(Target(r)) THEN "saved" ELSE "done"
  <2>1. nodes' = nodes /\ At(r, "loading")
        /\ request' = [request EXCEPT ![r].row = row, ![r].at = state]
    BY <1>7 DEF LoadCommitted, GraphSame
  <2>2. request'[r].row = row /\ request'[r].at = state
    BY <1>3, <2>1 DEF RequestRow
  <2>3. state = "syncing" => row.revision > 0
    <3>1. Target(r) \in Jobs
      BY <1>3, <2>1 DEF RowHeld, Unbound, At, Target
    <3>2. state = "syncing" => Live(Target(r))
      BY DEF ScorableRow, Live
    <3> QED  BY <3>1, <3>2 DEF IInv, RowSound
  <2>4. CopiesReal(request'[r])
    BY <2>2, <2>3 DEF CopiesReal
  <2> QED  BY <1>3, <1>5, <2>1, <2>4
<1>8. CASE SyncJob(r)
  <2>1. request[r].row.revision > 0
    BY <1>3, <1>8 DEF SyncJob, At, CopiesReal
  <2>2. \A j \in Jobs : Real(nodes'[j])
    BY <1>3, <1>8, <2>1 DEF SyncJob, Real
  <2>3. request'[r].at = "saved"
    BY <1>4, <1>8 DEF SyncJob
  <2> QED  BY <1>5, <2>2, <2>3 DEF CopiesReal
<1>9. CASE DetachNode(r)
  <2>1. \A j \in Jobs : Real(nodes'[j])
    BY <1>3, <1>9 DEF DetachNode, Real
  <2>2. request'[r].at = "checking"
    BY <1>4, <1>9 DEF DetachNode
  <2> QED  BY <1>5, <2>1, <2>2 DEF CopiesReal
<1>10. CASE LoadRebuildInputs(r)
  <2>1. request'[r].snapshot = Projection /\ request'[r].at = "clearing"
    BY <1>3, <1>10 DEF LoadRebuildInputs, RequestRow
  <2>2. CopiesReal(request'[r])
    BY <2>1, ProjectionReal DEF CopiesReal
  <2> QED  BY <1>3, <1>5, <1>10, <2>2 DEF LoadRebuildInputs, OnlyReads, GraphSame
<1>11. CASE ClearGraph(r)
  <2>2. request'[r].at = "rebuilding" /\ request'[r].snapshot = request[r].snapshot
    BY <1>4, <1>11 DEF ClearGraph
  <2>3. CopiesReal(request'[r])
    BY <1>3, <1>11, <2>2 DEF CopiesReal, ClearGraph, At
  <2>4. \A j \in Jobs : Real(nodes'[j])
    BY <1>11 DEF ClearGraph, Real
  <2> QED  BY <1>5, <2>3, <2>4
<1>12. CASE RebuildNode(r)
  <2>1. At(r, "rebuilding")  BY <1>12 DEF RebuildNode
  <2>2. \A j \in Jobs : Real(request[r].snapshot[j])
    BY <1>3, <2>1 DEF CopiesReal, At
  <2>3. CASE nodes' = nodes /\ request' = [request EXCEPT ![r].profile = 0]
    <3>1. /\ request'[r].at = "rebuilding"
          /\ request'[r].snapshot = request[r].snapshot
      BY <1>3, <2>1, <2>3 DEF RequestRow, At
    <3> QED  BY <1>3, <1>5, <2>2, <2>3, <3>1 DEF CopiesReal
  <2>4. ASSUME NEW j \in Jobs, nodes' = [nodes EXCEPT ![j] = request[r].snapshot[j]],
               request' = [request EXCEPT ![r].snapshot[j] = NoNode]
        PROVE  GraphReal'
    <3>1. \A i \in Jobs : Real(nodes'[i])
      BY <1>3, <2>2, <2>4
    <3>2. /\ request'[r].at = "rebuilding"
          /\ request'[r].snapshot = [request[r].snapshot EXCEPT ![j] = NoNode]
      BY <1>3, <2>1, <2>4 DEF RequestRow, At
    <3>3. request[r].snapshot \in [Jobs -> NodeRow]
      BY <1>3 DEF RequestRow
    <3>4. \A i \in Jobs : Real(request'[r].snapshot[i])
      BY <2>2, <3>2, <3>3 DEF Real
    <3> QED  BY <1>5, <3>1, <3>2, <3>4 DEF CopiesReal
  <2> QED  BY <1>12, <2>3, <2>4 DEF RebuildNode
<1> QED
  BY <1>6, <1>7, <1>8, <1>9, <1>10, <1>11, <1>12, FewCopy

\* The jobs that were saved before are processed, and the graph has them.
LEMMA SavedBefore ==
    ASSUME MatchingInit
    PROVE  IInv /\ GraphReal
<1> USE DEF MatchingInit, IngestionInit
<1> DEFINE row(j) == [status |-> "processed", content |-> SavedContent[j],
                      scorable |-> TRUE, revision |-> 2, version |-> 1]
<1>1. /\ \A j \in Jobs : \/ jobs[j] = row(j) /\ j \in DOMAIN SavedContent
                         \/ jobs[j] = EmptyRow
      /\ \A j \in DOMAIN SavedContent : row(j) \in JobRow
  BY MatchingAssumption DEF JobRow, JobStates
<1>2. jobs \in [Jobs -> JobRow]
  <2>1. \A j \in Jobs : jobs[j] \in JobRow
    BY <1>1, IdleTyped
  <2>2. jobs = [j \in Jobs |-> jobs[j]]
    OBVIOUS
  <2> QED  BY <2>1, <2>2
<1>3. \A r \in Requests : request[r] = Idle  OBVIOUS
<1>4. \A j \in Jobs :
        \/ nodes[j] = NoNode /\ jobs[j] = EmptyRow
        \/ nodes[j] = [revision |-> 2, version |-> 1] /\ jobs[j] = row(j)
  <2> TAKE j \in Jobs
  <2>1. CASE jobs[j] = row(j)
    BY <2>1 DEF Projection, ScorableRow
  <2>2. CASE jobs[j] = EmptyRow
    BY <2>2 DEF Projection, ScorableRow, EmptyRow
  <2> QED  BY <1>1, <2>1, <2>2
<1>5. nodes \in [Jobs -> NodeRow]
  <2>1. \A j \in Jobs : nodes[j] \in NodeRow
    <3>1. NoNode \in NodeRow /\ [revision |-> 2, version |-> 1] \in NodeRow
      BY DEF NodeRow, NoNode
    <3> QED  BY <1>4, <3>1
  <2>2. nodes = [j \in Jobs |-> nodes[j]]
    BY DEF Projection
  <2> QED  BY <2>1, <2>2
<1>6. SavedJobsTypeOK
  BY <1>2, <1>5, IdleTyped DEF SavedJobsTypeOK, JobStoreTypeOK, IngestionTypeOK
<1>7. \A j \in Jobs : /\ RowSound(j) /\ Faithful(nodes[j], j) /\ Real(nodes[j])
                      /\ jobs[j].status \notin {"received", "processing"}
  <2> TAKE j \in Jobs
  <2>1. CASE jobs[j] = EmptyRow /\ nodes[j] = NoNode
    BY <2>1 DEF RowSound, Faithful, Live, Real, EmptyRow, NoNode
  <2>2. CASE jobs[j] = row(j) /\ nodes[j] = [revision |-> 2, version |-> 1]
    BY <2>2 DEF RowSound, Faithful, Live, Real
  <2> QED  BY <1>4, <2>1, <2>2
<1>8. \A r \in Requests : /\ RowHeld(request[r]) /\ CopiesHeld(request[r])
                          /\ CopiesReal(request[r])
  BY <1>3 DEF RowHeld, CopiesHeld, CopiesReal, Idle, Unbound, Placeholding, Finishing
<1>9. \A r, s \in Requests : PlaceholderOwned(r, s)
  BY <1>3 DEF PlaceholderOwned, Idle, Placeholding
<1>10. IngestionServed /\ EvaluationFaithful
  BY <1>7 DEF IngestionServed, EvaluationFaithful
<1> QED  BY <1>6, <1>7, <1>8, <1>9, <1>10 DEF IInv, GraphReal

-----------------------------------------------------------------------------
(* What the rows hold *)

\* An extraction and a profile as their schemas have them.
IsPost(f) ==
    /\ f = [title |-> f.title, summary |-> f.summary, max |-> f.max, min |-> f.min,
            responsibilities |-> f.responsibilities, required |-> f.required,
            preferred |-> f.preferred, seniority |-> f.seniority,
            location |-> f.location, mode |-> f.mode]
    /\ PostFits(f)

IsProfile(p) ==
    /\ p = [skills |-> p.skills, years |-> p.years, roles |-> p.roles,
            seniority |-> p.seniority, modes |-> p.modes, places |-> p.places]
    /\ ProfileFits(p)

StoredFits ==
    /\ \A j \in Jobs, version \in Nat : IsPost(Extraction(j, version))
    /\ \A revision \in Nat : IsProfile(ProfileAt(revision))
    /\ \A candidateText, jobText : Similarity(candidateText, jobText) \in Int

LEMMA NormalizeLists ==
    ASSUME NEW taxonomy, NEW skills, IsList(skills)
    PROVE  IsList(Normalize(taxonomy, skills))
<1> DEFINE n == Len(skills)
           e(i) == [part \in DOMAIN skills[i] \cup {"key"} |->
                      IF part = "key" THEN CanonicalKey(taxonomy, skills[i].name)
                      ELSE skills[i][part]]
           s == Normalize(taxonomy, skills)
<1>1. n \in Nat /\ DOMAIN skills = 1..n
  BY DEF IsList
<1>2. s = [i \in 1..n |-> e(i)]
  BY <1>1, Zenon DEF Normalize
<1> HIDE DEF s, e, n
<1>3. DOMAIN s = 1..n /\ s = [i \in 1..n |-> s[i]]
  BY <1>2
<1> QED BY <1>1, <1>3, FunctionIsList, Zenon DEF s

LEMMA StoredFacts ==
    ASSUME StoredFits, NEW j \in Jobs, NEW version \in Nat
    PROVE  PostFits(JobFacts(j, version))
<1> DEFINE f == Extraction(j, version)
           required == Normalize(Taxonomy, f.required)
           preferred == Normalize(Taxonomy, f.preferred)
           g == JobFacts(j, version)
<1>1. IsPost(f)
  BY Zenon DEF StoredFits
<1>2. IsList(required) /\ IsList(preferred)
  BY <1>1, NormalizeLists, Zenon DEF IsPost, PostFits
<1>3. g = [f EXCEPT !.required = required, !.preferred = preferred]
  BY DEF JobFacts
<1> HIDE DEF f, g, required, preferred
<1>4. g.required = required /\ g.preferred = preferred /\ g.min = f.min
  BY <1>1, <1>3 DEF IsPost
<1>5. f.min \in Int \cup {Absent}
  BY <1>1 DEF IsPost, PostFits
<1> QED BY <1>2, <1>4, <1>5, Zenon DEF PostFits, g

LEMMA StoredProfile ==
    ASSUME StoredFits, NEW revision \in Nat
    PROVE  ProfileFits(ApprovedProfile(revision))
<1> DEFINE p == ProfileAt(revision)
           skills == Normalize(Taxonomy, p.skills)
           q == ApprovedProfile(revision)
<1>1. IsProfile(p)
  BY Zenon DEF StoredFits
<1>2. q = [p EXCEPT !.skills = skills]
  BY DEF ApprovedProfile
<1> HIDE DEF p, q, skills
<1>3. q.years = p.years /\ q.skills = skills
  BY <1>1, <1>2 DEF IsProfile
<1>4. IsList(skills)
  BY <1>1, NormalizeLists, Zenon DEF IsProfile, ProfileFits, skills
<1> QED BY <1>1, <1>3, <1>4, Zenon DEF IsProfile, ProfileFits, q

LEMMA SemanticType ==
    ASSUME StoredFits, NEW revision, NEW j, NEW version
    PROVE  Semantic(revision, j, version) \in Int
<1> DEFINE score == Similarity(CandidateText(ApprovedProfile(revision)),
                               JobText(JobFacts(j, version)))
           low == Min({One, score})
<1>1. score \in Int
  BY Zenon DEF StoredFits
<1>2. One \in Int
  BY ScoringAssumption
<1> HIDE DEF score
<1>3. low \in Int
  BY <1>1, <1>2, SmallerOfTwo
<1>4. Max({0, low}) \in Int
  <2> HIDE DEF low
  <2>1. \E m \in {0, low} : \A y \in {0, low} : m >= y
    BY <1>3
  <2> QED BY <1>3, <2>1 DEF Max
<1> QED BY <1>4 DEF Semantic, Clamped, low, score

-----------------------------------------------------------------------------
(* The request *)

Locals(m) ==
    [at |-> m.at, limit |-> m.limit, profile |-> m.profile, gated |-> m.gated,
     snapshot |-> m.snapshot, found |-> m.found, answer |-> m.answer,
     code |-> m.code, quiet |-> m.quiet, taxonomy |-> m.taxonomy]

\* The index has returned no more scorable jobs than it may.
HitsFit ==
    \E semantic : \E top \in SUBSET Scorable(matching.snapshot) :
        /\ Cardinality(top) <= RetrievalSize
        /\ \A j \in top : semantic[j] \in Int
        /\ matching.found = {[id |-> j, semantic |-> semantic[j]] : j \in top}

RequestInv ==
    /\ matching = Locals(matching)
    /\ matching.at \in MatchStates /\ matching.code \in Outcomes
    /\ matching.limit \in Nat /\ matching.profile \in Nat
    /\ selected \in {"none", "pending", "ready"}
    /\ matching.at # "hydrating" => matching.found = {}
    /\ matching.at = "hydrating" => HitsFit
    /\ matching.at # "done" => matching.answer = <<>>
    /\ Len(matching.answer) <= Min({matching.limit, RetrievalSize})

\* How similar a job is to the candidate by what SQLite holds.
Current(j) == Semantic(profileRevision, j, jobs[j].version)

\* What was found are the jobs nearest to the candidate.
FoundNearest(found) ==
    LET all == Scorable(Projection) IN
    \E top \in kSubset(Min({RetrievalSize, Cardinality(all)}), all) :
        /\ \A a \in top, b \in all \ top : Current(a) >= Current(b)
        /\ found = {[id |-> j, semantic |-> Current(j)] : j \in top}

\* While nothing overtakes the request, what it has read is what there is.
QuietInv ==
    matching.quiet =>
        /\ matching.at \in {"gating", "comparing", "embedding", "querying", "hydrating"} =>
             matching.profile = profileRevision
        /\ matching.at \in {"comparing", "embedding", "querying", "hydrating"} =>
             matching.snapshot = Projection /\ matching.gated = profileRevision
        /\ matching.at \in {"embedding", "querying", "hydrating"} =>
             GraphAgrees(Projection, profileRevision)
        /\ matching.at = "hydrating" => FoundNearest(matching.found)

\* What a request that nothing overtakes may answer.
EndsRight ==
    matching.at # "done" /\ matching'.at = "done" /\ matching.quiet =>
        /\ matching'.code = "NEO4J_REBUILD_REQUIRED" =>
             ~GraphAgrees(Projection, profileRevision)
        /\ matching'.code = "ok" =>
             /\ GraphAgrees(Projection, profileRevision)
             /\ IsBest(matching'.answer)

Kept == RequestInv' /\ QuietInv' /\ EndsRight

-----------------------------------------------------------------------------
(* The steps that end the request *)

LEMMA AnsweredEnds ==
    ASSUME RequestInv, NEW code \in Outcomes, NEW answer, Answered(code, answer),
           selected' = selected, Len(answer) <= Min({matching.limit, RetrievalSize})
    PROVE  /\ RequestInv' /\ QuietInv'
           /\ matching'.at = "done" /\ matching'.code = code /\ matching'.answer = answer
<1>1. matching = Locals(matching) /\ matching.limit \in Nat /\ matching.profile \in Nat
  BY DEF RequestInv
<1>2. /\ matching' = Locals(matching')
      /\ matching'.at = "done" /\ matching'.code = code /\ matching'.answer = answer
      /\ matching'.found = {} /\ matching'.limit = matching.limit
      /\ matching'.profile = matching.profile
  BY <1>1 DEF Answered, Locals
<1>3. "done" \in MatchStates /\ selected \in {"none", "pending", "ready"}
  BY DEF RequestInv, MatchStates
<1>4. Len(matching'.answer) <= Min({matching'.limit, RetrievalSize})
  BY <1>2
<1>5. RequestInv'
  BY <1>1, <1>2, <1>3, <1>4 DEF RequestInv
<1>6. QuietInv'
  BY <1>2 DEF QuietInv
<1> QED BY <1>2, <1>5, <1>6

LEMMA RefusedEnds ==
    ASSUME RequestInv, NEW code \in Outcomes, Refused(code), selected' = selected
    PROVE  /\ RequestInv' /\ QuietInv'
           /\ matching'.at = "done" /\ matching'.code = code
<1>1. matching.limit \in Nat
  BY DEF RequestInv
<1>2. 0 <= Min({matching.limit, RetrievalSize})
  BY <1>1, MatchingAssumption, SmallerOfTwo
<1>3. Len(<<>>) <= Min({matching.limit, RetrievalSize})
  BY <1>2
<1> QED BY <1>3, AnsweredEnds, Zenon DEF Refused

LEMMA RefusedRight ==
    ASSUME RequestInv, NEW code \in Outcomes \ {"ok"}, Refused(code), selected' = selected,
           matching.quiet /\ code = "NEO4J_REBUILD_REQUIRED" =>
             ~ GraphAgrees(Projection, profileRevision)
    PROVE  Kept
<1>1. /\ RequestInv' /\ QuietInv'
      /\ matching'.at = "done" /\ matching'.code = code
  BY RefusedEnds
<1>2. EndsRight
  BY <1>1 DEF EndsRight
<1> QED BY <1>1, <1>2 DEF Kept

-----------------------------------------------------------------------------
(* The steps before the index *)

Elsewhere == {"idle", "loading", "gating", "comparing", "embedding", "querying"}

\* A step to a state where nothing has been found or answered.
LEMMA GoesOn ==
    ASSUME RequestInv, selected' = selected, matching' = Locals(matching'),
           matching.at \in Elsewhere, matching'.at \in Elsewhere,
           matching'.limit \in Nat, matching'.profile \in Nat,
           matching'.code = matching.code, matching'.found = matching.found,
           matching'.answer = matching.answer
    PROVE  RequestInv' /\ EndsRight
<1>1. matching'.at \in MatchStates /\ matching'.at # "hydrating" /\ matching'.at # "done"
  BY DEF Elsewhere, MatchStates
<1>2. matching.at # "hydrating" /\ matching.at # "done"
  BY DEF Elsewhere
<1>3. Len(matching'.answer) <= Min({matching'.limit, RetrievalSize})
  <2>1. 0 <= Min({matching'.limit, RetrievalSize})
    BY MatchingAssumption, SmallerOfTwo
  <2>2. Len(matching'.answer) = 0
    BY <1>2 DEF RequestInv
  <2> QED BY <2>1, <2>2
<1>4. matching.found = {} /\ matching.answer = <<>> /\ matching.code \in Outcomes
  BY <1>2 DEF RequestInv
<1>5. selected' \in {"none", "pending", "ready"}
  BY DEF RequestInv
<1> QED BY <1>1, <1>3, <1>4, <1>5 DEF RequestInv, EndsRight

LEMMA AskKeeps ==
    ASSUME RequestInv, QuietInv, NEW limit, AskMatch(limit)
    PROVE  Kept
<1>1. selected' = selected /\ matching.at = "idle"
  BY DEF AskMatch, OthersSame, MatchAt
<1>2. ASSUME Refused("INVALID_MATCH_LIMIT") \/ Refused("MATCH_JOBS_FAILED")
      PROVE  Kept
  BY <1>1, <1>2, RefusedRight DEF Outcomes
<1>3. ASSUME limit \in 1..MaxLimit,
             matching' = [matching EXCEPT !.at = "loading", !.limit = limit,
                                          !.taxonomy = Loaded(seed)]
      PROVE  Kept
  <2>1. limit \in Nat
    BY <1>3, MatchingAssumption
  <2>2. matching = Locals(matching) /\ matching.profile \in Nat
    BY DEF RequestInv
  <2>3. /\ matching' = Locals(matching') /\ matching'.at = "loading"
        /\ matching'.limit = limit /\ matching'.profile = matching.profile
        /\ matching'.code = matching.code /\ matching'.found = matching.found
        /\ matching'.answer = matching.answer
    BY <1>3, <2>2 DEF Locals
  <2>4. RequestInv' /\ EndsRight
    BY <1>1, <2>1, <2>2, <2>3, GoesOn DEF Elsewhere
  <2>5. QuietInv'
    BY <2>3 DEF QuietInv
  <2> QED BY <2>4, <2>5 DEF Kept
<1> QED BY <1>2, <1>3 DEF AskMatch

LEMMA LoadKeeps ==
    ASSUME RequestInv, QuietInv, LoadApproved, profileRevision \in Nat
    PROVE  Kept
<1>1. selected' = selected /\ matching.at = "loading" /\ profileRevision' = profileRevision
  BY DEF LoadApproved, OthersSame, MatchAt, savedJobsVars
<1>2. ASSUME Refused("ACTIVE_PROFILE_MISSING") \/ Refused("PROFILE_NOT_READY")
      PROVE  Kept
  BY <1>1, <1>2, RefusedRight DEF Outcomes
<1>3. ASSUME matching' = [matching EXCEPT !.at = "gating", !.profile = profileRevision]
      PROVE  Kept
  <2>1. matching = Locals(matching) /\ matching.limit \in Nat
    BY DEF RequestInv
  <2>2. /\ matching' = Locals(matching') /\ matching'.at = "gating"
        /\ matching'.limit = matching.limit /\ matching'.profile = profileRevision
        /\ matching'.code = matching.code /\ matching'.found = matching.found
        /\ matching'.answer = matching.answer
    BY <1>3, <2>1 DEF Locals
  <2>3. RequestInv' /\ EndsRight
    BY <1>1, <2>1, <2>2, GoesOn DEF Elsewhere
  <2>4. QuietInv'
    BY <1>1, <2>2 DEF QuietInv
  <2> QED BY <2>3, <2>4 DEF Kept
<1>4. selected \in {"none", "pending", "ready"}
  BY DEF RequestInv
<1> QED BY <1>2, <1>3, <1>4 DEF LoadApproved

\* What the rows and the graph say is said after a step of the request, too.
LEMMA SameRows ==
    ASSUME OthersSame
    PROVE  /\ jobs' = jobs /\ nodes' = nodes /\ selected' = selected
           /\ profileRevision' = profileRevision /\ candidate' = candidate
           /\ Projection' = Projection
           /\ GraphAgrees(Projection, profileRevision)' <=>
                GraphAgrees(Projection, profileRevision)
<1>1. /\ jobs' = jobs /\ nodes' = nodes /\ selected' = selected
      /\ profileRevision' = profileRevision /\ candidate' = candidate
  BY DEF OthersSame, savedJobsVars
<1>2. Projection' = Projection
  BY <1>1 DEF Projection, ScorableRow
<1> QED BY <1>1, <1>2 DEF GraphAgrees

LEMMA GateKeeps ==
    ASSUME RequestInv, QuietInv, ReadSourceRevisions
    PROVE  Kept
<1>1. OthersSame /\ matching.at = "gating"
      /\ matching' = [matching EXCEPT !.at = "comparing", !.snapshot = Projection,
                                      !.gated = profileRevision]
  BY DEF ReadSourceRevisions, MatchAt
<1>2. matching = Locals(matching) /\ matching.limit \in Nat /\ matching.profile \in Nat
  BY DEF RequestInv
<1>3. /\ matching' = Locals(matching') /\ matching'.at = "comparing"
      /\ matching'.limit = matching.limit /\ matching'.profile = matching.profile
      /\ matching'.code = matching.code /\ matching'.found = matching.found
      /\ matching'.answer = matching.answer /\ matching'.snapshot = Projection
      /\ matching'.gated = profileRevision /\ matching'.quiet = matching.quiet
  BY <1>1, <1>2 DEF Locals
<1>4. RequestInv' /\ EndsRight
  BY <1>1, <1>2, <1>3, GoesOn, SameRows DEF Elsewhere
<1>5. QuietInv'
  BY <1>1, <1>3, SameRows DEF QuietInv
<1> QED BY <1>4, <1>5 DEF Kept

LEMMA CompareKeeps ==
    ASSUME RequestInv, QuietInv, CompareGraph
    PROVE  Kept
<1>1. OthersSame /\ matching.at = "comparing"
  BY DEF CompareGraph, MatchAt
<1>2. ASSUME Refused("NEO4J_UNAVAILABLE")
      PROVE  Kept
  BY <1>1, <1>2, SameRows, RefusedRight DEF Outcomes
<1>3. ASSUME Refused("NEO4J_REBUILD_REQUIRED"),
             ~ GraphAgrees(matching.snapshot, matching.gated)
      PROVE  Kept
  <2>1. matching.quiet => ~ GraphAgrees(Projection, profileRevision)
    BY <1>1, <1>3, Zenon DEF QuietInv
  <2> QED BY <1>1, <1>3, <2>1, SameRows, RefusedRight DEF Outcomes
<1>4. ASSUME matching' = [matching EXCEPT !.at = "embedding"],
             GraphAgrees(matching.snapshot, matching.gated)
      PROVE  Kept
  <2>1. matching = Locals(matching) /\ matching.limit \in Nat /\ matching.profile \in Nat
    BY DEF RequestInv
  <2>2. /\ matching' = Locals(matching') /\ matching'.at = "embedding"
        /\ matching'.limit = matching.limit /\ matching'.profile = matching.profile
        /\ matching'.code = matching.code /\ matching'.found = matching.found
        /\ matching'.answer = matching.answer /\ matching'.snapshot = matching.snapshot
        /\ matching'.gated = matching.gated /\ matching'.quiet = matching.quiet
    BY <1>4, <2>1 DEF Locals
  <2>3. RequestInv' /\ EndsRight
    BY <1>1, <2>1, <2>2, GoesOn, SameRows DEF Elsewhere
  <2>4. matching.quiet => GraphAgrees(Projection, profileRevision)
    BY <1>1, <1>4, Zenon DEF QuietInv
  <2>5. QuietInv'
    BY <1>1, <2>2, <2>4, SameRows DEF QuietInv
  <2> QED BY <2>3, <2>5 DEF Kept
<1> QED BY <1>2, <1>3, <1>4 DEF CompareGraph

LEMMA EmbedKeeps ==
    ASSUME RequestInv, QuietInv, EmbedCandidate
    PROVE  Kept
<1>1. OthersSame /\ matching.at = "embedding"
  BY DEF EmbedCandidate, MatchAt
<1>2. ASSUME Refused("EMBEDDING_FAILED")
      PROVE  Kept
  BY <1>1, <1>2, SameRows, RefusedRight DEF Outcomes
<1>3. ASSUME matching' = [matching EXCEPT !.at = "querying"]
      PROVE  Kept
  <2>1. matching = Locals(matching) /\ matching.limit \in Nat /\ matching.profile \in Nat
    BY DEF RequestInv
  <2>2. /\ matching' = Locals(matching') /\ matching'.at = "querying"
        /\ matching'.limit = matching.limit /\ matching'.profile = matching.profile
        /\ matching'.code = matching.code /\ matching'.found = matching.found
        /\ matching'.answer = matching.answer /\ matching'.snapshot = matching.snapshot
        /\ matching'.gated = matching.gated /\ matching'.quiet = matching.quiet
    BY <1>3, <2>1 DEF Locals
  <2>3. RequestInv' /\ EndsRight
    BY <1>1, <2>1, <2>2, GoesOn, SameRows DEF Elsewhere
  <2>4. QuietInv'
    BY <1>1, <2>2, SameRows DEF QuietInv
  <2> QED BY <2>3, <2>4 DEF Kept
<1> QED BY <1>2, <1>3 DEF EmbedCandidate

-----------------------------------------------------------------------------
(* The steps of other requests *)

LEMMA SameCurrent ==
    ASSUME jobs' = jobs, profileRevision' = profileRevision,
           matching'.taxonomy = matching.taxonomy
    PROVE  \A j : Current(j)' = Current(j)
  BY DEF Current, Semantic, ApprovedProfile, JobFacts, Taxonomy

LEMMA SameNearest ==
    ASSUME jobs' = jobs, profileRevision' = profileRevision,
           matching'.taxonomy = matching.taxonomy, FoundNearest(matching.found),
           matching'.found = matching.found
    PROVE  FoundNearest(matching.found)'
<1>1. Projection' = Projection
  BY DEF Projection, ScorableRow
<1>2. \A j : Current(j)' = Current(j)
  BY SameCurrent
<1> DEFINE all == Scorable(Projection)
<1>3. PICK top \in kSubset(Min({RetrievalSize, Cardinality(all)}), all) :
        /\ \A a \in top, b \in all \ top : Current(a) >= Current(b)
        /\ matching.found = {[id |-> j, semantic |-> Current(j)] : j \in top}
  BY DEF FoundNearest
<1>4. Scorable(Projection)' = all
  BY <1>1 DEF Scorable
<1>5. matching'.found = {[id |-> j, semantic |-> Current(j)'] : j \in top}
  BY <1>2, <1>3
<1>6. \A a \in top, b \in all \ top : Current(a)' >= Current(b)'
  BY <1>2, <1>3
<1> HIDE DEF all
<1> QED BY <1>3, <1>4, <1>5, <1>6 DEF FoundNearest

\* Another request takes a step: what was read stays as it was read.
LEMMA OtherKeeps ==
    ASSUME RequestInv, QuietInv, OtherStep
    PROVE  Kept
<1> DEFINE same == UNCHANGED <<jobs, nodes, profileRevision, candidate>>
<1>1. matching = Locals(matching)
  BY DEF RequestInv
<1>2. /\ matching' = Locals(matching')
      /\ matching'.at = matching.at /\ matching'.limit = matching.limit
      /\ matching'.profile = matching.profile /\ matching'.gated = matching.gated
      /\ matching'.snapshot = matching.snapshot /\ matching'.found = matching.found
      /\ matching'.answer = matching.answer /\ matching'.code = matching.code
      /\ matching'.taxonomy = matching.taxonomy
  BY <1>1 DEF OtherStep, Locals
<1>3. matching'.quiet =>
        matching.quiet /\ (matching.at = "idle" \/ matching.at = "done" \/ same)
  BY <1>1 DEF OtherStep, Locals, MatchAt
<1>4. selected' \in {"none", "pending", "ready"}
  BY DEF OtherStep, RequestInv
<1>5. matching.at = "hydrating" => HitsFit'
  BY <1>2 DEF RequestInv, HitsFit, Scorable
<1>6. RequestInv'
  BY <1>2, <1>4, <1>5 DEF RequestInv
<1>7. EndsRight
  BY <1>2 DEF EndsRight
<1>8. ASSUME same
      PROVE  /\ Projection' = Projection
             /\ GraphAgrees(Projection, profileRevision) =>
                  GraphAgrees(Projection, profileRevision)'
             /\ FoundNearest(matching.found) => FoundNearest(matching.found)'
  <2>1. Projection' = Projection
    BY <1>8 DEF Projection, ScorableRow
  <2> QED BY <1>2, <1>8, <2>1, SameNearest DEF GraphAgrees
<1>9. QuietInv'
  <2>1. CASE matching.quiet /\ same
    BY <1>2, <1>8, <2>1 DEF QuietInv
  <2>2. CASE matching.at = "idle" \/ matching.at = "done"
    BY <1>2, <2>2 DEF QuietInv
  <2>3. CASE ~ matching'.quiet
    BY <2>3 DEF QuietInv
  <2> QED BY <1>3, <2>1, <2>2, <2>3
<1> QED BY <1>6, <1>7, <1>9 DEF Kept

-----------------------------------------------------------------------------
(* The index *)

\* When the graph agrees with SQLite, its nodes are those of the scorable rows, and
\* their vectors are of the extractions that SQLite holds.
LEMMA IndexCurrent ==
    ASSUME IInv, GraphReal, GraphAgrees(Projection, profileRevision)
    PROVE  /\ {j \in Jobs : nodes[j] # NoNode} = Scorable(Projection)
           /\ \A j \in Scorable(Projection) : nodes[j].version = jobs[j].version
<1>1. \A j \in Jobs : nodes[j].revision = Projection[j].revision /\ Real(nodes[j])
  BY DEF GraphAgrees, GraphReal
<1>2. \A j \in Jobs : nodes[j] # NoNode <=> Projection[j] # NoNode
  <2> TAKE j \in Jobs
  <2>1. CASE Projection[j] = NoNode
    BY <1>1, <2>1 DEF Real, NoNode
  <2>2. CASE Projection[j] # NoNode
    <3>1. Projection[j].revision > 0
      BY <2>2, ProjectionReal
    <3>2. nodes[j].revision # 0
      BY <1>1, <3>1
    <3> QED BY <2>2, <3>2 DEF NoNode
  <2> QED BY <2>1, <2>2
<1>3. ASSUME NEW j \in Scorable(Projection)
      PROVE  nodes[j].version = jobs[j].version
  <2>1. j \in Jobs /\ ScorableRow(jobs[j])
    BY <1>3, ProjectionReal DEF Scorable
  <2>2. Projection[j].revision = jobs[j].revision
    BY <2>1 DEF Projection
  <2>3. Faithful(nodes[j], j) /\ jobs[j].status # "gone"
    BY <2>1 DEF IInv, ScorableRow
  <2> QED BY <1>1, <2>1, <2>2, <2>3 DEF Faithful
<1> QED BY <1>2, <1>3 DEF Scorable

LEMMA SmallerAgain ==
    ASSUME NEW a \in Nat, NEW b \in Nat
    PROVE  Min({Min({a, b}), b}) = Min({a, b}) /\ Min({a, b}) <= a
<1>1. Min({a, b}) = IF a <= b THEN a ELSE b
  BY SmallerOfTwo
<1>2. Min({a, b}) \in Int
  BY <1>1
<1>3. Min({Min({a, b}), b}) = IF Min({a, b}) <= b THEN Min({a, b}) ELSE b
  BY <1>2, SmallerOfTwo
<1> QED BY <1>1, <1>3

LEMMA QueryKeeps ==
    ASSUME IInv, GraphReal, StoredFits, RequestInv, QuietInv, QueryIndex
    PROVE  Kept
<1> DEFINE gated == Scorable(matching.snapshot)
           indexed == {j \in Jobs : nodes[j] # NoNode}
           near(j) == Semantic(matching.profile, j, nodes[j].version)
           semantic == [j \in indexed |-> near(j)]
           k == RetrievalCount(gated)
           hits(top) == {[id |-> j, semantic |-> semantic[j]] : j \in top}
<1>1. OthersSame /\ matching.at = "querying"
  BY DEF QueryIndex, MatchAt
<1>2. /\ IsFiniteSet(gated) /\ Cardinality(gated) \in Nat
      /\ IsFiniteSet(indexed) /\ Cardinality(indexed) \in Nat
      /\ RetrievalSize \in Nat
  <2>1. IsFiniteSet(Jobs) /\ gated \subseteq Jobs /\ indexed \subseteq Jobs
    BY MatchingAssumption DEF Scorable
  <2> HIDE DEF gated, indexed
  <2> QED BY <2>1, FS_Subset, FS_CardinalityType, MatchingAssumption
<1>3. k = Min({RetrievalSize, Cardinality(gated)}) /\ k \in Nat /\ k <= RetrievalSize
  BY <1>2, SmallerOfTwo DEF RetrievalCount
<1>4. matching.quiet =>
        /\ matching.snapshot = Projection /\ matching.profile = profileRevision
        /\ GraphAgrees(Projection, profileRevision)
        /\ indexed = gated /\ \A j \in gated : near(j) = Current(j)
  <2> SUFFICES ASSUME matching.quiet
               PROVE  /\ matching.snapshot = Projection
                      /\ matching.profile = profileRevision
                      /\ GraphAgrees(Projection, profileRevision)
                      /\ indexed = gated /\ \A j \in gated : near(j) = Current(j)
    OBVIOUS
  <2>1. /\ matching.snapshot = Projection /\ matching.profile = profileRevision
        /\ GraphAgrees(Projection, profileRevision)
    BY <1>1 DEF QuietInv
  <2>2. indexed = gated /\ \A j \in gated : nodes[j].version = jobs[j].version
    BY <2>1, IndexCurrent
  <2>3. \A j \in gated : near(j) = Current(j)
    BY <2>1, <2>2, Zenon DEF Current
  <2> QED BY <2>1, <2>2, <2>3
<1>5. ASSUME Refused("NEO4J_UNAVAILABLE")
      PROVE  Kept
  BY <1>1, <1>5, SameRows, RefusedRight DEF Outcomes
<1>6. ASSUME NEW found \in Nearest(k)
      PROVE  \E top \in SUBSET indexed :
               /\ Cardinality(top) = Min({k, Cardinality(indexed)})
               /\ \A a \in top, b \in indexed \ top : semantic[a] >= semantic[b]
               /\ found = hits(top)
  <2> DEFINE Tops == {t \in kSubset(Min({k, Cardinality(indexed)}), indexed) :
                        \A a \in t, b \in indexed \ t : semantic[a] >= semantic[b]}
  <2>1. Nearest(k) = {hits(top) : top \in Tops}
    BY Zenon DEF Nearest
  <2>2. PICK top \in Tops : found = hits(top)
    BY <1>6, <2>1, Zenon
  <2>3. /\ top \in kSubset(Min({k, Cardinality(indexed)}), indexed)
        /\ \A a \in top, b \in indexed \ top : semantic[a] >= semantic[b]
    BY <2>2, Zenon
  <2>4. top \in SUBSET indexed /\ Cardinality(top) = Min({k, Cardinality(indexed)})
    BY <2>3, Zenon DEF kSubset
  <2> QED BY <2>2, <2>3, <2>4, Zenon
<1>7. ASSUME NEW found \in Nearest(k), ~ KnownHits(found, gated),
             Refused("NEO4J_REBUILD_REQUIRED")
      PROVE  Kept
  <2>1. PICK top \in SUBSET indexed : found = hits(top)
    BY <1>6, <1>7
  <2>2. \A hit \in found : hit.id \in indexed
    <3> HIDE DEF indexed, semantic
    <3> QED BY <2>1
  <2>3. ~ matching.quiet
    BY <1>4, <1>7, <2>2 DEF KnownHits
  <2> QED BY <1>1, <1>7, <2>3, SameRows, RefusedRight DEF Outcomes
<1>8. ASSUME NEW found \in Nearest(k), KnownHits(found, gated),
             matching' = [matching EXCEPT !.at = "hydrating", !.found = found]
      PROVE  Kept
  <2>1. PICK top \in SUBSET indexed :
          /\ Cardinality(top) = Min({k, Cardinality(indexed)})
          /\ \A a \in top, b \in indexed \ top : semantic[a] >= semantic[b]
          /\ found = hits(top)
    BY <1>6, <1>8
  <2>2. /\ matching = Locals(matching) /\ matching.limit \in Nat
        /\ matching.profile \in Nat /\ matching.answer = <<>> /\ matching.code \in Outcomes
    BY <1>1 DEF RequestInv
  <2>3. /\ matching' = Locals(matching') /\ matching'.at = "hydrating"
        /\ matching'.limit = matching.limit /\ matching'.profile = matching.profile
        /\ matching'.code = matching.code /\ matching'.found = found
        /\ matching'.answer = matching.answer /\ matching'.snapshot = matching.snapshot
        /\ matching'.gated = matching.gated /\ matching'.quiet = matching.quiet
        /\ matching'.taxonomy = matching.taxonomy
    BY <1>8, <2>2 DEF Locals
  <2>4. \A j \in top : j \in gated
    <3> TAKE j \in top
    <3>1. [id |-> j, semantic |-> semantic[j]] \in found
      BY <2>1
    <3> QED BY <1>8, <3>1 DEF KnownHits
  <2>5. \A j \in top : semantic[j] \in Int /\ semantic[j] = near(j)
    BY <2>1, SemanticType
  <2>6. Cardinality(top) <= RetrievalSize
    <3> DEFINE n == Cardinality(indexed)
    <3>1. n \in Nat /\ Cardinality(top) = Min({k, n})
      BY <1>2, <2>1
    <3> HIDE DEF k, n
    <3> QED BY <1>2, <1>3, <3>1, SmallerOfTwo
  <2>7. HitsFit'
    <3>1. Scorable(matching.snapshot)' = gated
      BY <2>3 DEF Scorable
    <3>2. matching'.found = {[id |-> j, semantic |-> semantic[j]] : j \in top}
      BY <2>1, <2>3
    <3> HIDE DEF gated, semantic, hits, indexed, near
    <3> QED BY <2>4, <2>5, <2>6, <3>1, <3>2 DEF HitsFit
  <2>8. RequestInv'
    <3>1. "hydrating" \in MatchStates
      BY DEF MatchStates
    <3>2. Len(matching'.answer) <= Min({matching'.limit, RetrievalSize})
      BY <2>2, <2>3 DEF RequestInv
    <3>3. selected' \in {"none", "pending", "ready"}
      BY <1>1, SameRows DEF RequestInv
    <3> QED BY <2>2, <2>3, <2>7, <3>1, <3>2, <3>3 DEF RequestInv
  <2>9. ASSUME matching.quiet
        PROVE  FoundNearest(matching.found)'
    <3> DEFINE all == Scorable(Projection)
    <3>1. Scorable(Projection)' = all /\ jobs' = jobs /\ profileRevision' = profileRevision
      BY <1>1, SameRows DEF Scorable
    <3>2. \A j : Current(j)' = Current(j)
      BY <2>3, <3>1, SameCurrent
    <3>3. indexed = all /\ gated = all /\ \A j \in all : near(j) = Current(j)
      BY <1>4, <2>9
    <3>4. Cardinality(top) = Min({RetrievalSize, Cardinality(all)})
      <4> DEFINE n == Cardinality(all)
      <4>1. /\ n \in Nat /\ k = Min({RetrievalSize, n})
            /\ Cardinality(top) = Min({k, n})
        BY <1>2, <1>3, <2>1, <3>3
      <4> HIDE DEF k, n
      <4>2. Cardinality(top) = Min({RetrievalSize, n})
        BY <1>2, <4>1, SmallerAgain
      <4> QED BY <4>2 DEF n
    <3>5. top \in kSubset(Min({RetrievalSize, Cardinality(all)}), all)
      BY <2>1, <3>3, <3>4 DEF kSubset
    <3>6. \A j \in all : semantic[j] = Current(j)'
      BY <3>2, <3>3
    <3>7. matching'.found = {[id |-> j, semantic |-> Current(j)'] : j \in top}
      <4>1. matching'.found = {[id |-> j, semantic |-> semantic[j]] : j \in top}
        BY <2>1, <2>3
      <4>2. \A j \in top : semantic[j] = Current(j)'
        BY <3>3, <3>6
      <4> HIDE DEF semantic, all, indexed, near, gated
      <4> QED BY <4>1, <4>2
    <3>8. \A a \in top, b \in all \ top : Current(a)' >= Current(b)'
      BY <2>1, <3>3, <3>6
    <3> HIDE DEF all
    <3> QED BY <3>1, <3>5, <3>7, <3>8 DEF FoundNearest
  <2>10. QuietInv'
    BY <1>1, <1>4, <2>3, <2>9, SameRows DEF QuietInv
  <2>11. EndsRight
    BY <2>3 DEF EndsRight
  <2> QED BY <2>8, <2>10, <2>11 DEF Kept
<1> HIDE DEF k
<1> QED BY <1>5, <1>7, <1>8 DEF QueryIndex, k

-----------------------------------------------------------------------------
(* Scoring *)

\* As many jobs are scored as were found.
LEMMA ScoredCount ==
    ASSUME NEW top, IsFiniteSet(top), NEW f, f \in [top -> {f[j] : j \in top}],
           \A i, j \in top : f[i] = f[j] => i = j
    PROVE  LET S == {f[j] : j \in top} IN
           IsFiniteSet(S) /\ Cardinality(S) = Cardinality(top)
<1> DEFINE S == {f[j] : j \in top}
<1>1. f \in Surjection(top, S) /\ f \in Injection(top, S)
  BY DEF Surjection, Injection, IsInjective
<1> HIDE DEF S
<1>2. IsFiniteSet(S) /\ (Cardinality(S) = Cardinality(top) <=> f \in Injection(top, S))
  BY <1>1, FS_Surjection
<1> QED BY <1>1, <1>2 DEF S

FoundAs(top, semantic) ==
    matching.found = {[id |-> j, semantic |-> semantic[j]] : j \in top}

\* A set of scores that can be ranked, one for each job that was found.
Rankable(S, top, semantic) ==
    LET sc(j) == Score(Taxonomy, ApprovedProfile(matching.profile),
                       [id |-> j, semantic |-> semantic[j],
                        facts |-> JobFacts(j, jobs[j].version)]) IN
    /\ S = {sc(j) : j \in top}
    /\ \A j \in top : ScoreFits(sc(j)) /\ sc(j).id = j /\ sc(j).semantic = semantic[j]
    /\ IsFiniteSet(S) /\ Cardinality(S) = Cardinality(top)
    /\ \A s \in S : ScoreFits(s)
    /\ \A s, t \in S : s.id = t.id => s = t

LEMMA ScoredFits ==
    ASSUME IInv, StoredFits, RequestInv, NEW top \in SUBSET Jobs, NEW semantic,
           \A j \in top : semantic[j] \in Int, FoundAs(top, semantic)
    PROVE  Rankable(Scored(matching.found), top, semantic)
<1> USE DEF FoundAs
<1> DEFINE S == Scored(matching.found)
           job(j) == [id |-> j, semantic |-> semantic[j],
                      facts |-> JobFacts(j, jobs[j].version)]
           profile == ApprovedProfile(matching.profile)
           sc(j) == Score(Taxonomy, profile, job(j))
<1>1. ProfileFits(profile)
  BY StoredProfile DEF RequestInv
<1>2. ASSUME NEW j \in top
      PROVE  ScoreFits(sc(j)) /\ sc(j).id = j /\ sc(j).semantic = semantic[j]
  <2>1. jobs[j].version \in Nat
    BY <1>2 DEF IInv, SavedJobsTypeOK, JobStoreTypeOK, JobRow
  <2>2. PostFits(JobFacts(j, jobs[j].version))
    BY <1>2, <2>1, StoredFacts
  <2>3. PostFits(job(j).facts) /\ job(j).semantic \in Int /\ job(j).id \in Jobs
        /\ job(j).id = j /\ job(j).semantic = semantic[j]
    BY <1>2, <2>2
  <2> HIDE DEF job, profile
  <2> QED BY <1>1, <2>3, ScoreType
<1>3. S = {sc(j) : j \in top}
  <2>1. S = {Score(Taxonomy, profile,
                   [id |-> hit.id, semantic |-> hit.semantic,
                    facts |-> JobFacts(hit.id, jobs[hit.id].version)]) :
               hit \in matching.found}
    BY Zenon DEF Scored
  <2>2. ASSUME NEW j \in top
        PROVE  \E hit \in matching.found : hit.id = j /\ hit.semantic = semantic[j]
    <3> DEFINE hit == [id |-> j, semantic |-> semantic[j]]
    <3>1. hit \in matching.found /\ hit.id = j /\ hit.semantic = semantic[j]
      BY <2>2
    <3> QED BY <3>1, Zenon
  <2>3. ASSUME NEW hit \in matching.found
        PROVE  \E j \in top : hit.id = j /\ hit.semantic = semantic[j]
    BY <2>3
  <2> HIDE DEF S, profile
  <2>4. \A s \in S : \E j \in top : s = sc(j)
    BY <2>1, <2>3, Zenon
  <2>5. \A j \in top : sc(j) \in S
    BY <2>1, <2>2, Zenon
  <2> QED BY <2>4, <2>5, Zenon
<1> HIDE DEF S, sc
<1>4. IsFiniteSet(top)
  BY MatchingAssumption, FS_Subset
<1>5. IsFiniteSet(S) /\ Cardinality(S) = Cardinality(top)
  <2> DEFINE f == [j \in top |-> sc(j)]
  <2>1. \A i, j \in top : sc(i) = sc(j) => i = j
    BY <1>2
  <2>2. S = {f[j] : j \in top} /\ \A j \in top : f[j] = sc(j)
    BY <1>3
  <2>3. f \in [top -> {f[j] : j \in top}]
    OBVIOUS
  <2> HIDE DEF f
  <2> QED BY <1>4, <2>1, <2>2, <2>3, ScoredCount
<1>6. \A s \in S : ScoreFits(s)
  BY <1>2, <1>3
<1>7. \A s, t \in S : s.id = t.id => s = t
  BY <1>2, <1>3
<1> QED BY <1>2, <1>3, <1>5, <1>6, <1>7, Zenon DEF Rankable, S, sc

\* A request that nothing overtook answers with the best jobs.
LEMMA BestAnswered ==
    ASSUME IInv, StoredFits, RequestInv, matching.profile = profileRevision,
           FoundNearest(matching.found)
    PROVE  IsBest(Ranked(Scored(matching.found), matching.limit, IdOrder))
<1> DEFINE all == Scorable(Projection)
           S == Scored(matching.found)
           answer == Ranked(S, matching.limit, IdOrder)
           sc(j) == Score(Taxonomy, ApprovedProfile(profileRevision),
                          [id |-> j, semantic |-> Current(j),
                           facts |-> JobFacts(j, jobs[j].version)])
           score == [j \in all |-> TrueScore(j)]
<1>1. PICK top \in kSubset(Min({RetrievalSize, Cardinality(all)}), all) :
        /\ \A a \in top, b \in all \ top : Current(a) >= Current(b)
        /\ matching.found = {[id |-> j, semantic |-> Current(j)] : j \in top}
  BY DEF FoundNearest
<1>2. top \subseteq all /\ all \subseteq Jobs
  BY DEF kSubset, Scorable
<1>3. \A j : Current(j) \in Int
  BY SemanticType DEF Current
<1>4. /\ S = {sc(j) : j \in top}
      /\ \A j \in top : ScoreFits(sc(j)) /\ sc(j).id = j
      /\ IsFiniteSet(S) /\ Cardinality(S) = Cardinality(top)
      /\ \A s \in S : ScoreFits(s)
      /\ \A s, t \in S : s.id = t.id => s = t
  <2> DEFINE semantic == [j \in all |-> Current(j)]
  <2>1. /\ top \in SUBSET Jobs
        /\ \A j \in top : semantic[j] \in Int /\ semantic[j] = Current(j)
    BY <1>2, <1>3
  <2>2. FoundAs(top, semantic)
    BY <1>1, <2>1 DEF FoundAs
  <2> HIDE DEF semantic, all
  <2> DEFINE sd(j) == Score(Taxonomy, ApprovedProfile(matching.profile),
                            [id |-> j, semantic |-> semantic[j],
                             facts |-> JobFacts(j, jobs[j].version)])
  <2>3. Rankable(S, top, semantic)
    BY <2>1, <2>2, ScoredFits
  <2>4. \A j \in top : sd(j) = sc(j)
    BY <2>1, Zenon
  <2>5. /\ S = {sd(j) : j \in top}
        /\ \A j \in top : ScoreFits(sd(j)) /\ sd(j).id = j
        /\ IsFiniteSet(S) /\ Cardinality(S) = Cardinality(top)
        /\ \A s \in S : ScoreFits(s)
        /\ \A s, t \in S : s.id = t.id => s = t
    BY <2>3, Zenon DEF Rankable
  <2> HIDE DEF S, sd, sc
  <2> QED BY <2>4, <2>5
<1>5. \A j \in all : score[j] = sc(j)
  BY Zenon DEF TrueScore, Current
<1>6. \A j \in all : TrueScore(j).semantic = Current(j)
  <2> TAKE j \in all
  <2> DEFINE job == [id |-> j, semantic |-> Current(j),
                     facts |-> JobFacts(j, jobs[j].version)]
  <2>1. jobs[j].version \in Nat /\ profileRevision \in Nat
    BY <1>2 DEF IInv, SavedJobsTypeOK, JobStoreTypeOK, JobRow
  <2>2. PostFits(JobFacts(j, jobs[j].version))
    BY <1>2, <2>1, StoredFacts
  <2>3. ProfileFits(ApprovedProfile(profileRevision))
    BY <2>1, StoredProfile
  <2>4. PostFits(job.facts) /\ job.semantic \in Int /\ job.id \in Jobs
        /\ job.semantic = Current(j)
    BY <1>2, <1>3, <2>2
  <2>5. TrueScore(j) = Score(Taxonomy, ApprovedProfile(profileRevision), job)
    BY Zenon DEF TrueScore, Current
  <2> HIDE DEF job
  <2> QED BY <2>3, <2>4, <2>5, ScoreType
<1>7. matching.limit \in Nat
  BY DEF RequestInv
<1> HIDE DEF all, S, sc, score
<1> DEFINE m == Min({matching.limit, Cardinality(top)})
<1>8. Len(answer) = m /\ DOMAIN answer = 1..m
  BY <1>4, <1>7, RankedPrefix
<1>9. \A i \in 1..m :
        /\ answer[i] \in S
        /\ \A s \in S : (\E k \in 1..i : answer[k] = s) \/ Beats(answer[i], s, IdOrder)
  BY <1>4, <1>7, RankedBest
<1> HIDE DEF answer, m
<1>10. \A i \in 1..m : answer[i].id \in top /\ answer[i] = score[answer[i].id]
  BY <1>2, <1>4, <1>5, <1>9
<1>11. ASSUME NEW i \in 1..m, NEW j \in top
       PROVE  (\E k \in 1..i : answer[k].id = j) \/ Beats(answer[i], score[j], IdOrder)
  <2>1. sc(j) \in S /\ sc(j).id = j /\ score[j] = sc(j)
    BY <1>2, <1>4, <1>5, <1>11
  <2>2. (\E k \in 1..i : answer[k] = sc(j)) \/ Beats(answer[i], sc(j), IdOrder)
    BY <1>9, <1>11, <2>1
  <2> QED BY <2>1, <2>2
<1>12. \A a \in top, b \in all \ top : score[a].semantic >= score[b].semantic
  BY <1>1, <1>2, <1>6 DEF score
<1>13. /\ \A a \in top, b \in all \ top : score[a].semantic >= score[b].semantic
       /\ Len(answer) = Min({matching.limit, Cardinality(top)})
       /\ \A i \in DOMAIN answer :
            /\ answer[i].id \in top /\ answer[i] = score[answer[i].id]
            /\ \A j \in top : \/ \E k \in 1..i : answer[k].id = j
                              \/ Beats(answer[i], score[j], IdOrder)
  BY <1>8, <1>10, <1>11, <1>12 DEF m
<1>14. IsBest(answer)
  BY <1>1, <1>13, Zenon DEF IsBest, all, score
<1> QED BY <1>14 DEF answer, S

LEMMA HydrateKeeps ==
    ASSUME IInv, StoredFits, RequestInv, QuietInv, HydrateAndScore
    PROVE  Kept
<1> DEFINE ready == \A hit \in matching.found : ScorableRow(jobs[hit.id])
           answer == Ranked(Scored(matching.found), matching.limit, IdOrder)
<1>1. OthersSame /\ matching.at = "hydrating"
  BY DEF HydrateAndScore, MatchAt
<1>2. selected' = selected /\ matching.limit \in Nat
  BY <1>1, SameRows DEF RequestInv
<1>3. matching.quiet =>
        /\ FoundNearest(matching.found) /\ matching.profile = profileRevision
        /\ GraphAgrees(Projection, profileRevision)
  BY <1>1 DEF QuietInv
<1>4. ASSUME Answered("ok", answer)
      PROVE  Kept
  <2>0. PICK semantic :
          \E top \in SUBSET Scorable(matching.snapshot) :
            /\ Cardinality(top) <= RetrievalSize
            /\ \A j \in top : semantic[j] \in Int
            /\ FoundAs(top, semantic)
    BY <1>1 DEF RequestInv, HitsFit, FoundAs
  <2>1. PICK top \in SUBSET Scorable(matching.snapshot) :
          /\ Cardinality(top) <= RetrievalSize
          /\ \A j \in top : semantic[j] \in Int
          /\ FoundAs(top, semantic)
    BY <2>0
  <2>2. top \in SUBSET Jobs
    BY DEF Scorable
  <2>3. Rankable(Scored(matching.found), top, semantic)
    BY <2>1, <2>2, ScoredFits
  <2> DEFINE S == Scored(matching.found)
  <2>4. IsFiniteSet(S) /\ Cardinality(S) = Cardinality(top)
    BY <2>3, Zenon DEF Rankable
  <2> HIDE DEF S
  <2>5. /\ Len(Ranked(S, matching.limit, IdOrder)) = Min({matching.limit, Cardinality(S)})
        /\ Cardinality(S) \in Nat
    BY <1>2, <2>4, RankedPrefix
  <2>6. Len(answer) <= Min({matching.limit, RetrievalSize})
    <3> DEFINE n == Cardinality(S)
    <3>1. n \in Nat /\ n <= RetrievalSize /\ Len(answer) = Min({matching.limit, n})
      BY <2>1, <2>4, <2>5 DEF S
    <3> HIDE DEF n, answer
    <3> QED BY <1>2, <3>1, MatchingAssumption, SmallerOfTwo
  <2>7. matching.quiet => IsBest(answer)
    BY <1>3, BestAnswered
  <2> HIDE DEF answer
  <2>8. "ok" \in Outcomes
    BY DEF Outcomes
  <2>9. /\ RequestInv' /\ QuietInv'
        /\ matching'.at = "done" /\ matching'.code = "ok" /\ matching'.answer = answer
    BY <1>2, <1>4, <2>6, <2>8, AnsweredEnds
  <2>10. EndsRight
    BY <1>3, <2>7, <2>9 DEF EndsRight
  <2> QED BY <2>9, <2>10 DEF Kept
<1>5. ASSUME ~ ready, Refused("NEO4J_REBUILD_REQUIRED")
      PROVE  Kept
  <2>1. ASSUME matching.quiet
        PROVE  FALSE
    <3> DEFINE all == Scorable(Projection)
    <3>1. PICK top \in kSubset(Min({RetrievalSize, Cardinality(all)}), all) :
            matching.found = {[id |-> j, semantic |-> Current(j)] : j \in top}
      BY <1>3, <2>1 DEF FoundNearest
    <3>2. \A j \in top : ScorableRow(jobs[j])
      BY ProjectionReal DEF kSubset, Scorable
    <3>3. ready
      BY <3>1, <3>2
    <3> QED BY <1>5, <3>3
  <2> QED BY <1>2, <1>5, <2>1, RefusedRight DEF Outcomes
<1> QED BY <1>4, <1>5, Zenon DEF HydrateAndScore

MatchingInv == IInv /\ GraphReal /\ RequestInv /\ QuietInv

LEMMA MatchingInitInv ==
    ASSUME MatchingInit
    PROVE  MatchingInv
<1>1. IInv /\ GraphReal
  BY SavedBefore
<1>2. matching = Asked /\ selected \in {"none", "pending", "ready"}
  BY DEF MatchingInit
<1>3. 0 <= Min({0, RetrievalSize})
  BY MatchingAssumption, SmallerOfTwo
<1>4. RequestInv
  BY <1>2, <1>3 DEF RequestInv, Asked, Locals, MatchStates, Outcomes
<1>5. QuietInv
  BY <1>2 DEF QuietInv, Asked
<1> QED BY <1>1, <1>4, <1>5 DEF MatchingInv

LEMMA MatchingNextInv ==
    ASSUME StoredFits, MatchingInv, MatchingNext
    PROVE  MatchingInv' /\ EndsRight
<1> USE DEF MatchingInv
<1>1. profileRevision \in Nat
  BY DEF IInv, SavedJobsTypeOK, JobStoreTypeOK
<1>2. ASSUME MatchStep
      PROVE  Kept
  BY <1>1, <1>2, AskKeeps, LoadKeeps, GateKeeps, CompareKeeps, EmbedKeeps, QueryKeeps,
     HydrateKeeps DEF MatchStep
<1>3. ASSUME MatchStep
      PROVE  IInv' /\ GraphReal'
  <2>1. UNCHANGED savedJobsVars
    BY <1>3 DEF MatchStep, AskMatch, LoadApproved, ReadSourceRevisions, CompareGraph,
       EmbedCandidate, QueryIndex, HydrateAndScore, OthersSame
  <2>2. IInv'
    BY <2>1, NextInv
  <2>3. GraphReal'
    BY <2>1 DEF savedJobsVars, GraphReal, CopiesReal, Real
  <2> QED BY <2>2, <2>3
<1>4. ASSUME OtherStep
      PROVE  Kept /\ IInv' /\ GraphReal'
  <2>1. PICK r \in Requests : RequestStep(r) \/ Abort(r)
    BY <1>4 DEF OtherStep, SavedJobsNext
  <2>2. IInv'
    BY <1>4, NextInv DEF OtherStep
  <2>3. GraphReal'
    BY <2>1, StepReal
  <2>4. Kept
    BY <1>4, OtherKeeps
  <2> QED BY <2>2, <2>3, <2>4
<1> QED BY <1>2, <1>3, <1>4 DEF MatchingNext, Kept

LEMMA MatchingStays ==
    ASSUME MatchingInv, UNCHANGED matchingVars
    PROVE  MatchingInv'
<1>1. UNCHANGED savedJobsVars /\ selected' = selected /\ matching' = matching
  BY DEF matchingVars
<1>2. IInv'
  BY <1>1, NextInv DEF MatchingInv
<1>3. GraphReal'
  BY <1>1 DEF MatchingInv, savedJobsVars, GraphReal, CopiesReal, Real
<1>4. RequestInv'
  BY <1>1 DEF MatchingInv, RequestInv, HitsFit, Scorable, Locals
<1>5. /\ jobs' = jobs /\ nodes' = nodes /\ candidate' = candidate
      /\ profileRevision' = profileRevision
  BY <1>1 DEF savedJobsVars
<1>6. Projection' = Projection
  BY <1>5 DEF Projection, ScorableRow
<1>7. /\ GraphAgrees(Projection, profileRevision) =>
           GraphAgrees(Projection, profileRevision)'
      /\ FoundNearest(matching.found) => FoundNearest(matching.found)'
  BY <1>1, <1>5, <1>6, SameNearest DEF GraphAgrees
<1>8. QuietInv'
  BY <1>1, <1>5, <1>6, <1>7 DEF MatchingInv, QuietInv
<1> QED BY <1>2, <1>3, <1>4, <1>8 DEF MatchingInv

-----------------------------------------------------------------------------
(* More skills *)

\* The keys that a candidate has to offer.
Offered(skills) ==
    {skills[i].key : i \in {k \in DOMAIN skills : ~skills[k].excluded}}

LEMMA LeastOf ==
    ASSUME NEW T \in SUBSET Nat, T # {}
    PROVE  Min(T) \in T
  BY LeastNumber, Zenon DEF Min

LEMMA EligibleOffers ==
    ASSUME NEW skills, IsList(skills), NEW q, q = Eligible(skills)
    PROVE  IsList(q) /\ {q[n].key : n \in 1..Len(q)} = Offered(skills)
<1> DEFINE P == {k \in DOMAIN skills : ~skills[k].excluded}
<1>1. q = ElementsAt(skills, P)
  BY Zenon DEF Eligible, Where, ElementsAt, Ascending
<1>2. P \in SUBSET DOMAIN skills
  OBVIOUS
<1>3. Offered(skills) = {skills[i].key : i \in P}
  BY Zenon DEF Offered
<1> HIDE DEF P
<1>4. Selects(q, skills, P)
  BY <1>1, <1>2, WhereList
<1> QED BY <1>3, <1>4 DEF Selects

\* The type of a match, by what is offered.
TypeOffered(taxonomy, wanted, keys) ==
    IF wanted \in keys THEN "direct"
    ELSE IF \E key \in keys : wanted \in RelatedTo(taxonomy, key) THEN "related" ELSE "none"

LEMMA MatchType ==
    ASSUME NEW taxonomy, NEW wanted, NEW skills, IsList(skills)
    PROVE  SkillMatch(taxonomy, wanted, skills).type =
               TypeOffered(taxonomy, wanted, Offered(skills))
<1> DEFINE q == Eligible(skills)
           D == {i \in 1..Len(q) : q[i].key = wanted}
           R == {i \in 1..Len(q) : wanted \in RelatedTo(taxonomy, q[i].key)}
           direct == IF D # {} THEN Min(D) ELSE 0
           related == IF R # {} THEN Min(R) ELSE 0
<1>1. IsList(q) /\ {q[n].key : n \in 1..Len(q)} = Offered(skills)
  BY EligibleOffers, Zenon
<1>2. SkillMatch(taxonomy, wanted, skills).type =
          IF direct # 0 THEN "direct" ELSE IF related # 0 THEN "related" ELSE "none"
  BY Zenon DEF SkillMatch, SelectInSeq
<1> HIDE DEF q
<1>3. D \in SUBSET Nat /\ R \in SUBSET Nat /\ 0 \notin D /\ 0 \notin R
  BY <1>1 DEF IsList
<1>4. D # {} <=> direct # 0
  <2> HIDE DEF D
  <2> QED BY <1>3, LeastOf
<1>5. R # {} <=> related # 0
  <2> HIDE DEF R
  <2> QED BY <1>3, LeastOf
<1>6. D # {} <=> wanted \in Offered(skills)
  BY <1>1
<1>7. R # {} <=> \E key \in Offered(skills) : wanted \in RelatedTo(taxonomy, key)
  <2>1. R # {} <=> \E n \in 1..Len(q) : wanted \in RelatedTo(taxonomy, q[n].key)
    BY Zenon
  <2> HIDE DEF R
  <2> QED BY <1>1, <2>1, Zenon
<1> HIDE DEF D, R, direct, related
<1> QED BY <1>2, <1>4, <1>5, <1>6, <1>7 DEF TypeOffered

\* With more to offer a match is as strong or stronger.
LEMMA MatchGrows ==
    ASSUME NEW taxonomy, NEW wanted, NEW few, IsList(few), NEW more, IsList(more),
           Offered(few) \subseteq Offered(more)
    PROVE  /\ Strength(SkillMatch(taxonomy, wanted, few)) <=
                Strength(SkillMatch(taxonomy, wanted, more))
           /\ SkillMatch(taxonomy, wanted, more).type = "none" =>
                SkillMatch(taxonomy, wanted, few).type = "none"
<1> DEFINE a == SkillMatch(taxonomy, wanted, few)
           b == SkillMatch(taxonomy, wanted, more)
<1>1. /\ a.type = TypeOffered(taxonomy, wanted, Offered(few))
      /\ b.type = TypeOffered(taxonomy, wanted, Offered(more))
  BY MatchType, Zenon
<1> HIDE DEF a, b
<1>2. \/ a.type = "none" /\ b.type \in {"none", "related", "direct"}
      \/ a.type = "related" /\ b.type \in {"related", "direct"}
      \/ a.type = "direct" /\ b.type = "direct"
  BY <1>1 DEF TypeOffered
<1>3. One \in Nat /\ 3 * (One \div 5) \in Nat /\ 3 * (One \div 5) <= One
  BY ScoringAssumption
<1>4. \A m : Strength(m) =
               [direct |-> One, related |-> 3 * (One \div 5), none |-> 0][m.type]
  BY Zenon DEF Strength
<1> DEFINE mid == 3 * (One \div 5)
<1>5. Strength(a) <= Strength(b)
  <2> HIDE DEF mid
  <2>1. \A m : /\ m.type = "direct" => Strength(m) = One
               /\ m.type = "related" => Strength(m) = mid
               /\ m.type = "none" => Strength(m) = 0
    BY <1>4 DEF mid
  <2>2. One \in Nat /\ mid \in Nat /\ mid <= One
    BY <1>3 DEF mid
  <2> QED BY <1>2, <2>1, <2>2
<1> QED BY <1>2, <1>5 DEF a, b

\* Larger terms have a larger sum.
LEMMA TotalGrows ==
    ASSUME NEW s \in Seq(Int), NEW r \in Seq(Int), Len(s) = Len(r),
           \A i \in 1..Len(s) : s[i] <= r[i]
    PROVE  Total(s) <= Total(r)
<1> DEFINE N == Len(s)
<1>1. N \in Nat /\ \A i \in 1..N : s[i] \in Int /\ r[i] \in Int
  OBVIOUS
<1>2. PICK t : Running(t, s) /\ Total(s) = t[N]
  BY TotalRuns
<1>3. PICK u : Running(u, r) /\ Total(r) = u[N]
  BY TotalRuns
<1>4. /\ t[0] = 0 /\ \A n \in 0..N : t[n] \in Int
      /\ \A n \in 1..N : t[n] = t[n - 1] + s[n]
  BY <1>2 DEF Running
<1>5. /\ u[0] = 0 /\ \A n \in 0..N : u[n] \in Int
      /\ \A n \in 1..N : u[n] = u[n - 1] + r[n]
  BY <1>3 DEF Running
<1> DEFINE T == {n \in 0..N : t[n] <= u[n]}
<1>6. 0 \in T
  BY <1>1, <1>4, <1>5
<1>7. ASSUME NEW n \in 1..N, n - 1 \in T
      PROVE  n \in T
  <2>1. n \in 0..N /\ n - 1 \in 0..N
    BY <1>1
  <2>2. t[n - 1] \in Int /\ u[n - 1] \in Int /\ s[n] \in Int /\ r[n] \in Int
    BY <1>1, <1>4, <1>5, <2>1
  <2>3. t[n - 1] <= u[n - 1] /\ s[n] <= r[n]
    BY <1>7
  <2>4. t[n] <= u[n]
    BY <1>4, <1>5, <2>2, <2>3
  <2> QED BY <2>1, <2>4
<1>8. \A n \in 0..N : n \in T
  <2> HIDE DEF T
  <2> QED BY <1>1, <1>6, <1>7, UpTo
<1>9. N \in 0..N
  BY <1>1
<1> QED BY <1>2, <1>3, <1>8, <1>9

\* Rounding down keeps the order.
LEMMA QuotientsGrow ==
    ASSUME NEW a \in Int, NEW b \in Int, a <= b, NEW n \in Nat \ {0}
    PROVE  a \div n \in Int /\ b \div n \in Int /\ a \div n <= b \div n
<1> DEFINE p == a \div n
           q == b \div n
<1>1. p \in Int /\ n * p <= a
  OBVIOUS
<1>2. q \in Int /\ b < n * q + n
  OBVIOUS
<1> HIDE DEF p, q
<1>3. n * p < n * q + n
  <2>1. n * p \in Int /\ n * q \in Int
    BY <1>1, <1>2
  <2> QED BY <1>1, <1>2, <2>1
<1>4. n * q + n = n * (q + 1)
  BY <1>2
<1>5. p < q + 1
  <2> SUFFICES ASSUME p >= q + 1 PROVE FALSE
    BY <1>1, <1>2
  <2> DEFINE d == p - (q + 1)
  <2>1. d \in Nat /\ p = (q + 1) + d
    BY <1>1, <1>2
  <2>2. n * d >= 0 /\ n * d \in Int
    BY <2>1
  <2>3. n * p = n * (q + 1) + n * d
    <3> HIDE DEF d
    <3> QED BY <1>2, <2>1
  <2> HIDE DEF d
  <2>4. n * p \in Int /\ n * (q + 1) \in Int
    BY <1>1, <1>2
  <2> QED BY <1>3, <1>4, <2>2, <2>3, <2>4
<1> QED BY <1>1, <1>2, <1>5 DEF p, q

\* One match for each skill that is wanted.
OneEach(m, taxonomy, wanted, skills) ==
    /\ IsList(m) /\ Len(m) = Len(wanted) /\ m = [i \in DOMAIN m |-> m[i]]
    /\ \A i \in 1..Len(m) : m[i] = SkillMatch(taxonomy, wanted[i].key, skills)

LEMMA MatchesListed ==
    ASSUME NEW taxonomy, NEW wanted, IsList(wanted), NEW skills
    PROVE  OneEach(MatchSkills(taxonomy, wanted, skills), taxonomy, wanted, skills)
<1> DEFINE m == MatchSkills(taxonomy, wanted, skills)
<1>1. Len(wanted) \in Nat /\ DOMAIN wanted = 1..Len(wanted)
  BY DEF IsList
<1>2. m = [i \in 1..Len(wanted) |-> SkillMatch(taxonomy, wanted[i].key, skills)]
  BY <1>1, Zenon DEF MatchSkills
<1> HIDE DEF m
<1>3. /\ DOMAIN m = 1..Len(wanted) /\ m = [i \in 1..Len(wanted) |-> m[i]]
      /\ \A i \in 1..Len(wanted) : m[i] = SkillMatch(taxonomy, wanted[i].key, skills)
  BY <1>2, Zenon
<1>4. IsList(m) /\ Len(m) = Len(wanted)
  BY <1>1, <1>3, FunctionIsList
<1> QED BY <1>3, <1>4, Zenon DEF OneEach, m

Rises(old, new) == (old = Absent <=> new = Absent) /\ (old # Absent => old <= new)

\* With more to offer no list of skills is covered less.
LEMMA CoverageGrows ==
    ASSUME NEW taxonomy, NEW wanted, IsList(wanted), NEW few, IsList(few),
           NEW more, IsList(more), Offered(few) \subseteq Offered(more)
    PROVE  Rises(Coverage(MatchSkills(taxonomy, wanted, few)),
                 Coverage(MatchSkills(taxonomy, wanted, more)))
<1> DEFINE a == MatchSkills(taxonomy, wanted, few)
           b == MatchSkills(taxonomy, wanted, more)
           s == [i \in DOMAIN a |-> Strength(a[i])]
           r == [i \in DOMAIN b |-> Strength(b[i])]
           n == Len(wanted)
<1>1. /\ Coverage(a) = IF a = <<>> THEN Absent ELSE Total(s) \div Len(a)
      /\ Coverage(b) = IF b = <<>> THEN Absent ELSE Total(r) \div Len(b)
  BY Zenon DEF Coverage
<1>2. /\ IsList(a) /\ Len(a) = n /\ a = [i \in DOMAIN a |-> a[i]]
      /\ \A i \in 1..Len(a) : a[i] = SkillMatch(taxonomy, wanted[i].key, few)
  <2>1. OneEach(a, taxonomy, wanted, few)
    BY MatchesListed, Zenon
  <2> HIDE DEF a, b
  <2> QED BY <2>1, Zenon DEF OneEach
<1>3. /\ IsList(b) /\ Len(b) = n /\ b = [i \in DOMAIN b |-> b[i]]
      /\ \A i \in 1..Len(b) : b[i] = SkillMatch(taxonomy, wanted[i].key, more)
  <2>1. OneEach(b, taxonomy, wanted, more)
    BY MatchesListed, Zenon
  <2> HIDE DEF a, b
  <2> QED BY <2>1, Zenon DEF OneEach
<1> HIDE DEF a, b
<1>4. n \in Nat /\ DOMAIN a = 1..n /\ DOMAIN b = 1..n
  BY <1>2, <1>3 DEF IsList
<1>5. ASSUME NEW i \in 1..n
      PROVE  Strength(a[i]) \in Int /\ Strength(b[i]) \in Int /\ Strength(a[i]) <= Strength(b[i])
  <2>1. /\ a[i] = SkillMatch(taxonomy, wanted[i].key, few)
        /\ b[i] = SkillMatch(taxonomy, wanted[i].key, more)
    BY <1>2, <1>3
  <2> DEFINE key == wanted[i].key
  <2>2. Strength(a[i]) \in Nat /\ Strength(b[i]) \in Nat
    BY <2>1, StrengthType, Zenon
  <2>3. Strength(SkillMatch(taxonomy, key, few)) <= Strength(SkillMatch(taxonomy, key, more))
    BY MatchGrows, Zenon
  <2> QED BY <2>1, <2>2, <2>3
<1>6. s \in [1..n -> Int] /\ r \in [1..n -> Int] /\ \A i \in 1..n : s[i] <= r[i]
  BY <1>4, <1>5
<1> HIDE DEF s, r
<1>7. s \in Seq(Int) /\ r \in Seq(Int) /\ Len(s) = n /\ Len(r) = n
  BY <1>4, <1>6
<1>8. Total(s) \in Int /\ Total(r) \in Int /\ Total(s) <= Total(r)
  BY <1>6, <1>7, TotalGrows, TotalType
<1>9. CASE n = 0
  <2>1. a = <<>> /\ b = <<>>
    BY <1>2, <1>3, <1>4, <1>9
  <2> QED BY <1>1, <2>1 DEF Rises, a, b
<1>10. CASE n # 0
  <2>1. a # <<>> /\ b # <<>>
    BY <1>2, <1>3, <1>10
  <2> DEFINE low == Total(s) \div n
             high == Total(r) \div n
  <2>2. low \in Int /\ high \in Int /\ low <= high
    BY <1>4, <1>8, <1>10, QuotientsGrow
  <2>3. Coverage(a) = low /\ Coverage(b) = high
    BY <1>1, <1>2, <1>3, <2>1
  <2> HIDE DEF low, high
  <2>4. Absent \notin Int
    BY ScoringAssumption
  <2> QED BY <2>2, <2>3, <2>4 DEF Rises, a, b
<1> QED BY <1>9, <1>10

LEMMA WeightedGrows ==
    ASSUME NEW a \in Seq(Part), NEW b \in Seq(Part), Len(a) = Len(b),
           \A i \in 1..Len(a) : a[i].weight = b[i].weight /\ Rises(a[i].value, b[i].value)
    PROVE  Weighted(a)[1] <= Weighted(b)[1] /\ Weighted(a)[2] = Weighted(b)[2]
<1> DEFINE N == Len(a)
           v == [i \in DOMAIN a |-> IF a[i].value = Absent THEN 0 ELSE a[i].weight]
           w == [i \in DOMAIN b |-> IF b[i].value = Absent THEN 0 ELSE b[i].weight]
           s == [i \in DOMAIN a |-> IF v[i] = 0 THEN 0 ELSE v[i] * a[i].value]
           r == [i \in DOMAIN b |-> IF w[i] = 0 THEN 0 ELSE w[i] * b[i].value]
<1>1. Weighted(a) = <<Total(s), Total(v)>> /\ Weighted(b) = <<Total(r), Total(w)>>
  BY Zenon DEF Weighted
<1>2. N \in Nat /\ DOMAIN a = 1..N /\ DOMAIN b = 1..N
  OBVIOUS
<1>3. \A i \in 1..N : a[i] \in Part /\ b[i] \in Part
  BY <1>2
<1>4. \A i \in 1..N : /\ a[i].weight \in Nat /\ a[i].value \in Int \cup {Absent}
                      /\ b[i].weight \in Nat /\ b[i].value \in Int \cup {Absent}
  BY <1>3 DEF Part
<1>5. v = w
  <2>1. \A i \in 1..N : (IF a[i].value = Absent THEN 0 ELSE a[i].weight) =
                        (IF b[i].value = Absent THEN 0 ELSE b[i].weight)
    BY DEF Rises
  <2> QED BY <1>2, <2>1
<1>6. \A i \in 1..N : v[i] \in Nat /\ (v[i] # 0 => a[i].value # Absent /\ b[i].value # Absent)
  BY <1>2, <1>4 DEF Rises
<1>7. /\ s = [i \in 1..N |-> IF v[i] = 0 THEN 0 ELSE v[i] * a[i].value]
      /\ r = [i \in 1..N |-> IF v[i] = 0 THEN 0 ELSE v[i] * b[i].value]
  BY <1>2, <1>5, Zenon
<1> HIDE DEF v, w, s, r
<1>8. ASSUME NEW i \in 1..N
      PROVE  s[i] \in Int /\ r[i] \in Int /\ s[i] <= r[i]
  <2>1. CASE v[i] = 0
    <3>1. s[i] = 0 /\ r[i] = 0
      BY <1>7, <2>1
    <3> QED BY <3>1
  <2>2. CASE v[i] # 0
    <3> DEFINE x == a[i].value  y == b[i].value  k == v[i]
    <3>1. x \in Int /\ y \in Int /\ k \in Nat /\ x <= y
      BY <1>4, <1>6, <2>2 DEF Rises
    <3>2. s[i] = k * x /\ r[i] = k * y
      BY <1>7, <2>2
    <3> HIDE DEF x, y, k
    <3>3. k * x \in Int /\ k * y \in Int /\ k * x <= k * y
      <4>1. k * (y - x) >= 0 /\ k * (y - x) = k * y - k * x
        BY <3>1
      <4>2. k * x \in Int /\ k * y \in Int
        BY <3>1
      <4> QED BY <4>1, <4>2
    <3> QED BY <3>2, <3>3
  <2> QED BY <2>1, <2>2
<1>9. s \in [1..N -> Int] /\ r \in [1..N -> Int]
  BY <1>7, <1>8
<1>10. s \in Seq(Int) /\ r \in Seq(Int) /\ Len(s) = N /\ Len(r) = N
  <2>1. s \in Seq(Int) /\ Len(s) = N
    BY <1>2, <1>9, SeqDef, LenProperties
  <2>2. r \in Seq(Int) /\ Len(r) = N
    BY <1>2, <1>9, SeqDef, LenProperties
  <2> QED BY <2>1, <2>2
<1>11. Total(s) <= Total(r)
  BY <1>8, <1>10, TotalGrows
<1> QED BY <1>1, <1>5, <1>11

LEMMA SkillScoreGrows ==
    ASSUME NEW required, NEW preferred, NEW required2, NEW preferred2,
           Coverage(required) \in Int \cup {Absent},
           Coverage(preferred) \in Int \cup {Absent},
           Coverage(required2) \in Int \cup {Absent},
           Coverage(preferred2) \in Int \cup {Absent},
           Rises(Coverage(required), Coverage(required2)),
           Rises(Coverage(preferred), Coverage(preferred2)),
           SkillScore(required, preferred) # Absent
    PROVE  SkillScore(required2, preferred2) >= SkillScore(required, preferred)
<1> DEFINE a == <<[weight |-> 4, value |-> Coverage(required)],
                  [weight |-> 1, value |-> Coverage(preferred)]>>
           b == <<[weight |-> 4, value |-> Coverage(required2)],
                  [weight |-> 1, value |-> Coverage(preferred2)]>>
<1>1. a \in Seq(Part) /\ b \in Seq(Part) /\ Len(a) = 2 /\ Len(b) = 2
  BY DEF Part
<1>2. \A i \in 1..2 : a[i].weight = b[i].weight /\ Rises(a[i].value, b[i].value)
  <2> SUFFICES /\ a[1].weight = b[1].weight /\ Rises(a[1].value, b[1].value)
               /\ a[2].weight = b[2].weight /\ Rises(a[2].value, b[2].value)
    <3> HIDE DEF a, b
    <3>1. \A i \in 1..2 : i = 1 \/ i = 2
      OBVIOUS
    <3> QED BY <3>1
  <2> QED OBVIOUS
<1>3. /\ SkillScore(required, preferred) =
           IF Weighted(a)[2] = 0 THEN Absent ELSE Weighted(a)[1] \div Weighted(a)[2]
      /\ SkillScore(required2, preferred2) =
           IF Weighted(b)[2] = 0 THEN Absent ELSE Weighted(b)[1] \div Weighted(b)[2]
  BY Zenon DEF SkillScore
<1> HIDE DEF a, b
<1> DEFINE p == Weighted(a)[1]  q == Weighted(b)[1]  n == Weighted(a)[2]
<1>4. /\ p \in Int /\ q \in Int /\ n \in Nat
      /\ p <= q /\ Weighted(b)[2] = n
  BY <1>1, <1>2, WeightedMean, WeightedGrows
<1> HIDE DEF p, q, n
<1>5. n # 0 /\ SkillScore(required, preferred) = p \div n
      /\ SkillScore(required2, preferred2) = q \div n
  BY <1>3, <1>4 DEF p, q, n
<1>6. p \div n \in Int /\ q \div n \in Int /\ p \div n <= q \div n
  BY <1>4, <1>5, QuotientsGrow
<1> QED BY <1>5, <1>6

LEMMA MissingFewer ==
    ASSUME NEW taxonomy, NEW wanted, IsList(wanted), NEW few, IsList(few),
           NEW more, IsList(more), Offered(few) \subseteq Offered(more)
    PROVE  Len(OfType(MatchSkills(taxonomy, wanted, more), "none")) <=
               Len(OfType(MatchSkills(taxonomy, wanted, few), "none"))
<1> DEFINE a == MatchSkills(taxonomy, wanted, few)
           b == MatchSkills(taxonomy, wanted, more)
           P == {i \in DOMAIN a : a[i].type = "none"}
           Q == {i \in DOMAIN b : b[i].type = "none"}
<1>1. OneEach(a, taxonomy, wanted, few) /\ OneEach(b, taxonomy, wanted, more)
  BY MatchesListed, Zenon
<1> HIDE DEF a, b
<1>2. /\ Len(wanted) \in Nat /\ DOMAIN a = 1..Len(wanted) /\ DOMAIN b = 1..Len(wanted)
      /\ IsList(a) /\ IsList(b)
  BY <1>1 DEF OneEach, IsList
<1>3. ASSUME NEW i \in 1..Len(wanted), b[i].type = "none"
      PROVE  a[i].type = "none"
  <2>1. /\ a[i] = SkillMatch(taxonomy, wanted[i].key, few)
        /\ b[i] = SkillMatch(taxonomy, wanted[i].key, more)
    BY <1>1, <1>2 DEF OneEach, IsList
  <2> DEFINE key == wanted[i].key
  <2>2. SkillMatch(taxonomy, key, more).type = "none" =>
            SkillMatch(taxonomy, key, few).type = "none"
    BY MatchGrows, Zenon
  <2> QED BY <1>3, <2>1, <2>2
<1>4. Q \subseteq P /\ P \in SUBSET (1..Len(wanted)) /\ Q \in SUBSET (1..Len(wanted))
  BY <1>2, <1>3
<1>5. IsFiniteSet(1..Len(wanted))
  BY <1>2, FS_Interval
<1>6. /\ OfType(a, "none") = ElementsAt(a, P)
      /\ OfType(b, "none") = ElementsAt(b, Q)
  BY Zenon DEF OfType, Where, ElementsAt, Ascending
<1> HIDE DEF P, Q
<1>7. IsFiniteSet(P)
  BY <1>4, <1>5, FS_Subset
<1>8. Cardinality(Q) <= Cardinality(P)
  BY <1>4, <1>7, FS_Subset
<1>9. Selects(OfType(a, "none"), a, P) /\ Selects(OfType(b, "none"), b, Q)
  BY <1>2, <1>4, <1>6, WhereList
<1> QED BY <1>8, <1>9 DEF Selects, a, b

\* A skill as Normalize leaves it: with a key.
Keyed(skills) ==
    \A i \in DOMAIN skills :
        "key" \in DOMAIN skills[i] /\ skills[i] = [x \in DOMAIN skills[i] |-> skills[i][x]]

\* What Normalize returns is a list of skills with keys.
KeyedList(skills) ==
    IsList(skills) /\ skills = [i \in DOMAIN skills |-> skills[i]] /\ Keyed(skills)

LEMMA NormalizeKeys ==
    ASSUME NEW taxonomy, NEW skills, IsList(skills)
    PROVE  KeyedList(Normalize(taxonomy, skills))
<1> DEFINE e(i) == [part \in DOMAIN skills[i] \cup {"key"} |->
                      IF part = "key" THEN CanonicalKey(taxonomy, skills[i].name)
                      ELSE skills[i][part]]
           s == Normalize(taxonomy, skills)
<1>1. s = [i \in DOMAIN skills |-> e(i)]
  BY Zenon DEF Normalize
<1>2. ASSUME NEW i
      PROVE  "key" \in DOMAIN e(i) /\ e(i) = [x \in DOMAIN e(i) |-> e(i)[x]]
  OBVIOUS
<1>3. IsList(s)
  BY NormalizeLists, Zenon
<1> HIDE DEF s, e
<1>4. s = [i \in DOMAIN s |-> s[i]] /\ DOMAIN s = DOMAIN skills
  BY <1>1, Zenon
<1>5. Keyed(s)
  <2>1. \A i \in DOMAIN s : s[i] = e(i)
    BY <1>1, <1>4, Zenon
  <2> QED BY <1>2, <2>1, Zenon DEF Keyed
<1> QED BY <1>3, <1>4, <1>5, Zenon DEF KeyedList, s

LEMMA MoreOffered ==
    ASSUME NEW few, KeyedList(few), NEW new, KeyedList(new), NEW q,
           Concatenates(q, new, few) \/ Concatenates(q, few, new)
    PROVE  IsList(q) /\ Offered(few) \subseteq Offered(q)
<1>1. /\ IsList(few) /\ few = [i \in DOMAIN few |-> few[i]]
      /\ IsList(new) /\ new = [i \in DOMAIN new |-> new[i]]
  BY Zenon DEF KeyedList
<1>2. /\ Len(few) \in Nat /\ DOMAIN few = 1..Len(few)
      /\ Len(new) \in Nat /\ DOMAIN new = 1..Len(new)
  BY <1>1 DEF IsList
<1>3. CASE Concatenates(q, new, few)
  <2>1. /\ IsList(q) /\ Len(q) = Len(new) + Len(few)
        /\ \A i \in 1..Len(q) : q[i] = IF i <= Len(new) THEN new[i] ELSE few[i - Len(new)]
    BY <1>1, <1>3, JoinedLists
  <2>2. \A i \in DOMAIN few : Len(new) + i \in DOMAIN q /\ q[Len(new) + i] = few[i]
    BY <1>2, <2>1 DEF IsList
  <2> QED BY <2>1, <2>2 DEF Offered
<1>4. CASE Concatenates(q, few, new)
  <2>1. /\ IsList(q) /\ Len(q) = Len(few) + Len(new)
        /\ \A i \in 1..Len(q) : q[i] = IF i <= Len(few) THEN few[i] ELSE new[i - Len(few)]
    BY <1>1, <1>4, JoinedLists
  <2>2. \A i \in DOMAIN few : i \in DOMAIN q /\ q[i] = few[i]
    BY <1>2, <2>1 DEF IsList
  <2> QED BY <2>1, <2>2 DEF Offered
<1> QED BY <1>3, <1>4

LEMMA IncludedOffered ==
    ASSUME NEW few, KeyedList(few), NEW i \in DOMAIN few, NEW q,
           q = [few EXCEPT ![i].excluded = FALSE]
    PROVE  IsList(q) /\ Offered(few) \subseteq Offered(q)
<1> DEFINE f == few[i]
           g == [f EXCEPT !.excluded = FALSE]
<1>1. /\ IsList(few) /\ few = [k \in DOMAIN few |-> few[k]]
      /\ "key" \in DOMAIN f /\ f = [x \in DOMAIN f |-> f[x]]
  BY Zenon DEF KeyedList, Keyed
<1>2. q = [few EXCEPT ![i] = g]
  OBVIOUS
<1>3. g.key = f.key /\ (~ f.excluded => ~ g.excluded)
  <2> HIDE DEF f
  <2>1. g = [x \in DOMAIN f |-> IF x = "excluded" THEN FALSE ELSE f[x]]
    OBVIOUS
  <2>2. g.key = f.key
    BY <1>1, <2>1
  <2>3. CASE "excluded" \in DOMAIN f
    BY <2>1, <2>3
  <2>4. CASE "excluded" \notin DOMAIN f
    <3>1. g = [x \in DOMAIN f |-> f[x]]
      BY <2>1, <2>4
    <3>2. g = f
      BY <1>1, <3>1
    <3> HIDE DEF g
    <3> QED BY <3>2
  <2> QED BY <2>2, <2>3, <2>4
<1> HIDE DEF f, g
<1>4. DOMAIN q = DOMAIN few /\ q = [k \in DOMAIN few |-> q[k]]
  BY <1>1, <1>2
<1>5. IsList(q)
  <2>1. DOMAIN q = 1..Len(few) /\ Len(few) \in Nat
    BY <1>1, <1>4 DEF IsList
  <2>2. q = [k \in 1..Len(few) |-> q[k]]
    BY <1>4, <2>1, Zenon
  <2> QED BY <2>1, <2>2, FunctionIsList
<1>6. ASSUME NEW k \in DOMAIN few, ~ few[k].excluded
      PROVE  q[k].key = few[k].key /\ ~ q[k].excluded
  <2>1. CASE k = i
    <3>1. q[k] = g /\ few[k] = f
      BY <1>2, <2>1 DEF f
    <3> QED BY <1>3, <1>6, <3>1
  <2>2. CASE k # i
    <3>1. q[k] = few[k]
      BY <1>2, <2>2
    <3> QED BY <1>6, <3>1
  <2> QED BY <2>1, <2>2
<1>7. Offered(few) \subseteq Offered(q)
  BY <1>4, <1>6, Zenon DEF Offered
<1> QED BY <1>5, <1>7

Skilled(profile) ==
    /\ profile = [skills |-> profile.skills, years |-> profile.years, roles |-> profile.roles,
                  seniority |-> profile.seniority, modes |-> profile.modes,
                  places |-> profile.places]
    /\ KeyedList(profile.skills)

LEMMA StoredSkills ==
    ASSUME StoredFits, NEW revision \in Nat
    PROVE  Skilled(ApprovedProfile(revision))
<1> DEFINE p == ProfileAt(revision)
           skills == Normalize(Taxonomy, p.skills)
           q == ApprovedProfile(revision)
<1>1. IsProfile(p)
  BY Zenon DEF StoredFits
<1>2. q = [p EXCEPT !.skills = skills]
  BY DEF ApprovedProfile
<1>3. KeyedList(skills)
  BY <1>1, NormalizeKeys, Zenon DEF IsProfile, ProfileFits
<1> HIDE DEF p, q, skills
<1>4. /\ q.skills = skills
      /\ q = [skills |-> q.skills, years |-> q.years, roles |-> q.roles,
              seniority |-> q.seniority, modes |-> q.modes, places |-> q.places]
  BY <1>1, <1>2 DEF IsProfile
<1> QED BY <1>3, <1>4, Zenon DEF Skilled, q

\* Whatever MoreSkilled adds, nothing that was offered is lost.
LEMMA MoreSkilledOffers ==
    ASSUME NEW profile, Skilled(profile), NEW better \in MoreSkilled(profile)
    PROVE  IsList(better.skills) /\ Offered(profile.skills) \subseteq Offered(better.skills)
<1> DEFINE one(n) == Normalize(Taxonomy, <<[name |-> n, excluded |-> FALSE]>>)
           named == {one(n) : n \in {name \in Names : Nameable(name)}}
           few == profile.skills
<1>1. KeyedList(few)
  BY DEF Skilled
<1>2. \A new \in named : KeyedList(new)
  <2> TAKE new \in named
  <2>1. PICK n : new = one(n)
    BY Zenon
  <2>2. IsList(<<[name |-> n, excluded |-> FALSE]>>)
    BY DEF IsList
  <2> QED BY <2>1, <2>2, NormalizeKeys, Zenon
<1>3. \/ \E new \in named : better = [profile EXCEPT !.skills = new \o @]
      \/ \E new \in named : better = [profile EXCEPT !.skills = @ \o new]
      \/ \E i \in DOMAIN few : better = [profile EXCEPT !.skills[i].excluded = FALSE]
  BY Zenon DEF MoreSkilled
<1> HIDE DEF named
<1>4. CASE \E new \in named : better = [profile EXCEPT !.skills = new \o @]
  <2>1. PICK new \in named : better = [profile EXCEPT !.skills = new \o @]
    BY <1>4
  <2>2. better.skills = new \o few
    BY <2>1 DEF Skilled
  <2>3. Concatenates(better.skills, new, few)
    BY <2>2 DEF Concatenates
  <2> HIDE DEF few
  <2> QED BY <1>1, <1>2, <2>3, MoreOffered DEF few
<1>5. CASE \E new \in named : better = [profile EXCEPT !.skills = @ \o new]
  <2>1. PICK new \in named : better = [profile EXCEPT !.skills = @ \o new]
    BY <1>5
  <2>2. better.skills = few \o new
    BY <2>1 DEF Skilled
  <2>3. Concatenates(better.skills, few, new)
    BY <2>2 DEF Concatenates
  <2> HIDE DEF few
  <2> QED BY <1>1, <1>2, <2>3, MoreOffered DEF few
<1>6. CASE \E i \in DOMAIN few : better = [profile EXCEPT !.skills[i].excluded = FALSE]
  <2>1. PICK i \in DOMAIN few : better = [profile EXCEPT !.skills[i].excluded = FALSE]
    BY <1>6
  <2>2. better.skills = [few EXCEPT ![i].excluded = FALSE]
    BY <2>1 DEF Skilled
  <2> HIDE DEF few
  <2> QED BY <1>1, <2>1, <2>2, IncludedOffered DEF few
<1> QED BY <1>3, <1>4, <1>5, <1>6

NeverLess(few, more, facts) ==
    LET old == SkillCoverage(Taxonomy, few, facts)
        new == SkillCoverage(Taxonomy, more, facts) IN
    /\ old.score # Absent => new.score >= old.score
    /\ Len(OfType(new.required, "none")) <= Len(OfType(old.required, "none"))
    /\ Len(OfType(new.preferred, "none")) <= Len(OfType(old.preferred, "none"))

LEMMA NeverScoredLess ==
    ASSUME NEW few, IsList(few.skills), NEW more, IsList(more.skills), NEW facts,
           IsList(facts.required), IsList(facts.preferred),
           Offered(few.skills) \subseteq Offered(more.skills)
    PROVE  NeverLess(few, more, facts)
<1> DEFINE r == MatchSkills(Taxonomy, facts.required, few.skills)
           p == MatchSkills(Taxonomy, facts.preferred, few.skills)
           r2 == MatchSkills(Taxonomy, facts.required, more.skills)
           p2 == MatchSkills(Taxonomy, facts.preferred, more.skills)
           old == SkillCoverage(Taxonomy, few, facts)
           new == SkillCoverage(Taxonomy, more, facts)
<1>1. /\ Coverage(r) \in Int \cup {Absent} /\ Coverage(p) \in Int \cup {Absent}
      /\ Coverage(r2) \in Int \cup {Absent} /\ Coverage(p2) \in Int \cup {Absent}
  BY CoverageType, Zenon
<1>2. Rises(Coverage(r), Coverage(r2)) /\ Rises(Coverage(p), Coverage(p2))
  BY CoverageGrows, Zenon
<1>3. /\ Len(OfType(r2, "none")) <= Len(OfType(r, "none"))
      /\ Len(OfType(p2, "none")) <= Len(OfType(p, "none"))
  BY MissingFewer, Zenon
<1>4. /\ old = [required |-> r, preferred |-> p, score |-> SkillScore(r, p)]
      /\ new = [required |-> r2, preferred |-> p2, score |-> SkillScore(r2, p2)]
  BY Zenon DEF SkillCoverage
<1> HIDE DEF r, p, r2, p2
<1>5. SkillScore(r, p) # Absent => SkillScore(r2, p2) >= SkillScore(r, p)
  BY <1>1, <1>2, SkillScoreGrows
<1> HIDE DEF old, new
<1>6. /\ old.required = r /\ old.preferred = p /\ old.score = SkillScore(r, p)
      /\ new.required = r2 /\ new.preferred = p2 /\ new.score = SkillScore(r2, p2)
  BY <1>4
<1> QED BY <1>3, <1>5, <1>6, Zenon DEF NeverLess, old, new

\* What the skill map says is missing.
LEMMA MapCounts ==
    ASSUME NEW profile, NEW facts, NEW c \in SkillMap(Taxonomy, profile, facts)
    PROVE  LET coverage == SkillCoverage(Taxonomy, profile, facts) IN
           /\ c.missing_required = Len(OfType(coverage.required, "none"))
           /\ c.missing_preferred = Len(OfType(coverage.preferred, "none"))
  BY DEF SkillMap

LEMMA InvNeverHurts ==
    ASSUME StoredFits, MatchingInv
    PROVE  AnotherSkillNeverHurts
<1> SUFFICES ASSUME matching.at = "hydrating", NEW hit \in matching.found
             PROVE  LET facts == JobFacts(hit.id, jobs[hit.id].version)
                        profile == ApprovedProfile(matching.profile)
                        score == SkillCoverage(Taxonomy, profile, facts).score IN
                    \A better \in MoreSkilled(profile) :
                      /\ score # Absent =>
                           SkillCoverage(Taxonomy, better, facts).score >= score
                      /\ \A old \in SkillMap(Taxonomy, profile, facts),
                            new \in SkillMap(Taxonomy, better, facts) :
                           /\ new.missing_required <= old.missing_required
                           /\ new.missing_preferred <= old.missing_preferred
  BY Zenon DEF AnotherSkillNeverHurts, MatchAt
<1>1. hit.id \in Jobs /\ matching.profile \in Nat
  BY DEF MatchingInv, RequestInv, HitsFit, Scorable
<1>2. jobs[hit.id].version \in Nat
  BY <1>1 DEF MatchingInv, IInv, SavedJobsTypeOK, JobStoreTypeOK, JobRow
<1> DEFINE facts == JobFacts(hit.id, jobs[hit.id].version)
           profile == ApprovedProfile(matching.profile)
<1>3. IsList(facts.required) /\ IsList(facts.preferred)
  BY <1>1, <1>2, StoredFacts, Zenon DEF PostFits
<1>4. Skilled(profile)
  BY <1>1, StoredSkills, Zenon
<1> HIDE DEF facts, profile
<1>5. ASSUME NEW better \in MoreSkilled(profile)
      PROVE  NeverLess(profile, better, facts)
  <2>1. IsList(better.skills) /\ Offered(profile.skills) \subseteq Offered(better.skills)
    BY <1>4, <1>5, MoreSkilledOffers
  <2>2. IsList(profile.skills)
    BY <1>4 DEF Skilled, KeyedList
  <2> QED BY <1>3, <2>1, <2>2, NeverScoredLess
<1>6. ASSUME NEW better \in MoreSkilled(profile),
             NEW old \in SkillMap(Taxonomy, profile, facts),
             NEW new \in SkillMap(Taxonomy, better, facts)
      PROVE  /\ new.missing_required <= old.missing_required
             /\ new.missing_preferred <= old.missing_preferred
  BY <1>5, <1>6, MapCounts, Zenon DEF NeverLess
<1> QED BY <1>5, <1>6, Zenon DEF NeverLess, facts, profile

-----------------------------------------------------------------------------
(* Names *)

Texts == STRING
Nothing == ""

\* The empty text is one, texts join to one, and the empty one adds nothing.
TextsJoin ==
    /\ Nothing \in Texts
    /\ \A text, word \in Texts : Join(text, word) \in Texts
    /\ \A text \in Texts : Join(text, Nothing) = text

\* The texts that Fingerprint goes through.
Spells(t, s) ==
    /\ t \in [0..Len(s) -> Texts] /\ t[0] = Nothing
    /\ \A n \in 1..Len(s) : t[n] = Join(t[n - 1], s[n])

LEMMA SpellingExists ==
    ASSUME TextsJoin, NEW s \in Seq(Texts)
    PROVE  \E t : Spells(t, s)
<1> DEFINE N == Len(s)
           Spelt(n) == {t \in [0..N -> Texts] :
                          t[0] = Nothing /\ \A i \in 1..n : t[i] = Join(t[i - 1], s[i])}
           T == {n \in 0..N : Spelt(n) # {}}
<1>1. N \in Nat /\ Nothing \in Texts /\ \A i \in 1..N : s[i] \in Texts
  <2>1. Nothing \in Texts
    BY Zenon DEF TextsJoin
  <2> QED BY <2>1
<1>2. 0 \in T
  <2>1. [i \in 0..N |-> Nothing] \in Spelt(0)
    BY <1>1
  <2> QED BY <2>1, <1>1
<1>3. ASSUME NEW n \in 1..N, n - 1 \in T
      PROVE  n \in T
  <2>1. PICK t : t \in Spelt(n - 1)
    BY <1>3
  <2> DEFINE u == [t EXCEPT ![n] = Join(t[n - 1], s[n])]
  <2>2. u \in [0..N -> Texts] /\ u[0] = Nothing
    <3>1. n \in 0..N /\ n # 0 /\ n - 1 \in 0..N
      BY <1>1
    <3>2. t \in [0..N -> Texts] /\ t[0] = Nothing
      BY <2>1
    <3>3. Join(t[n - 1], s[n]) \in Texts
      BY <1>1, <3>1, <3>2 DEF TextsJoin
    <3> QED BY <3>1, <3>2, <3>3
  <2>3. \A i \in 1..n : u[i] = Join(u[i - 1], s[i])
    BY <1>1, <2>1
  <2>4. u \in Spelt(n)
    BY <2>2, <2>3
  <2>5. n \in 0..N
    BY <1>1
  <2> HIDE DEF Spelt, u
  <2> QED BY <2>4, <2>5
<1>4. \A n \in 0..N : n \in T
  <2> HIDE DEF T
  <2> QED BY <1>1, <1>2, <1>3, UpTo
<1>5. Spelt(N) # {}
  <2> HIDE DEF Spelt
  <2> QED BY <1>1, <1>4
<1> QED BY <1>5 DEF Spells

LEMMA PrintSpells ==
    ASSUME TextsJoin, NEW s \in Seq(Texts)
    PROVE  \E t : Spells(t, s) /\ Fingerprint(s) = t[Len(s)]
<1> DEFINE N == Len(s)
           Body(g) == [n \in 0..N |-> IF n = 0 THEN Nothing ELSE Join(g[n - 1], s[n])]
           print == CHOOSE g : g = Body(g)
<1>1. N \in Nat /\ Nothing \in Texts /\ \A i \in 1..N : s[i] \in Texts
  <2>1. Nothing \in Texts
    BY Zenon DEF TextsJoin
  <2> QED BY <2>1
<1>2. PICK t : Spells(t, s)
  BY SpellingExists
<1>3. t = Body(t)
  <2>1. t = [n \in 0..N |-> t[n]]
    BY <1>2 DEF Spells
  <2>2. \A n \in 0..N : t[n] = IF n = 0 THEN Nothing ELSE Join(t[n - 1], s[n])
    BY <1>1, <1>2 DEF Spells
  <2> QED BY <2>1, <2>2, Zenon
<1>4. print = Body(print)
  <2> HIDE DEF Body
  <2> QED BY <1>3, Zenon
<1>5. Fingerprint(s) = print[N]
  BY Zenon DEF Fingerprint, Nothing
<1>6. \A n \in 0..N : print[n] = IF n = 0 THEN Nothing ELSE Join(print[n - 1], s[n])
  <2> HIDE DEF print
  <2> QED BY <1>4, Zenon
<1>7. DOMAIN print = 0..N /\ print = [n \in 0..N |-> print[n]]
  <2> HIDE DEF print
  <2> QED BY <1>4, Zenon
<1> HIDE DEF print
<1>8. \A n \in 0..N : print[n] \in Texts
  <2> DEFINE T == {n \in 0..N : print[n] \in Texts}
  <2>1. 0 \in T
    BY <1>1, <1>6
  <2>2. \A n \in 1..N : n - 1 \in T => n \in T
    BY <1>1, <1>6 DEF TextsJoin
  <2>3. \A n \in 0..N : n \in T
    <3> HIDE DEF T
    <3> QED BY <1>1, <2>1, <2>2, UpTo
  <2> QED BY <2>3
<1>9. print \in [0..N -> Texts]
  BY <1>7, <1>8
<1>10. \A n \in 1..N : print[n] = Join(print[n - 1], s[n])
  BY <1>1, <1>6
<1>11. Spells(print, s)
  BY <1>1, <1>6, <1>9, <1>10 DEF Spells
<1> QED BY <1>5, <1>11

\* Words without letters leave no print.
LEMMA PrintOfWords ==
    ASSUME TextsJoin, NEW raw \in Seq(Texts)
    PROVE  Fingerprint(Words(raw)) = Fingerprint(raw)
<1> DEFINE P == {i \in DOMAIN raw : raw[i] # Nothing}
           places == Ascending(P)
           q == Words(raw)
           N == Len(raw)
           M == Len(q)
<1>1. N \in Nat /\ DOMAIN raw = 1..N /\ \A i \in 1..N : raw[i] \in Texts
  OBVIOUS
<1>2. q = ElementsAt(raw, P)
  BY Zenon DEF Words, Where, ElementsAt, Ascending, Nothing
<1>3. P \in SUBSET (1..N) /\ \A i \in (1..N) \ P : raw[i] = Nothing
  BY <1>1
<1> HIDE DEF P, q
<1>4. P \in SUBSET Nat /\ IsFiniteSet(P)
  <2>1. IsFiniteSet(1..N)
    BY <1>1, FS_Interval
  <2>2. IsFiniteSet(P)
    BY <1>3, <2>1, FS_Subset
  <2> QED BY <1>3, <2>2
<1>5. /\ IsList(places) /\ Len(places) = Cardinality(P)
      /\ \A n \in 1..Len(places) : places[n] \in P
      /\ \A i, j \in 1..Len(places) : i < j => places[i] < places[j]
      /\ \A x \in P : \E n \in 1..Len(places) : places[n] = x
  BY <1>4, NumbersInOrder, Zenon DEF Ascending
<1>6. q = [n \in DOMAIN places |-> raw[places[n]]]
  BY <1>2, Zenon DEF ElementsAt
<1> HIDE DEF places
<1>7. DOMAIN q = 1..Len(places) /\ Len(places) \in Nat
  BY <1>5, <1>6, Zenon DEF IsList
<1>8. q \in Seq(Texts) /\ M = Len(places) /\ M \in Nat
  <2>1. \A n \in 1..Len(places) : raw[places[n]] \in Texts
    BY <1>1, <1>3, <1>5
  <2>2. q \in [1..Len(places) -> Texts]
    BY <1>6, <1>7, <2>1
  <2> QED BY <1>7, <2>2
<1>9. \A n \in 1..M : /\ q[n] = raw[places[n]] /\ places[n] \in P
                      /\ places[n] \in Nat /\ places[n] <= N
  <2>1. \A n \in 1..M : q[n] = raw[places[n]]
    BY <1>6, <1>7, <1>8, Zenon
  <2>2. \A n \in 1..M : places[n] \in P
    BY <1>5, <1>8, Zenon
  <2>3. \A i \in P : i \in Nat /\ i <= N
    BY <1>3
  <2> QED BY <2>1, <2>2, <2>3, Zenon
<1>10. PICK t : Spells(t, raw) /\ Fingerprint(raw) = t[N]
  BY PrintSpells
<1>11. PICK u : Spells(u, q) /\ Fingerprint(q) = u[M]
  BY <1>8, PrintSpells
<1>12. /\ t[0] = Nothing /\ \A n \in 0..N : t[n] \in Texts
       /\ \A n \in 1..N : t[n] = Join(t[n - 1], raw[n])
  BY <1>10 DEF Spells
<1>13. u[0] = Nothing /\ \A n \in 1..M : u[n] = Join(u[n - 1], q[n])
  BY <1>11 DEF Spells
<1> DEFINE Read(i, m) == /\ u[m] = t[i]
                         /\ \A k \in 1..m : places[k] <= i
                         /\ \A k \in m + 1..M : places[k] > i
           T == {i \in 0..N : \E m \in 0..M : Read(i, m)}
<1>14. 0 \in T
  <2>1. \A k \in 1..M : places[k] > 0
    BY <1>3, <1>9
  <2>2. 0 \in 0..M /\ Read(0, 0)
    BY <1>8, <1>12, <1>13, <2>1
  <2> QED BY <1>1, <2>2
<1>15. ASSUME NEW i \in 1..N, i - 1 \in T
       PROVE  i \in T
  <2>1. PICK m \in 0..M : Read(i - 1, m)
    BY <1>15
  <2>2. i \in 0..N /\ i \in Nat /\ m \in Nat /\ m <= M
    BY <1>1, <1>8
  <2>3. CASE i \in P
    <3>1. PICK k \in 1..M : places[k] = i
      BY <1>5, <1>8, <2>3
    <3>2. k > m
      BY <1>8, <2>1, <2>2, <3>1
    <3>3. k = m + 1
      <4> SUFFICES ASSUME m + 1 < k PROVE FALSE
        BY <1>8, <2>2, <3>1, <3>2
      <4>1. m + 1 \in 1..M /\ m + 1 \in m + 1..M
        BY <1>8, <2>2, <3>1
      <4>2. places[m + 1] < i /\ places[m + 1] > i - 1 /\ places[m + 1] \in Nat
        BY <1>5, <1>8, <1>9, <2>1, <3>1, <4>1
      <4> QED BY <2>2, <4>2
    <3>4. u[k] = t[i]
      <4>1. u[k] = Join(u[m], raw[i]) /\ t[i] = Join(t[i - 1], raw[i])
        BY <1>9, <1>12, <1>13, <2>2, <3>1, <3>3
      <4> QED BY <2>1, <4>1
    <3>5. \A n \in 1..k : places[n] <= i
      <4> TAKE n \in 1..k
      <4>1. CASE n = k
        BY <2>2, <3>1, <4>1
      <4>2. CASE n # k
        <5>1. n \in 1..m /\ n \in 1..M
          BY <1>8, <2>2, <3>1, <3>3, <4>2
        <5>2. places[n] <= i - 1 /\ places[n] \in Nat
          BY <1>9, <2>1, <5>1
        <5> QED BY <2>2, <5>2
      <4> QED BY <4>1, <4>2
    <3>6. \A n \in k + 1..M : places[n] > i
      BY <1>5, <1>8, <1>9, <2>2, <3>1
    <3> QED BY <2>2, <3>1, <3>4, <3>5, <3>6, <1>8
  <2>4. CASE i \notin P
    <3>1. raw[i] = Nothing /\ i - 1 \in 0..N
      BY <1>1, <1>3, <2>4
    <3>2. t[i] = t[i - 1]
      BY <1>12, <3>1 DEF TextsJoin
    <3>3. \A k \in 1..m : places[k] <= i
      BY <1>8, <1>9, <2>1, <2>2
    <3>4. \A k \in m + 1..M : places[k] > i
      <4> TAKE k \in m + 1..M
      <4>1. k \in 1..M /\ places[k] > i - 1
        BY <1>8, <2>1, <2>2
      <4>2. places[k] \in Nat /\ places[k] # i
        BY <1>9, <2>4, <4>1
      <4> QED BY <2>2, <4>1, <4>2
    <3>5. Read(i, m)
      BY <2>1, <3>2, <3>3, <3>4
    <3> HIDE DEF Read
    <3> QED BY <2>2, <3>5
  <2> QED BY <2>3, <2>4
<1>16. \A i \in 0..N : i \in T
  <2> HIDE DEF T
  <2> QED BY <1>1, <1>14, <1>15, UpTo
<1>17. PICK m \in 0..M : Read(N, m)
  <2> HIDE DEF Read
  <2> QED BY <1>1, <1>16
<1>18. m = M
  <2> SUFFICES ASSUME m < M PROVE FALSE
    BY <1>8
  <2>1. m + 1 \in 1..M /\ m + 1 \in m + 1..M
    BY <1>8
  <2>2. places[m + 1] <= N /\ places[m + 1] > N /\ places[m + 1] \in Nat
    BY <1>9, <1>17, <2>1
  <2> QED BY <1>1, <2>2
<1> QED BY <1>10, <1>11, <1>17, <1>18 DEF q

TaxonomyLoaded == MatchAt("loading") => \E loaded : Taxonomy = Loaded(loaded)

LEMMA TaxonomyStays ==
    ASSUME MatchingInv, TaxonomyLoaded, MatchingNext \/ UNCHANGED matchingVars
    PROVE  TaxonomyLoaded'
<1>1. matching = Locals(matching)
  BY DEF MatchingInv, RequestInv
<1>2. ASSUME NEW limit, AskMatch(limit)
      PROVE  TaxonomyLoaded'
  <2>1. ASSUME matching' = [matching EXCEPT !.at = "loading", !.limit = limit,
                                            !.taxonomy = Loaded(seed)]
        PROVE  matching'.taxonomy = Loaded(seed)
    BY <1>1, <2>1 DEF Locals
  <2>2. CASE matching'.taxonomy = Loaded(seed)
    BY <2>2 DEF TaxonomyLoaded, Taxonomy
  <2>3. ASSUME NEW code, Refused(code)
        PROVE  matching'.at = "done"
    BY <1>1, <2>3 DEF Refused, Answered, Locals
  <2>4. CASE matching'.at = "done"
    BY <2>4 DEF TaxonomyLoaded, MatchAt
  <2> QED BY <1>2, <2>1, <2>2, <2>3, <2>4 DEF AskMatch
<1>3. ASSUME matching'.taxonomy = matching.taxonomy, matching'.at = matching.at
      PROVE  TaxonomyLoaded'
  BY <1>3 DEF TaxonomyLoaded, MatchAt, Taxonomy
<1>4. ASSUME matching'.at # "loading"
      PROVE  TaxonomyLoaded'
  BY <1>4 DEF TaxonomyLoaded, MatchAt
<1>5. \A code, answer : Answered(code, answer) => matching'.at = "done"
  BY <1>1 DEF Answered, Locals
<1>6. ASSUME LoadApproved \/ ReadSourceRevisions \/ CompareGraph \/ EmbedCandidate
             \/ QueryIndex \/ HydrateAndScore
      PROVE  matching'.at # "loading"
  <2>1. CASE LoadApproved
    <3>1. selected \in {"none", "pending", "ready"}
      BY DEF MatchingInv, RequestInv
    <3> QED BY <1>1, <1>5, <2>1, <3>1 DEF LoadApproved, Refused, Locals
  <2>2. CASE ReadSourceRevisions
    <3>1. matching' = [matching EXCEPT !.at = "comparing", !.snapshot = Projection,
                                       !.gated = profileRevision]
      BY <2>2, Zenon DEF ReadSourceRevisions
    <3> QED BY <1>1, <3>1 DEF Locals
  <2>3. CASE CompareGraph
    BY <1>1, <1>5, <2>3 DEF CompareGraph, Refused, Locals
  <2>4. CASE EmbedCandidate
    BY <1>1, <1>5, <2>4 DEF EmbedCandidate, Refused, Locals
  <2>5. CASE QueryIndex
    BY <1>1, <1>5, <2>5 DEF QueryIndex, Refused, Locals
  <2>6. CASE HydrateAndScore
    BY <1>1, <1>5, <2>6 DEF HydrateAndScore, Refused, Locals
  <2> QED BY <1>6, <2>1, <2>2, <2>3, <2>4, <2>5, <2>6
<1>7. ASSUME OtherStep \/ UNCHANGED matchingVars
      PROVE  matching'.taxonomy = matching.taxonomy /\ matching'.at = matching.at
  BY <1>1, <1>7 DEF OtherStep, matchingVars, Locals
<1> QED BY <1>2, <1>3, <1>4, <1>6, <1>7 DEF MatchingNext, MatchStep

\* The print of a seed skill's own key is in the index.
LEMMA KeysIndexed ==
    ASSUME NEW loaded, NEW entry \in Loaded(loaded).index
    PROVE  \E other \in Loaded(loaded).index : other.print = Fingerprint(entry.key)
<1> DEFINE label(skill, l) == [print |-> Fingerprint(l), key |-> skill.key]
           skills == ToSet(loaded.skills)
<1>1. Loaded(loaded).index = UNION {{label(skill, l) : l \in Labels(skill)} : skill \in skills}
  <2>1. Loaded(loaded).index = AliasIndex(loaded)
    BY DEF Loaded
  <2> QED BY <2>1, Zenon DEF AliasIndex
<1> HIDE DEF skills
<1>2. PICK skill \in skills : \E l \in Labels(skill) : entry = label(skill, l)
  BY <1>1, Zenon
<1>3. entry.key = skill.key
  BY <1>2
<1>4. skill.key \in Labels(skill)
  BY DEF Labels
<1>5. label(skill, skill.key) \in Loaded(loaded).index
  <2> DEFINE S == {label(skill, l) : l \in Labels(skill)}
  <2>1. label(skill, skill.key) \in S
    BY <1>4, Zenon
  <2>2. S \in {{label(other, l) : l \in Labels(other)} : other \in skills}
    BY <1>2, Zenon
  <2> HIDE DEF label, S
  <2> QED BY <1>1, <2>1, <2>2
<1>6. label(skill, skill.key).print = Fingerprint(entry.key)
  BY <1>3
<1> QED BY <1>5, <1>6, Zenon

LEMMA IdentitiesKept ==
    ASSUME TextsJoin, NEW loaded, NEW a \in Seq(Texts), NEW b \in Seq(Texts),
           CanonicalKey(Loaded(loaded), a) = CanonicalKey(Loaded(loaded), b)
    PROVE  \/ Fingerprint(a) = Fingerprint(b)
           \/ Known(Loaded(loaded), a) /\ Known(Loaded(loaded), b)
<1> DEFINE t == Loaded(loaded)
<1>1. ASSUME NEW n \in Seq(Texts)
      PROVE  /\ Known(t, n) => \E entry \in t.index : CanonicalKey(t, n) = entry.key
             /\ ~ Known(t, n) => CanonicalKey(t, n) = Words(n)
  <2>1. CASE Known(t, n)
    <3> DEFINE e == CHOOSE entry \in t.index : entry.print = Fingerprint(n)
    <3>1. e \in t.index
      BY <2>1, Zenon DEF Known
    <3>2. CanonicalKey(t, n) = e.key
      BY <2>1, Zenon DEF CanonicalKey
    <3> QED BY <2>1, <3>1, <3>2, Zenon
  <2>2. CASE ~ Known(t, n)
    BY <2>2, Zenon DEF CanonicalKey
  <2> QED BY <2>1, <2>2
<1>2. ASSUME NEW n \in Seq(Texts), NEW entry \in t.index, Words(n) = entry.key
      PROVE  Known(t, n)
  <2>1. Fingerprint(entry.key) = Fingerprint(n)
    BY <1>2, PrintOfWords
  <2>2. \E other \in t.index : other.print = Fingerprint(entry.key)
    BY KeysIndexed, Zenon
  <2> QED BY <2>1, <2>2, Zenon DEF Known
<1>3. CASE ~ Known(t, a) /\ ~ Known(t, b)
  <2>1. Words(a) = Words(b)
    BY <1>1, <1>3
  <2> QED BY <2>1, PrintOfWords
<1>4. Known(t, a) <=> Known(t, b)
  <2> HIDE DEF t
  <2>1. ASSUME Known(t, a), ~ Known(t, b) PROVE FALSE
    <3>1. PICK entry \in t.index : CanonicalKey(t, a) = entry.key
      BY <1>1, <2>1
    <3>2. Words(b) = entry.key
      BY <1>1, <2>1, <3>1 DEF t
    <3> QED BY <1>2, <2>1, <3>2
  <2>2. ASSUME Known(t, b), ~ Known(t, a) PROVE FALSE
    <3>1. PICK entry \in t.index : CanonicalKey(t, b) = entry.key
      BY <1>1, <2>2
    <3>2. Words(a) = entry.key
      BY <1>1, <2>2, <3>1 DEF t
    <3> QED BY <1>2, <2>2, <3>2
  <2> QED BY <2>1, <2>2
<1> QED BY <1>3, <1>4

-----------------------------------------------------------------------------
(* Theorems *)

LEMMA InvTyped == MatchingInv => MatchingTypeOK
<1> SUFFICES ASSUME MatchingInv
             PROVE  MatchingTypeOK
  OBVIOUS
<1>1. JobStoreTypeOK /\ IngestionTypeOK
  BY DEF MatchingInv, IInv, SavedJobsTypeOK
<1>2. {hit.id : hit \in matching.found} \subseteq Scorable(matching.snapshot)
  <2>1. CASE matching.at = "hydrating"
    BY <2>1 DEF MatchingInv, RequestInv, HitsFit
  <2>2. CASE matching.at # "hydrating"
    BY <2>2 DEF MatchingInv, RequestInv
  <2> QED BY <2>1, <2>2
<1> QED BY <1>1, <1>2 DEF MatchingInv, RequestInv, MatchingTypeOK

LEMMA MatchingStepInv ==
    StoredFits /\ MatchingInv /\ [MatchingNext]_matchingVars
        => MatchingInv' /\ [EndsRight]_matchingVars
  BY MatchingNextInv, MatchingStays

LEMMA MatchingInvariant ==
    ASSUME StoredFits
    PROVE  MatchingSpec => []MatchingInv
<1>1. MatchingInit => MatchingInv
  BY MatchingInitInv
<1>2. MatchingInv /\ [MatchingNext]_matchingVars => MatchingInv'
  BY MatchingStepInv
<1> QED BY <1>1, <1>2, PTL DEF MatchingSpec

\* Type correctness of the request beside all others, and the bounds that match_jobs
\* has to keep: what the index returned is in the gated set, and no answer is longer
\* than the limit or the retrieval.
THEOREM MatchingIsTypeCorrect ==
    ASSUME StoredFits
    PROVE  MatchingSpec => []MatchingTypeOK
<1> QED BY MatchingInvariant, InvTyped, PTL

\* A request that no other one overtakes is refused for a rebuild only when the graph
\* differs from SQLite; when it answers, the two agree and the answer is the best jobs
\* in order, each scored by what SQLite holds (services/matching.py).
THEOREM MatchesAreCurrent ==
    ASSUME StoredFits
    PROVE  MatchingSpec => MatchIsCurrent
<1>1. MatchingInv /\ [MatchingNext]_matchingVars => [EndsRight]_matchingVars
  BY MatchingStepInv
<1>2. [EndsRight]_matchingVars <=>
        [matching.at # "done" /\ matching'.at = "done" /\ matching.quiet =>
         /\ matching'.code = "NEO4J_REBUILD_REQUIRED" =>
              ~GraphAgrees(Projection, profileRevision)
         /\ matching'.code = "ok" =>
              /\ GraphAgrees(Projection, profileRevision)
              /\ IsBest(matching'.answer)]_matchingVars
  BY DEF EndsRight
<1> QED BY <1>1, <1>2, MatchingInvariant, PTL DEF MatchingSpec, MatchIsCurrent

\* Another skill, or one no longer excluded, lowers the skill score of no job and adds
\* nothing to what is missing, for any taxonomy (match_components.py, skill_matching.py).
THEOREM MoreSkillsNeverHurt ==
    ASSUME StoredFits
    PROVE  MatchingSpec => []AnotherSkillNeverHurts
<1> QED BY MatchingInvariant, InvNeverHurts, PTL

\* Two names share a key only when they are written alike or are labels of one seed
\* skill, for any taxonomy file (skill_normalization.py).
THEOREM NamesKeepIdentity ==
    ASSUME StoredFits, TextsJoin
    PROVE  MatchingSpec => []IdentitiesDistinct
<1>1. MatchingInit => TaxonomyLoaded
  BY DEF MatchingInit, Asked, TaxonomyLoaded, MatchAt
<1>2. MatchingInv /\ TaxonomyLoaded /\ [MatchingNext]_matchingVars => TaxonomyLoaded'
  BY TaxonomyStays
<1>3. TaxonomyLoaded => IdentitiesDistinct
  <2> SUFFICES ASSUME TaxonomyLoaded, MatchAt("loading"), NEW a \in Names, NEW b \in Names,
                      CanonicalKey(Taxonomy, a) = CanonicalKey(Taxonomy, b)
               PROVE  \/ Fingerprint(a) = Fingerprint(b)
                      \/ Known(Taxonomy, a) /\ Known(Taxonomy, b)
    BY Zenon DEF IdentitiesDistinct
  <2>1. PICK loaded : Taxonomy = Loaded(loaded)
    BY DEF TaxonomyLoaded
  <2>2. a \in Seq(Texts) /\ b \in Seq(Texts)
    BY MatchingAssumption DEF Texts
  <2> QED BY <2>1, <2>2, IdentitiesKept
<1> QED BY <1>1, <1>2, <1>3, MatchingInvariant, PTL DEF MatchingSpec
=============================================================================

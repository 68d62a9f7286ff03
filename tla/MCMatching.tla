---------------------------- MODULE MCMatching ----------------------------
(***************************************************************************)
(* Model values for the run of Matching: two jobs saved before, one that   *)
(* is saved meanwhile, a profile with two revisions.                       *)
(***************************************************************************)
EXTENDS Matching

CONSTANTS q1, q2, q3, j1, j2, j3, c1, c2, c3

OneOf(r) == CASE r = q1 -> {"text"} [] r = q2 -> {"reextract", "delete"}
              [] r = q3 -> {"approve"}
Writers == [r \in Requests |-> OneOf(r)]
Earlier == (j1 :> c1) @@ (j2 :> c2)

Place(j) == CASE j = j1 -> 1 [] j = j2 -> 2 [] j = j3 -> 3
ById == {pair \in Jobs \X Jobs : Place(pair[1]) < Place(pair[2])}

\* react and reactjs are written unlike but listed for one skill, c sharp has its key
\* written with two words, and the last name has no word at all.
React == <<"react">>
ReactJs == <<"react", "js">>
CSharp == <<"c", "sharp">>
Frontend == <<"frontend">>
Rust == <<"rust">>
Blank == <<"">>
RawNames == {React, ReactJs, <<"reactjs">>, CSharp, <<"csharp">>, <<"c">>, Frontend, Rust, Blank}

SkillSeed(key, display, aliases) == [key |-> key, display |-> display, aliases |-> aliases]
Edge(from, to) == [from |-> from, to |-> to, weight |-> 60, source |-> "seed"]
Taxonomies ==
    LET skills == <<SkillSeed(React, React, <<ReactJs>>),
                    SkillSeed(CSharp, <<"c">>, <<>>),
                    SkillSeed(Frontend, Frontend, <<>>)>> IN
    {[skills |-> skills, edges |-> <<Edge(React, Frontend), Edge(Frontend, React)>>],
     [skills |-> Append(skills, SkillSeed(Rust, <<"c", "">>, <<>>)), edges |-> <<>>]}

Asserted(names) == [i \in DOMAIN names |-> [name |-> names[i], evidence |-> TRUE]]
Post(required, preferred, seniority, min, location) ==
    [title |-> TRUE, summary |-> TRUE, responsibilities |-> {}, max |-> Absent,
     required |-> Asserted(required), preferred |-> Asserted(preferred),
     seniority |-> seniority, min |-> min, location |-> location, mode |-> "remote"]

\* The first extraction of j1 names a skill twice related, its second one lists no
\* skill; j3 ties with j2 for some profiles.
Posts(j, version) ==
    CASE j = j1 /\ version = 1 -> Post(<<Frontend, Rust>>, <<CSharp>>, "senior", 4, <<"Hanoi">>)
      [] j = j1 /\ version # 1 -> Post(<<>>, <<>>, "senior", 0, <<"">>)
      [] j = j2 -> Post(<<React>>, <<>>, Absent, Absent, <<"Hanoi", "">>)
      [] OTHER -> Post(<<Frontend>>, <<>>, "senior", Absent, <<"Hue">>)

Profiles(revision) ==
    [skills |-> IF revision = 1
                THEN <<[name |-> <<"reactjs">>, excluded |-> FALSE],
                       [name |-> CSharp, excluded |-> TRUE]>>
                ELSE <<[name |-> Frontend, excluded |-> FALSE]>>,
     years |-> IF revision = 1 THEN 2 ELSE Absent,
     roles |-> {}, seniority |-> {"senior"}, modes |-> {"remote"},
     places |-> {<<"Hanoi">>, <<"">>}]

\* Shared terms, scaled; a candidate without any of them is opposite to the job.
Overlap(candidateText, jobText) ==
    LET shared == Cardinality(candidateText.skills \cap jobText.skills) IN
    IF shared = 0 THEN -10 ELSE 40 * shared + Cardinality(jobText.skills)
=============================================================================

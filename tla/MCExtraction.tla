---------------------------- MODULE MCExtraction ----------------------------
(***************************************************************************)
(* Extraction on texts of at most three chunks and two batches, with       *)
(* provider answers that overlap, repeat, invent and leave things out.     *)
(***************************************************************************)
EXTENDS Extraction

\* No text; one chunk from two paragraphs; three chunks, one cut out of a paragraph.
MCTexts == {<<>>, <<1, 2>>, <<3, 7>>}

Entry(title, sources) == [title |-> title, sources |-> sources]
Part(heading, kind, entries, sources) ==
    [heading |-> heading, kind |-> kind, entries |-> entries, sources |-> sources]

\* 9 is a chunk that does not exist.
Work == Part("work", "experience", <<Entry("long", {1, 3}), Entry("blank", {2})>>, {1})
MoreWork == Part("work", "experience", <<Entry("late", {9})>>, {3})
Bulk == Part("work", "experience", <<Entry("bulky", {1})>>, {1})
Tools == Part("tools", "skills", <<>>, {2})
Decoration == Part(BlankHeading, "other", <<Entry("late", {1})>>, {1})
Rest == Part(RecoveredHeading, "other", <<>>, {1})

Contact(value, source, grounded) ==
    [value |-> value, source |-> source, grounded |-> grounded]

MCBatchAnswers == {
    [sections |-> <<>>,
     contacts |-> {Contact("x", 1, TRUE), Contact("bogus", 3, FALSE),
                   Contact("bogus", 1, FALSE)},
     name |-> "none"],
    [sections |-> <<Work, MoreWork>>, contacts |-> {Contact("x", 3, TRUE)},
     name |-> "candidate"],
    [sections |-> <<Work, Tools, Decoration>>,
     contacts |-> {Contact("y", 1, TRUE), Contact("y", 9, TRUE)}, name |-> "invented"]}

MCOutlineAnswers == {
    [sections |-> <<Work, MoreWork, Tools>>, name |-> "none"],
    [sections |-> <<Tools, Tools, Work>>, name |-> "invented"],
    [sections |-> <<MoreWork, Decoration, Rest>>, name |-> "none"],
    [sections |-> <<Bulk>>, name |-> "none"],
    [sections |-> <<>>, name |-> "candidate"]}

Assertion(label, sources, quoted, level) ==
    [label |-> label, sources |-> sources, quoted |-> quoted, level |-> level]

MCSkillAnswers == {
    <<>>,
    <<Assertion("python", <<1>>, 1, "advanced"), Assertion("sql", <<1>>, 1, "unknown")>>,
    <<Assertion("py", <<2>>, 2, "basic")>>,
    <<Assertion("py", <<1, 2>>, 2, "unknown")>>,
    <<Assertion("python", <<1>>, 2, "basic")>>,
    <<Assertion("python", <<1>>, 1, "basic"), Assertion("py", <<2>>, 2, "basic")>>,
    <<Assertion("languages", <<1>>, 1, "unknown")>>,
    <<Assertion("python, sql", <<1>>, 1, "unknown")>>}

MCJobAnswers == {
    [required |-> <<"python", "sql">>, preferred |-> <<>>, grounded |-> TRUE],
    [required |-> <<"python">>, preferred |-> <<"py">>, grounded |-> TRUE],
    [required |-> <<"sql">>, preferred |-> <<"py">>, grounded |-> TRUE],
    [required |-> <<"languages">>, preferred |-> <<>>, grounded |-> TRUE],
    [required |-> <<"python, sql">>, preferred |-> <<>>, grounded |-> TRUE],
    [required |-> <<"python">>, preferred |-> <<"--">>, grounded |-> TRUE],
    [required |-> <<"python">>, preferred |-> <<>>, grounded |-> FALSE]}

\* A heading is a skill like any other to a job description.
MCCanonical == [label \in {"python", "py", "sql", "languages", "python, sql", "--"} |->
                    CASE label = "py" -> "python" [] label = "--" -> "nokey"
                      [] OTHER -> label]
MCStructural == {"languages"}
MCCompound == {"python, sql"}
MCBulkyTitles == {"bulky"}
MCLongTitles == {"long"}
=============================================================================

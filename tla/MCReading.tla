------------------------------ MODULE MCReading ------------------------------
(***************************************************************************)
(* Model values for the run of Reading: one PDF of three chunks, two       *)
(* extractions of it that divide it into different entries.                *)
(***************************************************************************)
EXTENDS Reading, TLC

CONSTANTS d1, d2

Entry(id, size, blob, terms) ==
    [id |-> id, size |-> size, blob |-> blob, terms |-> terms]
Section(id, entries) == [id |-> id, entries |-> entries]

TwoOutlines ==
    (d1 :> <<Section("work", <<Entry("a", 2, 3, {"sql"}), Entry("b", 3, 1, {}),
                               Entry("c", 1, 1, {"sql"})>>),
             Section("study", <<Entry("d", 4, 4, {"sql"})>>)>>)
    @@
    (d2 :> <<Section("work", <<Entry("a", 3, 3, {"sql"}),
                               Entry("e", 4, 4, {"sql"})>>)>>)

ThreeChunks ==
    <<[size |-> 3, terms |-> {"sql"}], [size |-> 1, terms |-> {}],
      [size |-> 4, terms |-> {"sql"}]>>

Questions ==
    {[mode |-> "section", selector |-> "work"],
     [mode |-> "section", selector |-> "study"],
     [mode |-> "search", selector |-> "sql"],
     [mode |-> "chunk", selector |-> 0], [mode |-> "chunk", selector |-> 1],
     [mode |-> "chunk", selector |-> 3]}
=============================================================================

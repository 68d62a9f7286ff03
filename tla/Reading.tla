------------------------------- MODULE Reading -------------------------------
(***************************************************************************)
(* One reader beside the writers of what it reads: the agent's tool beside *)
(* those of the CV, a client that lists chunks beside those and the        *)
(* selection, or one that lists rows beside those of rows and the          *)
(* selection.  Readers change nothing, so two of them do not meet.         *)
(***************************************************************************)
EXTENDS HistoryPages

VARIABLE reader

readingVars == <<cvVars, historyVars, reader>>

RowLists == {"selected", "conversation", "workspace"}

Readers == {"tool", "chunks", "rows"}

ReadingInit ==
    /\ CvInit
    /\ reader \in Readers
    /\ HistoryInit
    /\ reader = "rows" => document = NoDocument /\ published = 0

ReadingNext ==
    /\ \/ reader # "rows" /\ Writes /\ UNCHANGED historyVars
       \/ reader = "tool" /\ Reads /\ UNCHANGED historyVars
       \/ reader = "rows"
          /\ (RowWrites \/ SelectionWrites \/ HistoryReads(RowLists))
       \/ reader = "chunks" /\ (SelectionWrites \/ HistoryReads({"chunks"}))
    /\ UNCHANGED reader

ReadingSpec == ReadingInit /\ [][ReadingNext]_readingVars

ReadingTypeOK == CvTypeOK /\ HistoryTypeOK /\ reader \in Readers
=============================================================================

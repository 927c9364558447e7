------------------------------ MODULE Workflow ------------------------------
(***************************************************************************)
(* The workflow columns of one board.                                      *)
(*                                                                         *)
(* No request creates, renames or reorders columns: createBoard inserts    *)
(* the five default ones and boards upgraded from older databases may      *)
(* carry custom ones.  They are therefore a constant, the sequence of      *)
(* column names in position order, already trimmed and lower-cased the     *)
(* way every comparison in the code does it.                               *)
(***************************************************************************)
EXTENDS Naturals, Sequences

CONSTANT ColumnNames

(* A board has at least one column.  New work and next occurrences start   *)
(* in the first one, which is never the terminal column.                   *)
ASSUME ColumnsAssumption ==
  /\ ColumnNames \in Seq(STRING)
  /\ Len(ColumnNames) >= 1
  /\ ColumnNames[1] # "done"

Columns == 1 .. Len(ColumnNames)

FirstColumn == 1

Named(name) == {c \in Columns : ColumnNames[c] = name}

IsDone(c) == ColumnNames[c] = "done"

IsInProgress(c) == ColumnNames[c] = "in progress"

(* Stages in which work may be open while its prerequisites are.           *)
EarlyStages == {"to do", "backlog", "ready", "in progress"}

(* The name decides for the standard stages.  A custom column needs        *)
(* finished prerequisites from the Review column on, without one after     *)
(* In Progress, and without either from the fourth column on (positions    *)
(* are numbered from zero in the database, columns from one here).         *)
NeedsPrerequisites(c) ==
  \/ ColumnNames[c] \in {"review", "done"}
  \/ /\ ColumnNames[c] \notin EarlyStages
     /\ IF Named("review") # {} THEN \E r \in Named("review") : r <= c
        ELSE IF Named("in progress") # {} THEN \E p \in Named("in progress") : p < c
        ELSE c - 1 >= 3
=============================================================================

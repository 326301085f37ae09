----------------------------- MODULE DatumHistory -----------------------------
(***************************************************************************)
(* What the research data in the database promises to whoever reads it,    *)
(* with no transactions, locks or reads in it.  A path has a history of    *)
(* rows, of which the last is current.  All rows that come from one file   *)
(* or one call appear at once, with the statements that come with them.    *)
(* An ingest adds no row for what the last ingest has said already, unless *)
(* somebody else wrote in between, and no row or statement ever changes.   *)
(* OrgIngest is the detailed specification that implements it.             *)
(***************************************************************************)
EXTENDS Naturals, Sequences

CONSTANTS Path, Value, ContentHash, Entry, Class

VARIABLES history,  \* the rows of each path, oldest first
          current,  \* the positions of those that are not superseded
          class     \* the class of each hand-researched statement

hvars == <<history, current, class>>

None == "none"

Row == [value : Value, by : {"ingest", "writer"}]

HistoryInit ==
    /\ history = [path \in Path |-> <<>>]
    /\ current = [path \in Path |-> {}]
    /\ class = [e \in Entry |-> None]

(* An ingest does not repeat an ingest.                                    *)
IsNews(path, row) ==
    history[path] # <<>> =>
        LET last == history[path][Len(history[path])] IN
        last.by = "ingest" /\ row.by = "ingest" =>
            ContentHash[last.value] # ContentHash[row.value]

AddRows(rows) ==
    /\ \A path \in DOMAIN rows : IsNews(path, rows[path])
    /\ history' = [path \in Path |->
          IF path \in DOMAIN rows THEN Append(history[path], rows[path]) ELSE history[path]]
    /\ current' = [path \in Path |->
          IF path \in DOMAIN rows THEN {Len(history[path]) + 1} ELSE current[path]]

AddStatements(classes) ==
    class' = [e \in Entry |-> IF class[e] = None THEN classes[e] ELSE class[e]]

HistoryNext ==
    \E paths \in SUBSET Path :
    \E rows \in [paths -> Row], classes \in [Entry -> Class \cup {None}] :
        AddRows(rows) /\ AddStatements(classes)

HistorySpec == HistoryInit /\ [][HistoryNext]_hvars
=============================================================================

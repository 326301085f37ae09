------------------------------ MODULE OrgIngest ------------------------------
(***************************************************************************)
(* How the research files reach the database (pipeline/jobs/orgs.py).      *)
(* ingest_orgs loads the files of the deployed code and writes them in one *)
(* transaction: the organisations, the history org_datum of one value per  *)
(* path, and the hand-researched statements.  upsert_datum writes a single *)
(* value outside of a run.  Several of them may overlap: an Ingest or a    *)
(* Writer is a place at which one may be under way.                        *)
(*                                                                         *)
(* The database is Postgres at READ COMMITTED: a statement sees what is    *)
(* committed when it starts, an update waits for whoever holds its row and *)
(* then looks again whether the row still qualifies, an insert waits for   *)
(* whoever has inserted or superseded the same key and fails if a current  *)
(* row remains.  INSERT ... ON CONFLICT DO UPDATE locks the rows it meets, *)
(* also those its WHERE leaves as they are: from its first statement on an *)
(* ingest keeps every other ingest out.                                    *)
(*                                                                         *)
(* A Path is an organisation with a path.  A Value is a datum with all its *)
(* columns; the hash the two writers compute of it covers some of them, of *)
(* upsert_datum seven and of ingest_orgs nine, so that they never agree on *)
(* one.  An Entry is what identifies a hand-researched statement, a Class  *)
(* the rest of what is hashed.  Rows that are inserted or ignored          *)
(* (registrations, warnings) are left out.                                 *)
(* X_... just before X is a slip that a property notices.                  *)
(***************************************************************************)
EXTENDS Naturals, Sequences, FiniteSets

CONSTANTS
    Path, Value,
    ContentHash,  \* the hash _datum_row computes of a value
    WriterHash,   \* the hash upsert_datum computes of it
    Entry, Class,
    File,         \* the research files of successive deploys
    Ingests,      \* runs of ingest_orgs there may be at a time
    Writers,      \* calls of upsert_datum there may be at a time
    MaxChanges,   \* bound: deploys and calls of upsert_datum
    MaxFaults     \* bound: kills

None == "none"

Content == [data : [Path -> Value \cup {None}], class : [Entry -> Class \cup {None}]]

ASSUME ConstantsAssumption ==
    /\ File \subseteq Content
    /\ File # {}
    /\ None \notin Value \cup Class
    /\ \A v \in Value : ContentHash[v] # None /\ WriterHash[v] # None
    /\ Ingests \cap Writers = {}
    /\ MaxChanges \in Nat /\ MaxFaults \in Nat

Process == Ingests \cup Writers

VARIABLES
    hist,     \* the rows of a path in the order of their insertion
    open,     \* which of them have superseded_at null
    stated,   \* the class of the stored statement of an entry
    file,     \* the files of the deployed code
    pc,       \* where each process is
    loaded,   \* what it has to write
    seen,     \* current_hash: the hash of each current row it has read
    target,   \* the rows its update has found
    closing,  \* the rows it has superseded, not committed
    adding,   \* the paths it has inserted a row for, not committed
    changes, faults

committed == <<hist, open, stated>>
session == <<loaded, seen, target, closing, adding>>
vars == <<committed, file, pc, session, changes, faults>>

Location == {"off", "loaded", "read", "superseding", "superseded", "inserted"}

Version == [value : Value, by : {"ingest", "writer"}]
Nothing == [data |-> [path \in Path |-> None], class |-> [e \in Entry |-> None]]
Unread == [path \in Path |-> None]
Hashes == {ContentHash[v] : v \in Value} \cup {WriterHash[v] : v \in Value}

Kind(p) == IF p \in Ingests THEN "ingest" ELSE "writer"
HashOf(value, kind) == IF kind = "ingest" THEN ContentHash[value] ELSE WriterHash[value]
RowHash(row) == HashOf(row.value, row.by)

TypeOK ==
    /\ hist \in [Path -> Seq(Version)]
    /\ open \in [Path -> SUBSET Nat]
    /\ stated \in [Entry -> Class \cup {None}]
    /\ file \in File
    /\ pc \in [Process -> Location]
    /\ loaded \in [Process -> Content]
    /\ seen \in [Process -> [Path -> Hashes \cup {None}]]
    /\ target \in [Process -> SUBSET (Path \X Nat)]
    /\ closing \in [Process -> SUBSET (Path \X Nat)]
    /\ adding \in [Process -> SUBSET Path]
    /\ changes \in Nat /\ faults \in Nat

Init ==
    /\ hist = [path \in Path |-> <<>>]
    /\ open = [path \in Path |-> {}]
    /\ stated = [e \in Entry |-> None]
    /\ file \in File
    /\ pc = [p \in Process |-> "off"]
    /\ loaded = [p \in Process |-> Nothing]
    /\ seen = [p \in Process |-> Unread]
    /\ target = [p \in Process |-> {}]
    /\ closing = [p \in Process |-> {}]
    /\ adding = [p \in Process |-> {}]
    /\ changes = 0 /\ faults = 0

From(p, here, there) == pc[p] = here /\ pc' = [pc EXCEPT ![p] = there]

(* The end of a transaction, and of what its process keeps.                *)
Over(p) ==
    /\ pc' = [pc EXCEPT ![p] = "off"]
    /\ loaded' = [loaded EXCEPT ![p] = Nothing]
    /\ seen' = [seen EXCEPT ![p] = Unread]
    /\ target' = [target EXCEPT ![p] = {}]
    /\ closing' = [closing EXCEPT ![p] = {}]
    /\ adding' = [adding EXCEPT ![p] = {}]

-----------------------------------------------------------------------------
(* Before the transaction writes *)

Deploy ==
    /\ changes < MaxChanges /\ changes' = changes + 1
    /\ file' \in File \ {file}
    /\ UNCHANGED <<committed, pc, session, faults>>

LoadFile(p) ==
    /\ From(p, "off", "loaded")
    /\ loaded' = [loaded EXCEPT ![p] = file]
    /\ UNCHANGED <<committed, file, seen, target, closing, adding, changes, faults>>

-----------------------------------------------------------------------------
(* _upsert_org_datum_rows: one select, one update, one insert *)

Newest(path) == CHOOSE i \in open[path] : \A j \in open[path] : j <= i

CurrentHash_Value(path) ==
    IF open[path] = {} THEN None ELSE hist[path][Newest(path)].value

CurrentHash(path) ==
    IF open[path] = {} THEN None ELSE RowHash(hist[path][Newest(path)])

ReadCurrent(p) ==
    seen' = [seen EXCEPT ![p] = [path \in Path |-> CurrentHash(path)]]

(* A running transaction of ingest_orgs holds the rows of organisations.   *)
HoldsOrgs(p) == pc[p] \notin {"off", "loaded"}

Begin_NoLock(p) ==
    /\ From(p, "loaded", "read")
    /\ ReadCurrent(p)
    /\ UNCHANGED <<committed, file, loaded, target, closing, adding, changes, faults>>

(* The upsert of organisations, which waits, and the select after it.      *)
Begin(p) ==
    /\ From(p, "loaded", "read")
    /\ ~ \E q \in Ingests \ {p} : HoldsOrgs(q)
    /\ ReadCurrent(p)
    /\ UNCHANGED <<committed, file, loaded, target, closing, adding, changes, faults>>

(* upsert_datum for one path: it begins with the select, and needs no row  *)
(* of organisations for itself.                                            *)
CallWriter(w, path, v) ==
    /\ changes < MaxChanges /\ changes' = changes + 1
    /\ From(w, "off", "read")
    /\ loaded' = [loaded EXCEPT ![w] = [Nothing EXCEPT !.data[path] = v]]
    /\ ReadCurrent(w)
    /\ UNCHANGED <<committed, file, target, closing, adding, faults>>

Given(p) == {path \in Path : loaded[p].data[path] # None}

Changed_New(p) == {path \in Given(p) : seen[p][path] = None}

Changed_Always(p) == Given(p)

(* to_write                                                                *)
Changed(p) == {path \in Given(p) : seen[p][path] # HashOf(loaded[p].data[path], Kind(p))}

(* to_supersede, and the rows of it that the update finds.                 *)
StartSupersede(p) ==
    /\ From(p, "read", "superseding")
    /\ target' = [target EXCEPT ![p] =
          UNION {{path} \X open[path] :
                    path \in {q \in Changed(p) : seen[p][q] # None}}]
    /\ UNCHANGED <<committed, file, loaded, seen, closing, adding, changes, faults>>

Supersede_Autocommit(p) ==
    /\ From(p, "superseding", "superseded")
    /\ open' = [path \in Path |-> {i \in open[path] : <<path, i>> \notin target[p]}]
    /\ UNCHANGED <<hist, stated, file, session, changes, faults>>

(* Waits for the other holders of its rows; then those that are still      *)
(* current are superseded.                                                 *)
Supersede(p) ==
    /\ From(p, "superseding", "superseded")
    /\ \A q \in Process \ {p} : target[p] \cap closing[q] = {}
    /\ closing' = [closing EXCEPT ![p] = {row \in target[p] : row[2] \in open[row[1]]}]
    /\ UNCHANGED <<committed, file, loaded, seen, target, adding, changes, faults>>

(* uq_org_datum_current has an answer: nobody else is about to change it.  *)
IndexSettled(p) ==
    \A q \in Process \ {p} :
        /\ Changed(p) \cap adding[q] = {}
        /\ \A row \in closing[q] : row[1] \notin Changed(p)

(* It holds a current row that this transaction has not superseded.        *)
IndexConflict(p) ==
    \E path \in Changed(p) : \E i \in open[path] : <<path, i>> \notin closing[p]

InsertData(p) ==
    /\ From(p, "superseded", "inserted")
    /\ IndexSettled(p)
    /\ ~IndexConflict(p)
    /\ adding' = [adding EXCEPT ![p] = Changed(p)]
    /\ UNCHANGED <<committed, file, loaded, seen, target, closing, changes, faults>>

DataRefused_RetriesOnOldRead(p) ==
    /\ From(p, "superseded", "read")
    /\ IndexSettled(p)
    /\ IndexConflict(p)
    /\ closing' = [closing EXCEPT ![p] = {}]
    /\ target' = [target EXCEPT ![p] = {}]
    /\ UNCHANGED <<committed, file, loaded, seen, adding, changes, faults>>

DataRefused(p) ==
    /\ pc[p] = "superseded"
    /\ IndexSettled(p)
    /\ IndexConflict(p)
    /\ Over(p)
    /\ UNCHANGED <<committed, file, changes, faults>>

-----------------------------------------------------------------------------
(* The statements, and the end *)

(* ON CONFLICT names (report_id, content_hash).  The same statement with   *)
(* another class has another hash, and the index on its identity refuses.  *)
Reclassified(p) ==
    \E e \in Entry : /\ loaded[p].class[e] # None
                     /\ stated[e] \notin {None, loaded[p].class[e]}

StatementsRefused(p) ==
    /\ pc[p] = "inserted"
    /\ Reclassified(p)
    /\ Over(p)
    /\ UNCHANGED <<committed, file, changes, faults>>

Commit_InPlace(p) ==
    /\ pc[p] = "inserted" /\ ~Reclassified(p)
    /\ LET new(path) == [value |-> loaded[p].data[path], by |-> Kind(p)]
       IN  hist' = [path \in Path |->
              IF path \notin adding[p] THEN hist[path]
              ELSE IF hist[path] = <<>> THEN <<new(path)>>
              ELSE [hist[path] EXCEPT ![Len(hist[path])] = new(path)]]
    /\ open' = [path \in Path |->
          IF path \in adding[p] /\ open[path] = {} THEN {1} ELSE open[path]]
    /\ stated' = [e \in Entry |->
          IF stated[e] = None THEN loaded[p].class[e] ELSE stated[e]]
    /\ Over(p)
    /\ UNCHANGED <<file, changes, faults>>

(* The statements that are not there yet are inserted, and all is visible. *)
Commit(p) ==
    /\ pc[p] = "inserted" /\ ~Reclassified(p)
    /\ hist' = [path \in Path |->
          IF path \in adding[p]
          THEN Append(hist[path], [value |-> loaded[p].data[path], by |-> Kind(p)])
          ELSE hist[path]]
    /\ open' = [path \in Path |->
          {i \in open[path] : <<path, i>> \notin closing[p]}
            \cup {i \in {Len(hist[path]) + 1} : path \in adding[p]}]
    /\ stated' = [e \in Entry |->
          IF stated[e] = None THEN loaded[p].class[e] ELSE stated[e]]
    /\ Over(p)
    /\ UNCHANGED <<file, changes, faults>>

Kill(p) ==
    /\ faults < MaxFaults /\ faults' = faults + 1
    /\ pc[p] # "off"
    /\ Over(p)
    /\ UNCHANGED <<committed, file, changes>>

-----------------------------------------------------------------------------
(* The specification *)

Write(p) ==
    \/ StartSupersede(p) \/ Supersede(p) \/ InsertData(p) \/ DataRefused(p)
    \/ StatementsRefused(p) \/ Commit(p)

Next ==
    \/ Deploy
    \/ \E p \in Ingests : LoadFile(p) \/ Begin(p) \/ Write(p)
    \/ \E w \in Writers :
          Write(w) \/ \E path \in Path, v \in Value : CallWriter(w, path, v)
    \/ \E p \in Process : Kill(p)

Spec == Init /\ [][Next]_vars

(* A transaction goes on unless it waits.  Who waits for a row is served   *)
(* in the order of a queue; who waits at the index is woken when the other *)
(* transaction ends, long before a next ingest gets as far as its insert.  *)
(* Nobody has to load or deploy anything.                                  *)
FairSpec ==
    /\ Spec
    /\ \A p \in Ingests : SF_vars(Begin(p))
    /\ \A p \in Process : SF_vars(Write(p))

-----------------------------------------------------------------------------
(* Properties *)

(* A path that was ever written has exactly one current row, its newest:   *)
(* no reader finds two values or none, whatever overlaps or is killed      *)
(* between the update and the insert of _upsert_org_datum_rows.            *)
CurrentIsNewest ==
    \A path \in Path :
        open[path] = IF hist[path] = <<>> THEN {} ELSE {Len(hist[path])}

(* The database is a history: rows are only added, all of a transaction at *)
(* once and as the current ones of their paths, and none or all of them    *)
(* survive a kill, a refusal or a wait (models.py: "it never overwrites    *)
(* it").                                                                   *)
History == INSTANCE DatumHistory WITH history <- hist, current <- open, class <- stated

ImplementsHistory == History!HistorySpec

(* An ingest is refused by the index only for a row that upsert_datum      *)
(* wrote: two ingests never get into each other's way.                     *)
IngestsDoNotCollide ==
    [][\A p \in Ingests : DataRefused(p) =>
          \E path \in Changed(p) : \E i \in open[path] :
              hist[path][i].by = "writer"]_vars

(* Ingests add a row for a change only: repeated or overlapping, they      *)
(* never record what has the same hash twice in a row.                     *)
IngestsRecordChanges ==
    \A path \in Path : \A i \in 1..Len(hist[path]) - 1 :
        LET old == hist[path][i]
            new == hist[path][i + 1]
        IN  old.by = "ingest" /\ new.by = "ingest" =>
              ContentHash[old.value] # ContentHash[new.value]

(* An ingest that commits leaves, of every path in its file, a current row *)
(* with the hash of its file, except where upsert_datum came in between.   *)
(* The hash is all it compares: currency, fiscal year and scope are not in *)
(* it (orgs.py:304), so that a correction of one of them alone is not      *)
(* stored.                                                                 *)
IngestedIsCurrent ==
    [][\A p \in Ingests : Commit(p) =>
          \A path \in Given(p) :
              LET row == hist'[path][Len(hist'[path])]
              IN  \/ ContentHash[row.value] = ContentHash[loaded[p].data[path]]
                  \/ row.by = "writer"]_vars

(* No transaction waits for ever: the rows it waits for are given back.    *)
EveryTransactionEnds == \A p \in Process : pc[p] # "off" ~> pc[p] = "off"

(* What the comment on uq_response_statement_hand_research is about: an    *)
(* entry whose classification changed is ingested again.                   *)
ReclassifiedIsIngested == [][\A p \in Ingests : ~StatementsRefused(p)]_vars
=============================================================================

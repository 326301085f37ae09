--------------------------- MODULE OrgIngest_proofs ---------------------------
(***************************************************************************)
(* Theorems about OrgIngest, for any number of paths, values, files and    *)
(* overlapping writers.                                                    *)
(***************************************************************************)
EXTENDS OrgIngest, TLAPS

USE DEF None

-----------------------------------------------------------------------------
(* Types, locks and the current row: one inductive invariant *)

(* A transaction holds what it has superseded and inserted, and nobody     *)
(* else does.                                                              *)
Locks ==
    /\ \A p \in Process :
          /\ pc[p] \in {"off", "loaded", "read"} => target[p] = {}
          /\ pc[p] \notin {"superseded", "inserted"} => closing[p] = {}
          /\ pc[p] # "inserted" => adding[p] = {}
          /\ pc[p] = "inserted" => adding[p] = Changed(p)
          /\ \A row \in target[p] \cup closing[p] : row[1] \in Changed(p)
          /\ \A row \in closing[p] : row[2] \in open[row[1]]
          /\ \A path \in adding[p] : \A i \in open[path] :
                <<path, i>> \in closing[p]
    /\ \A p, q \in Process : p # q =>
          /\ closing[p] \cap closing[q] = {}
          /\ adding[p] \cap adding[q] = {}

(* A sequence that is not empty has a last place.                          *)
LEMMA LastPlace ==
    ASSUME NEW S, NEW s \in Seq(S), s # <<>>
    PROVE  Len(s) \in 1..Len(s)
    OBVIOUS

(* A row that is read has a hash: the current one exists.                  *)
LEMMA CurrentHashType ==
    ASSUME TypeOK, CurrentIsNewest, NEW path \in Path
    PROVE  /\ hist[path] = <<>> => CurrentHash(path) = None
           /\ hist[path] # <<>> =>
                /\ Len(hist[path]) \in 1..Len(hist[path])
                /\ CurrentHash(path) = RowHash(hist[path][Len(hist[path])])
           /\ CurrentHash(path) \in Hashes \cup {None}
<1>1. hist[path] \in Seq(Version) /\ Len(hist[path]) \in Nat
  BY DEF TypeOK
<1>2. CASE hist[path] = <<>>
  BY <1>2 DEF CurrentIsNewest, CurrentHash
<1>3. CASE hist[path] # <<>>
  <2>1. open[path] = {Len(hist[path])} /\ Len(hist[path]) \in 1..Len(hist[path])
    <3>1. Len(hist[path]) \in 1..Len(hist[path])
      BY <1>1, <1>3, LastPlace
    <3>2. open[path] = {Len(hist[path])}
      BY <1>3 DEF CurrentIsNewest
    <3> QED
      BY <3>1, <3>2
  <2>2. Newest(path) = Len(hist[path])
    BY <1>1, <2>1 DEF Newest
  <2>3. hist[path][Len(hist[path])] \in Version
    BY <1>1, <2>1
  <2>4. CurrentHash(path) = RowHash(hist[path][Len(hist[path])])
    BY <2>1, <2>2 DEF CurrentHash
  <2>5. hist[path][Len(hist[path])].value \in Value
    BY <2>3 DEF Version
  <2>6. RowHash(hist[path][Len(hist[path])]) \in Hashes
    BY <2>5 DEF RowHash, HashOf, Hashes
  <2> QED
    BY <1>3, <2>1, <2>4, <2>6
<1> QED
  BY <1>2, <1>3

LEMMA ReadType ==
    ASSUME TypeOK, CurrentIsNewest, NEW p \in Process, ReadCurrent(p)
    PROVE  seen' \in [Process -> [Path -> Hashes \cup {None}]]
    BY CurrentHashType DEF ReadCurrent, TypeOK

LEMMA NothingType == Nothing \in Content
    BY DEF Nothing, Content

LEMMA OverType ==
    ASSUME TypeOK, NEW p \in Process, Over(p)
    PROVE  /\ pc' \in [Process -> Location]
           /\ loaded' \in [Process -> Content]
           /\ seen' \in [Process -> [Path -> Hashes \cup {None}]]
           /\ target' \in [Process -> SUBSET (Path \X Nat)]
           /\ closing' \in [Process -> SUBSET (Path \X Nat)]
           /\ adding' \in [Process -> SUBSET Path]
    BY NothingType DEF Over, TypeOK, Location, Unread

LEMMA CommitType ==
    ASSUME TypeOK, Locks, NEW p \in Process, Commit(p)
    PROVE  TypeOK'
<1>1. hist' \in [Path -> Seq(Version)]
  <2> SUFFICES ASSUME NEW path \in Path PROVE hist'[path] \in Seq(Version)
    BY DEF Commit
  <2>1. hist[path] \in Seq(Version)
    BY DEF TypeOK
  <2>2. CASE path \in adding[p]
    <3>1. loaded[p].data[path] \in Value
      <4>1. path \in Changed(p) /\ loaded[p] \in Content
        BY <2>2 DEF Locks, TypeOK, Commit
      <4> QED
        BY <4>1 DEF Content, Changed, Given
    <3>2. [value |-> loaded[p].data[path], by |-> Kind(p)] \in Version
      BY <3>1 DEF Version, Kind
    <3> QED
      BY <2>1, <2>2, <3>2 DEF Commit
  <2> QED
    BY <2>1, <2>2 DEF Commit
<1>2. open' \in [Path -> SUBSET Nat]
  <2>1. \A path \in Path : Len(hist[path]) + 1 \in Nat
    BY DEF TypeOK
  <2> QED
    BY <2>1 DEF Commit, TypeOK
<1>3. stated' \in [Entry -> Class \cup {None}]
  BY DEF Commit, TypeOK, Content
<1> QED
  BY <1>1, <1>2, <1>3, OverType DEF Commit, TypeOK

LEMMA TypeStep ==
    ASSUME TypeOK, Locks, CurrentIsNewest, [Next]_vars
    PROVE  TypeOK'
<1>1. CASE Deploy
  BY <1>1 DEF Deploy, TypeOK, committed, session
<1>2. ASSUME NEW p \in Ingests, LoadFile(p) PROVE TypeOK'
  BY <1>2, ConstantsAssumption
     DEF LoadFile, From, TypeOK, committed, Location, Process
<1>3. ASSUME NEW p \in Ingests, Begin(p) PROVE TypeOK'
  BY <1>3, ReadType DEF Begin, From, TypeOK, committed, Location, Process
<1>4. ASSUME NEW w \in Writers, NEW path \in Path, NEW v \in Value,
             CallWriter(w, path, v)
      PROVE  TypeOK'
  <2>1. [Nothing EXCEPT !.data[path] = v] \in Content
    BY DEF Nothing, Content
  <2> QED
    BY <1>4, <2>1, ReadType
       DEF CallWriter, From, TypeOK, committed, Location, Process
<1>5. ASSUME NEW p \in Process, StartSupersede(p) PROVE TypeOK'
  <2>1. \A path \in Path : {path} \X open[path] \subseteq Path \X Nat
    BY DEF TypeOK
  <2>2. UNION {{path} \X open[path] :
                  path \in {q \in Changed(p) : seen[p][q] # None}}
          \subseteq Path \X Nat
    BY <2>1 DEF Changed, Given
  <2> QED
    BY <1>5, <2>2 DEF StartSupersede, From, TypeOK, committed, Location
<1>6. ASSUME NEW p \in Process, Supersede(p) PROVE TypeOK'
  BY <1>6 DEF Supersede, From, TypeOK, committed, Location
<1>7. ASSUME NEW p \in Process, InsertData(p) PROVE TypeOK'
  BY <1>7 DEF InsertData, From, TypeOK, committed, Location, Changed, Given
<1>8. ASSUME NEW p \in Process,
             DataRefused(p) \/ StatementsRefused(p) \/ Kill(p)
      PROVE  TypeOK'
  BY <1>8, OverType DEF DataRefused, StatementsRefused, Kill, TypeOK, committed
<1>9. ASSUME NEW p \in Process, Commit(p) PROVE TypeOK'
  BY <1>9, CommitType
<1>10. CASE UNCHANGED vars
  BY <1>10 DEF vars, committed, session, TypeOK
<1> QED
  BY <1>1, <1>2, <1>3, <1>4, <1>5, <1>6, <1>7, <1>8, <1>9, <1>10
     DEF Next, Write, Process

-----------------------------------------------------------------------------
(* Only the locks of the process that moves change, if nothing is committed. *)
LEMMA LocksOfOthers ==
    ASSUME TypeOK, Locks, NEW p \in Process, UNCHANGED committed,
           \A q \in Process \ {p} :
              UNCHANGED <<pc[q], loaded[q], seen[q], target[q], closing[q], adding[q]>>,
           /\ pc'[p] \in {"off", "loaded", "read"} => target'[p] = {}
           /\ pc'[p] \notin {"superseded", "inserted"} => closing'[p] = {}
           /\ pc'[p] # "inserted" => adding'[p] = {}
           /\ pc'[p] = "inserted" => adding'[p] = Changed(p)'
           /\ \A row \in target'[p] \cup closing'[p] : row[1] \in Changed(p)'
           /\ \A row \in closing'[p] : row[2] \in open[row[1]]
           /\ \A path \in adding'[p] : \A i \in open[path] :
                <<path, i>> \in closing'[p],
           \A q \in Process \ {p} :
              closing'[p] \cap closing[q] = {} /\ adding'[p] \cap adding[q] = {}
    PROVE  Locks'
<1>1. \A q \in Process \ {p} : Changed(q)' = Changed(q)
  BY DEF Changed, Given
<1>2. open' = open
  BY DEF committed
<1> QED
  BY <1>1, <1>2 DEF Locks

LEMMA OverLocks ==
    ASSUME TypeOK, Locks, NEW p \in Process, Over(p), UNCHANGED committed
    PROVE  Locks'
<1>1. /\ pc'[p] = "off" /\ target'[p] = {} /\ closing'[p] = {} /\ adding'[p] = {}
      /\ \A q \in Process \ {p} :
           UNCHANGED <<pc[q], loaded[q], seen[q], target[q], closing[q], adding[q]>>
  BY DEF Over, TypeOK
<1> QED
  BY <1>1, LocksOfOthers

LEMMA CommitLocks ==
    ASSUME TypeOK, Locks, NEW p \in Process, Commit(p)
    PROVE  Locks'
<1>1. /\ pc'[p] = "off" /\ target'[p] = {} /\ closing'[p] = {} /\ adding'[p] = {}
      /\ \A q \in Process \ {p} :
           UNCHANGED <<pc[q], loaded[q], seen[q], target[q], closing[q], adding[q]>>
  BY DEF Commit, Over, TypeOK
<1>2. \A q \in Process \ {p} : Changed(q)' = Changed(q)
  BY <1>1 DEF Changed, Given
<1>3. ASSUME NEW q \in Process \ {p}, NEW row \in closing[q]
      PROVE  row[2] \in open'[row[1]]
  <2>1. row \notin closing[p] /\ row[2] \in open[row[1]]
    BY DEF Locks
  <2>2. row \in Path \X Nat
    BY DEF TypeOK
  <2>3. row = <<row[1], row[2]>> /\ row[1] \in Path
    BY <2>2
  <2> QED
    BY <2>1, <2>3 DEF Commit
<1>4. ASSUME NEW q \in Process \ {p}, NEW path \in adding[q], NEW i \in open'[path]
      PROVE  <<path, i>> \in closing[q]
  <2>1. path \notin adding[p] /\ path \in Path
    BY DEF Locks, TypeOK
  <2>2. i \in open[path]
    BY <2>1 DEF Commit
  <2> QED
    BY <2>2 DEF Locks
<1> QED
  BY <1>1, <1>2, <1>3, <1>4 DEF Locks

LEMMA LocksStep ==
    ASSUME TypeOK, Locks, [Next]_vars
    PROVE  Locks'
<1>1. CASE Deploy \/ UNCHANGED vars
  <2>1. UNCHANGED <<open, pc, loaded, seen, target, closing, adding>>
    BY <1>1 DEF Deploy, vars, committed, session
  <2>2. \A q \in Process : Changed(q)' = Changed(q)
    BY <2>1 DEF Changed, Given
  <2> QED
    BY <2>1, <2>2 DEF Locks
<1>2. ASSUME NEW p \in Ingests, LoadFile(p) \/ Begin(p) PROVE Locks'
  <2>0. p \in Process
    BY DEF Process
  <2>1. /\ pc[p] \in {"off", "loaded"} /\ pc'[p] \in {"loaded", "read"}
        /\ UNCHANGED <<committed, target, closing, adding>>
        /\ \A q \in Process \ {p} : UNCHANGED <<pc[q], loaded[q], seen[q]>>
    BY <1>2, <2>0 DEF LoadFile, Begin, ReadCurrent, From, TypeOK
  <2>2. closing[p] = {} /\ adding[p] = {} /\ target[p] = {}
    BY <2>0, <2>1 DEF Locks
  <2> QED
    BY <2>0, <2>1, <2>2, LocksOfOthers
<1>3. ASSUME NEW w \in Writers, NEW path \in Path, NEW v \in Value,
             CallWriter(w, path, v)
      PROVE  Locks'
  <2>0. w \in Process
    BY DEF Process
  <2>1. /\ pc[w] = "off" /\ pc'[w] = "read"
        /\ UNCHANGED <<committed, target, closing, adding>>
        /\ \A q \in Process \ {w} : UNCHANGED <<pc[q], loaded[q], seen[q]>>
    BY <1>3, <2>0 DEF CallWriter, ReadCurrent, From, TypeOK
  <2>2. closing[w] = {} /\ adding[w] = {} /\ target[w] = {}
    BY <2>0, <2>1 DEF Locks
  <2> QED
    BY <2>0, <2>1, <2>2, LocksOfOthers
<1>4. ASSUME NEW p \in Process, StartSupersede(p) PROVE Locks'
  <2>1. /\ pc[p] = "read" /\ pc'[p] = "superseding"
        /\ UNCHANGED <<committed, loaded, seen, closing, adding>>
        /\ \A q \in Process \ {p} : UNCHANGED <<pc[q], target[q]>>
        /\ target'[p] = UNION {{path} \X open[path] :
                     path \in {q \in Changed(p) : seen[p][q] # None}}
    BY <1>4 DEF StartSupersede, From, TypeOK
  <2>2. closing[p] = {} /\ adding[p] = {} /\ Changed(p)' = Changed(p)
    BY <2>1 DEF Locks, Changed, Given
  <2>3. \A row \in target'[p] : row[1] \in Changed(p)
    BY <2>1
  <2> QED
    BY <2>1, <2>2, <2>3, LocksOfOthers
<1>5. ASSUME NEW p \in Process, Supersede(p) PROVE Locks'
  <2>1. /\ pc[p] = "superseding" /\ pc'[p] = "superseded"
        /\ UNCHANGED <<committed, loaded, seen, target, adding>>
        /\ \A q \in Process \ {p} : UNCHANGED <<pc[q], closing[q]>>
        /\ closing'[p] = {row \in target[p] : row[2] \in open[row[1]]}
        /\ \A q \in Process \ {p} : target[p] \cap closing[q] = {}
    BY <1>5 DEF Supersede, From, TypeOK
  <2>2. /\ adding[p] = {} /\ Changed(p)' = Changed(p)
        /\ \A row \in target[p] : row[1] \in Changed(p)
    BY <2>1 DEF Locks, Changed, Given
  <2> QED
    BY <2>1, <2>2, LocksOfOthers
<1>6. ASSUME NEW p \in Process, InsertData(p) PROVE Locks'
  <2>1. /\ pc[p] = "superseded" /\ pc'[p] = "inserted"
        /\ UNCHANGED <<committed, loaded, seen, target, closing>>
        /\ \A q \in Process \ {p} : UNCHANGED <<pc[q], adding[q]>>
        /\ adding'[p] = Changed(p)
        /\ \A q \in Process \ {p} : Changed(p) \cap adding[q] = {}
        /\ \A path \in Changed(p) : \A i \in open[path] : <<path, i>> \in closing[p]
    BY <1>6 DEF InsertData, From, TypeOK, IndexSettled, IndexConflict
  <2>2. /\ Changed(p)' = Changed(p)
        /\ \A row \in target[p] \cup closing[p] : row[1] \in Changed(p)
        /\ \A row \in closing[p] : row[2] \in open[row[1]]
        /\ \A q \in Process \ {p} : closing[p] \cap closing[q] = {}
    BY <2>1 DEF Locks, Changed, Given
  <2> QED
    BY <2>1, <2>2, LocksOfOthers
<1>7. ASSUME NEW p \in Process,
             DataRefused(p) \/ StatementsRefused(p) \/ Kill(p)
      PROVE  Locks'
  BY <1>7, OverLocks DEF DataRefused, StatementsRefused, Kill
<1>8. ASSUME NEW p \in Process, Commit(p) PROVE Locks'
  BY <1>8, CommitLocks
<1> QED
  BY <1>1, <1>2, <1>3, <1>4, <1>5, <1>6, <1>7, <1>8 DEF Next, Write, Process
-----------------------------------------------------------------------------
(* What a commit does to the rows of one path.                             *)
LEMMA CommitRow ==
    ASSUME TypeOK, Locks, NEW p \in Process, Commit(p), NEW path \in Path
    PROVE  /\ path \notin adding[p] => UNCHANGED <<open[path], hist[path]>>
           /\ path \in adding[p] =>
                LET row == [value |-> loaded[p].data[path], by |-> Kind(p)]
                IN  /\ open'[path] = {Len(hist[path]) + 1}
                    /\ hist'[path] = Append(hist[path], row)
                    /\ Len(hist'[path]) = Len(hist[path]) + 1
                    /\ hist'[path][Len(hist'[path])] = row
                    /\ hist'[path] # <<>>
<1>1. hist[path] \in Seq(Version) /\ Len(hist[path]) \in Nat
  BY DEF TypeOK
<1>2. CASE path \in adding[p]
  <2> DEFINE row == [value |-> loaded[p].data[path], by |-> Kind(p)]
  <2>1. \A i \in open[path] : <<path, i>> \in closing[p]
    BY <1>2 DEF Locks
  <2>2. open'[path] = {Len(hist[path]) + 1}
    BY <1>2, <2>1 DEF Commit
  <2>3. hist'[path] = Append(hist[path], row)
    BY <1>2 DEF Commit
  <2>4. /\ Len(hist'[path]) = Len(hist[path]) + 1 /\ hist'[path] # <<>>
        /\ hist'[path][Len(hist[path]) + 1] = row
    <3> HIDE DEF row
    <3> QED
      BY <1>1, <2>3
  <2> QED
    BY <1>2, <2>2, <2>3, <2>4
<1>3. CASE path \notin adding[p]
  <2>1. \A i \in open[path] : <<path, i>> \notin closing[p]
    BY <1>3 DEF Locks, Commit
  <2> QED
    BY <1>3, <2>1 DEF Commit
<1> QED
  BY <1>2, <1>3

(* Only a commit changes the rows.                                         *)
LEMMA OnlyCommit ==
    ASSUME [Next]_vars
    PROVE  UNCHANGED committed \/ \E p \in Process : Commit(p)
    BY DEF Next, Deploy, LoadFile, Begin, Write, CallWriter, StartSupersede,
       Supersede, InsertData, DataRefused, StatementsRefused, Kill, vars, Process

(* A commit replaces the current row of each path it adds to.              *)
LEMMA CurrentStep ==
    ASSUME TypeOK, Locks, CurrentIsNewest, [Next]_vars
    PROVE  CurrentIsNewest'
<1>1. CASE UNCHANGED committed
  BY <1>1 DEF committed, CurrentIsNewest
<1>2. ASSUME NEW p \in Process, Commit(p) PROVE CurrentIsNewest'
  BY <1>2, CommitRow DEF CurrentIsNewest
<1> QED
  BY <1>1, <1>2, OnlyCommit

LEMMA InitHolds == Init => TypeOK /\ Locks /\ CurrentIsNewest
<1> SUFFICES ASSUME Init PROVE TypeOK /\ Locks /\ CurrentIsNewest
  OBVIOUS
<1>1. TypeOK
  BY NothingType DEF Init, TypeOK, Location, Unread
<1>2. Locks
  BY DEF Init, Locks
<1>3. CurrentIsNewest
  BY DEF Init, CurrentIsNewest
<1> QED
  BY <1>1, <1>2, <1>3

(* Together the types, the locks and the one current row are inductive:    *)
(* a read has a hash only because there is one row to read, and there is   *)
(* one row only because the locks protect it.                              *)
THEOREM IngestInductive == Spec => [](TypeOK /\ Locks /\ CurrentIsNewest)
  BY InitHolds, TypeStep, LocksStep, CurrentStep, PTL DEF Spec

(* Every column and every local keeps its type.                            *)
THEOREM TypeCorrect == Spec => []TypeOK
  BY IngestInductive, PTL

(* A path that was ever written has exactly one current row, its newest,   *)
(* whatever ingests, calls of upsert_datum and kills overlap.              *)
THEOREM CurrentHolds == Spec => []CurrentIsNewest
  BY IngestInductive, PTL

(* org_datum is append-only: what was written stays, what was superseded   *)
(* stays superseded (models.py: "it never overwrites it").                 *)
HistoryIsAppendOnly ==
    [][\A path \in Path :
         /\ Len(hist[path]) <= Len(hist'[path])
         /\ \A i \in 1..Len(hist[path]) : hist'[path][i] = hist[path][i]
         /\ open'[path] \cap (1..Len(hist[path])) \subseteq open[path]]_vars

(* No commit of _upsert_org_datum_rows touches a row of the history.       *)
THEOREM HistoryHolds == Spec => HistoryIsAppendOnly
<1>1. TypeOK /\ Locks /\ CurrentIsNewest /\ [Next]_vars =>
        [\A path \in Path :
           /\ Len(hist[path]) <= Len(hist'[path])
           /\ \A i \in 1..Len(hist[path]) : hist'[path][i] = hist[path][i]
           /\ open'[path] \cap (1..Len(hist[path])) \subseteq open[path]]_vars
  <2> SUFFICES ASSUME TypeOK, [Next]_vars, NEW path \in Path
               PROVE  /\ Len(hist[path]) <= Len(hist'[path])
                      /\ \A i \in 1..Len(hist[path]) : hist'[path][i] = hist[path][i]
                      /\ open'[path] \cap (1..Len(hist[path])) \subseteq open[path]
    OBVIOUS
  <2>1. hist[path] \in Seq(Version) /\ Len(hist[path]) \in Nat
    BY DEF TypeOK
  <2>2. CASE UNCHANGED committed
    BY <2>1, <2>2 DEF committed
  <2>3. ASSUME NEW p \in Process, Commit(p)
        PROVE  /\ Len(hist[path]) <= Len(hist'[path])
               /\ \A i \in 1..Len(hist[path]) : hist'[path][i] = hist[path][i]
               /\ open'[path] \cap (1..Len(hist[path])) \subseteq open[path]
    <3>1. hist'[path] = hist[path] \/
            hist'[path] = Append(hist[path],
                            [value |-> loaded[p].data[path], by |-> Kind(p)])
      BY <2>3 DEF Commit
    <3>2. open'[path] \subseteq open[path] \cup {Len(hist[path]) + 1}
      BY <2>3 DEF Commit
    <3>3. Len(hist[path]) + 1 \notin 1..Len(hist[path])
      BY <2>1
    <3> HIDE DEF Version
    <3> QED
      BY <2>1, <3>1, <3>2, <3>3
  <2> QED
    BY <2>2, <2>3, OnlyCommit
<1> QED
  BY <1>1, IngestInductive, PTL DEF Spec, HistoryIsAppendOnly

-----------------------------------------------------------------------------
(* Overlapping ingests *)

(* The upsert of organisations lets one ingest in at a time.               *)
Alone == \A p, q \in Ingests : HoldsOrgs(p) /\ HoldsOrgs(q) => p = q

ByWriter(path) ==
    hist[path] # <<>> /\ hist[path][Len(hist[path])].by = "writer"

(* What an ingest has read is still so, but where a writer came in between. *)
ReadIsCurrent ==
    \A p \in Ingests : HoldsOrgs(p) =>
        \A path \in Path : seen[p][path] = CurrentHash(path) \/ ByWriter(path)

(* So its update finds the current row of every path it found one for.     *)
AimsAtCurrent ==
    \A p \in Ingests : \A path \in Changed(p) : seen[p][path] # None =>
        /\ pc[p] = "superseding" =>
             <<path, Len(hist[path])>> \in target[p] \/ ByWriter(path)
        /\ pc[p] = "superseded" =>
             <<path, Len(hist[path])>> \in closing[p] \/ ByWriter(path)

Guarded == Alone /\ ReadIsCurrent /\ AimsAtCurrent

LEMMA SameHash ==
    ASSUME NEW path, UNCHANGED <<open[path], hist[path]>>
    PROVE  CurrentHash(path)' = CurrentHash(path) /\ ByWriter(path)' = ByWriter(path)
    BY DEF CurrentHash, Newest, ByWriter

(* How an ingest comes to be where it is inside its transaction.           *)
LEMMA IngestStep ==
    ASSUME TypeOK, [Next]_vars, NEW p \in Ingests, HoldsOrgs(p)'
    PROVE  \/ Begin(p)
           \/ /\ HoldsOrgs(p)
              /\ UNCHANGED <<loaded[p], seen[p]>>
              /\ \/ StartSupersede(p) \/ Supersede(p) \/ InsertData(p)
                 \/ UNCHANGED <<pc[p], target[p], closing[p]>>
<1>0. p \in Process /\ p \notin Writers
  BY ConstantsAssumption DEF Process
<1>1. CASE Deploy \/ UNCHANGED vars
  BY <1>1 DEF Deploy, vars, session, HoldsOrgs
<1>2. ASSUME NEW q \in Ingests, LoadFile(q) \/ Begin(q)
      PROVE  \/ Begin(p)
             \/ /\ q # p /\ HoldsOrgs(p)
                /\ UNCHANGED <<loaded[p], seen[p], pc[p], target[p], closing[p]>>
  BY <1>0, <1>2 DEF LoadFile, Begin, ReadCurrent, From, HoldsOrgs, TypeOK, Process
<1>3. ASSUME NEW w \in Writers, NEW path \in Path, NEW v \in Value,
             CallWriter(w, path, v)
      PROVE  /\ HoldsOrgs(p)
             /\ UNCHANGED <<loaded[p], seen[p], pc[p], target[p], closing[p]>>
  BY <1>0, <1>3 DEF CallWriter, ReadCurrent, From, HoldsOrgs, TypeOK, Process
<1>4. ASSUME NEW q \in Process,
             DataRefused(q) \/ StatementsRefused(q) \/ Commit(q) \/ Kill(q)
      PROVE  /\ HoldsOrgs(p)
             /\ UNCHANGED <<loaded[p], seen[p], pc[p], target[p], closing[p]>>
  <2>1. Over(q)
    BY <1>4 DEF DataRefused, StatementsRefused, Commit, Kill
  <2> QED
    BY <1>0, <2>1 DEF Over, HoldsOrgs, TypeOK
<1>5. ASSUME NEW q \in Process, StartSupersede(q) \/ Supersede(q) \/ InsertData(q)
      PROVE  /\ HoldsOrgs(p)
             /\ UNCHANGED <<loaded[p], seen[p]>>
             /\ q = p \/ UNCHANGED <<pc[p], target[p], closing[p]>>
  BY <1>0, <1>5
     DEF StartSupersede, Supersede, InsertData, From, HoldsOrgs, TypeOK
<1> QED
  BY <1>1, <1>2, <1>3, <1>4, <1>5 DEF Next, Write, Process

(* A row that appears while an ingest is under way is a writer's.          *)
LEMMA RowStep ==
    ASSUME TypeOK, Locks, Alone, [Next]_vars, NEW p \in Ingests, HoldsOrgs(p),
           HoldsOrgs(p)', NEW path \in Path
    PROVE  UNCHANGED <<open[path], hist[path]>> \/ ByWriter(path)'
<1>1. CASE UNCHANGED committed
  BY <1>1 DEF committed
<1>2. ASSUME NEW q \in Process, Commit(q)
      PROVE  UNCHANGED <<open[path], hist[path]>> \/ ByWriter(path)'
  <2>1. p # q /\ HoldsOrgs(q)
    BY <1>2 DEF Commit, Over, HoldsOrgs, TypeOK
  <2>2. Kind(q) = "writer"
    BY <2>1 DEF Alone, Kind
  <2>3. CASE path \in adding[q]
    <3>1. /\ hist'[path] # <<>>
          /\ hist'[path][Len(hist'[path])]
                = [value |-> loaded[q].data[path], by |-> Kind(q)]
      BY <1>2, <2>3, CommitRow
    <3> QED
      BY <2>2, <3>1 DEF ByWriter
  <2>4. CASE path \notin adding[q]
    BY <1>2, <2>4, CommitRow
  <2> QED
    BY <2>3, <2>4
<1> QED
  BY <1>1, <1>2, OnlyCommit

LEMMA GuardedStep ==
    ASSUME TypeOK, Locks, CurrentIsNewest, Guarded, [Next]_vars
    PROVE  Guarded'
<1>1. Alone'
  <2> SUFFICES ASSUME NEW p \in Ingests, NEW q \in Ingests,
                      HoldsOrgs(p)', HoldsOrgs(q)', p # q
               PROVE  FALSE
    BY DEF Alone
  <2>1. ~HoldsOrgs(p) \/ ~HoldsOrgs(q)
    BY DEF Guarded, Alone
  <2>2. ASSUME NEW r \in Ingests, NEW s \in Ingests, r # s, Begin(r), HoldsOrgs(s)'
        PROVE  FALSE
    <3>1. ~HoldsOrgs(s)
      BY <2>2 DEF Begin
    <3>2. pc'[s] = pc[s]
      BY <2>2 DEF Begin, From, TypeOK, Process
    <3> QED
      BY <2>2, <3>1, <3>2 DEF HoldsOrgs
  <2> QED
    BY <2>1, <2>2, IngestStep
<1>2. ReadIsCurrent'
  <2> SUFFICES ASSUME NEW p \in Ingests, HoldsOrgs(p)', NEW path \in Path
               PROVE  seen'[p][path] = CurrentHash(path)' \/ ByWriter(path)'
    BY DEF ReadIsCurrent
  <2>1. CASE Begin(p)
    <3>1. seen'[p][path] = CurrentHash(path)
      BY <2>1 DEF Begin, ReadCurrent, TypeOK, Process
    <3>2. UNCHANGED <<open[path], hist[path]>>
      BY <2>1 DEF Begin, committed
    <3> QED
      BY <3>1, <3>2, SameHash
  <2>2. CASE HoldsOrgs(p) /\ UNCHANGED <<loaded[p], seen[p]>>
    <3>1. seen'[p][path] = CurrentHash(path) \/ ByWriter(path)
      BY <2>2 DEF Guarded, ReadIsCurrent
    <3> QED
      BY <2>2, <3>1, RowStep, SameHash DEF Guarded
  <2> QED
    BY <2>1, <2>2, IngestStep
<1>3. AimsAtCurrent'
  <2> SUFFICES ASSUME NEW p \in Ingests, NEW path \in Changed(p)',
                      seen'[p][path] # None,
                      pc'[p] \in {"superseding", "superseded"}
               PROVE  \/ ByWriter(path)'
                      \/ /\ pc'[p] = "superseding" =>
                              <<path, Len(hist'[path])>> \in target'[p]
                         /\ pc'[p] = "superseded" =>
                              <<path, Len(hist'[path])>> \in closing'[p]
    BY DEF AimsAtCurrent
  <2>1. HoldsOrgs(p)' /\ path \in Path /\ p \in Process
    BY DEF HoldsOrgs, Changed, Given, Process
  <2>2. ~Begin(p)
    BY <2>1 DEF Begin, From, TypeOK
  <2>3. /\ HoldsOrgs(p)
        /\ UNCHANGED <<loaded[p], seen[p]>>
        /\ \/ StartSupersede(p) \/ Supersede(p)
           \/ UNCHANGED <<pc[p], target[p], closing[p]>>
    <3>1. ~InsertData(p)
      BY <2>1 DEF InsertData, From, TypeOK
    <3> QED
      BY <2>1, <2>2, <3>1, IngestStep
  <2>4. path \in Changed(p) /\ seen[p][path] # None
    BY <2>3 DEF Changed, Given
  <2>5. CASE ByWriter(path) \/ ~UNCHANGED <<open[path], hist[path]>>
    BY <2>1, <2>3, <2>5, RowStep, SameHash DEF Guarded
  <2>6. CASE ~ByWriter(path) /\ UNCHANGED <<open[path], hist[path]>>
    <3>1. seen[p][path] = CurrentHash(path)
      BY <2>1, <2>3, <2>6 DEF Guarded, ReadIsCurrent
    <3>2. hist[path] # <<>>
      BY <2>1, <2>4, <3>1, CurrentHashType
    <3>3. open[path] = {Len(hist[path])}
      BY <2>1, <3>2 DEF CurrentIsNewest
    <3>4. CASE StartSupersede(p)
      BY <2>1, <2>4, <2>6, <3>3, <3>4 DEF StartSupersede, From, TypeOK
    <3>5. CASE Supersede(p)
      <4>1. <<path, Len(hist[path])>> \in target[p]
        BY <2>4, <2>6, <3>5 DEF Guarded, AimsAtCurrent, Supersede, From
      <4> QED
        BY <2>1, <2>6, <3>3, <3>5, <4>1 DEF Supersede, From, TypeOK
    <3>6. CASE UNCHANGED <<pc[p], target[p], closing[p]>>
      BY <2>4, <2>6, <3>6 DEF Guarded, AimsAtCurrent
    <3> QED
      BY <2>3, <3>4, <3>5, <3>6
  <2> QED
    BY <2>5, <2>6
<1> QED
  BY <1>1, <1>2, <1>3 DEF Guarded

(* One ingest at a time, what it has read, and what it is about to         *)
(* supersede: an invariant on top of IngestInductive.                      *)
THEOREM GuardedInductive == Spec => []Guarded
<1>1. Init => Guarded
  BY DEF Init, Guarded, Alone, ReadIsCurrent, AimsAtCurrent, HoldsOrgs, Process
<1> QED
  BY <1>1, IngestInductive, GuardedStep, PTL DEF Spec

(* uq_org_datum_current refuses an ingest only for a row of upsert_datum.  *)
THEOREM NoCollision == Spec => IngestsDoNotCollide
<1>1. ASSUME TypeOK, CurrentIsNewest, Guarded, NEW p \in Ingests, DataRefused(p)
      PROVE  \E path \in Changed(p) : \E i \in open[path] :
                hist[path][i].by = "writer"
  <2>1. PICK path \in Changed(p) : \E i \in open[path] : <<path, i>> \notin closing[p]
    BY <1>1 DEF DataRefused, IndexConflict
  <2>2. path \in Path /\ HoldsOrgs(p) /\ pc[p] = "superseded"
    BY <1>1 DEF DataRefused, HoldsOrgs, Changed, Given
  <2>3. /\ hist[path] # <<>> /\ open[path] = {Len(hist[path])}
        /\ <<path, Len(hist[path])>> \notin closing[p]
    BY <1>1, <2>1, <2>2 DEF CurrentIsNewest
  <2>4. CurrentHash(path) # None
    <3>1. hist[path] \in Seq(Version)
      BY <1>1, <2>2 DEF TypeOK
    <3>2. Len(hist[path]) \in 1..Len(hist[path])
      BY <2>3, <3>1, LastPlace
    <3>3. hist[path][Len(hist[path])] \in Version
      BY <3>1, <3>2
    <3>4. hist[path][Len(hist[path])].value \in Value
      BY <3>3 DEF Version
    <3> QED
      BY <1>1, <2>2, <2>3, <3>4, CurrentHashType, ConstantsAssumption DEF RowHash, HashOf
  <2>5. ByWriter(path)
    BY <1>1, <2>2, <2>3, <2>4 DEF Guarded, ReadIsCurrent, AimsAtCurrent
  <2> QED
    BY <2>3, <2>5 DEF ByWriter
<1>2. TypeOK /\ CurrentIsNewest /\ Guarded /\ [Next]_vars =>
        [\A p \in Ingests : DataRefused(p) =>
           \E path \in Changed(p) : \E i \in open[path] :
              hist[path][i].by = "writer"]_vars
  BY <1>1
<1> QED
  BY <1>2, IngestInductive, GuardedInductive, PTL DEF Spec, IngestsDoNotCollide

(* The row an ingest commits for a path has another hash than a current    *)
(* row that an ingest wrote.                                               *)
LEMMA CommitIsNews ==
    ASSUME TypeOK, Locks, CurrentIsNewest, Guarded, NEW p \in Ingests, Commit(p),
           NEW path \in adding[p], hist[path] # <<>>, ~ByWriter(path)
    PROVE  ContentHash[hist[path][Len(hist[path])].value]
             # ContentHash[loaded[p].data[path]]
<1>1. p \in Process /\ path \in Path /\ HoldsOrgs(p)
  BY DEF Process, TypeOK, Commit, HoldsOrgs
<1>2. seen[p][path] = CurrentHash(path)
  BY <1>1 DEF Guarded, ReadIsCurrent
<1>3. CurrentHash(path) = ContentHash[hist[path][Len(hist[path])].value]
  <2>1. hist[path][Len(hist[path])] \in Version /\ hist[path][Len(hist[path])].by # "writer"
    BY <1>1, LastPlace DEF TypeOK, ByWriter
  <2>2. hist[path][Len(hist[path])].by = "ingest"
    BY <2>1 DEF Version
  <2> QED
    BY <1>1, <2>2, CurrentHashType DEF RowHash, HashOf
<1>4. seen[p][path] # ContentHash[loaded[p].data[path]]
  BY <1>1 DEF Locks, Commit, Changed, HashOf, Kind
<1> QED
  BY <1>2, <1>3, <1>4

(* Two rows an ingest wrote, one after the other, differ in their hash.    *)
THEOREM ChangesHold == Spec => []IngestsRecordChanges
<1>1. Init => IngestsRecordChanges
  BY DEF Init, IngestsRecordChanges
<1>2. ASSUME TypeOK, Locks, CurrentIsNewest, Guarded, IngestsRecordChanges, [Next]_vars
      PROVE  IngestsRecordChanges'
  <2>1. CASE UNCHANGED committed
    BY <1>2, <2>1 DEF committed, IngestsRecordChanges
  <2>2. ASSUME NEW p \in Process, Commit(p), NEW path \in Path,
               NEW i \in 1..Len(hist'[path]) - 1,
               hist'[path][i].by = "ingest", hist'[path][i + 1].by = "ingest"
        PROVE  ContentHash[hist'[path][i].value] # ContentHash[hist'[path][i + 1].value]
    <3>1. hist[path] \in Seq(Version) /\ Len(hist[path]) \in Nat
      BY <1>2 DEF TypeOK
    <3>2. CASE path \notin adding[p]
      <4>1. hist'[path] = hist[path]
        BY <1>2, <2>2, <3>2, CommitRow
      <4> QED
        BY <1>2, <2>2, <4>1 DEF IngestsRecordChanges
    <3>3. CASE path \in adding[p] /\ i < Len(hist[path])
      <4>1. hist'[path][i] = hist[path][i] /\ hist'[path][i + 1] = hist[path][i + 1]
        <5> DEFINE row == [value |-> loaded[p].data[path], by |-> Kind(p)]
        <5>1. hist'[path] = Append(hist[path], row)
          BY <1>2, <2>2, <3>3, CommitRow
        <5> HIDE DEF row, Version
        <5> QED
          BY <2>2, <3>1, <3>3, <5>1
      <4>2. i \in 1..Len(hist[path]) - 1
        BY <2>2, <3>1, <3>3
      <4> QED
        BY <1>2, <2>2, <4>1, <4>2 DEF IngestsRecordChanges
    <3>4. CASE path \in adding[p] /\ i >= Len(hist[path])
      <4> DEFINE row == [value |-> loaded[p].data[path], by |-> Kind(p)]
      <4>1. /\ hist'[path] = Append(hist[path], row)
            /\ Len(hist'[path]) = Len(hist[path]) + 1
            /\ hist'[path][Len(hist'[path])] = row
        BY <1>2, <2>2, <3>4, CommitRow
      <4>2. i = Len(hist[path]) /\ i \in 1..Len(hist[path])
        BY <2>2, <3>1, <3>4, <4>1
      <4>3. hist'[path][i + 1] = row /\ hist[path] # <<>>
        BY <3>1, <4>1, <4>2
      <4>4. hist'[path][i] = hist[path][i]
        <5> HIDE DEF row, Version
        <5> QED
          BY <3>1, <4>1, <4>2
      <4>5. p \in Ingests /\ ~ByWriter(path)
        BY <2>2, <4>2, <4>3, <4>4 DEF Kind, ByWriter
      <4> QED
        BY <1>2, <2>2, <3>4, <4>2, <4>3, <4>4, <4>5, CommitIsNews
    <3> QED
      BY <2>2, <3>1, <3>2, <3>3, <3>4, CommitRow, <1>2
  <2>3. ASSUME NEW p \in Process, Commit(p) PROVE IngestsRecordChanges'
    BY <2>2, <2>3 DEF IngestsRecordChanges
  <2> QED
    BY <1>2, <2>1, <2>3, OnlyCommit
<1> QED
  BY <1>1, <1>2, IngestInductive, GuardedInductive, PTL DEF Spec

(* What an ingest commits is current, or a writer's row is newer.          *)
THEOREM CommittedIsCurrent == Spec => IngestedIsCurrent
<1>1. ASSUME TypeOK, Locks, CurrentIsNewest, Guarded,
             NEW p \in Ingests, Commit(p), NEW path \in Given(p)
      PROVE  LET row == hist'[path][Len(hist'[path])]
             IN  \/ ContentHash[row.value] = ContentHash[loaded[p].data[path]]
                 \/ row.by = "writer"
  <2>1. path \in Path /\ p \in Process /\ HoldsOrgs(p)
    BY <1>1 DEF Given, Process, Commit, HoldsOrgs
  <2>2. CASE path \in adding[p]
    <3>1. hist'[path][Len(hist'[path])]
            = [value |-> loaded[p].data[path], by |-> Kind(p)]
      BY <1>1, <2>1, <2>2, CommitRow
    <3> QED
      BY <3>1
  <2>3. CASE path \notin adding[p]
    <3>1. seen[p][path] = ContentHash[loaded[p].data[path]]
      BY <1>1, <2>1, <2>3 DEF Locks, Commit, Changed, HashOf, Kind
    <3>2. loaded[p].data[path] \in Value
      BY <1>1, <2>1 DEF TypeOK, Content, Given
    <3>3. seen[p][path] # None
      BY <3>1, <3>2, ConstantsAssumption
    <3>4. hist'[path] = hist[path]
      BY <1>1, <2>1, <2>3, CommitRow
    <3>5. CASE ByWriter(path)
      BY <3>4, <3>5 DEF ByWriter
    <3>6. CASE ~ByWriter(path)
      <4>1. seen[p][path] = CurrentHash(path)
        BY <1>1, <2>1, <3>6 DEF Guarded, ReadIsCurrent
      <4>2. CurrentHash(path) = ContentHash[hist[path][Len(hist[path])].value]
        <5>1. hist[path] # <<>> /\ CurrentHash(path) = RowHash(hist[path][Len(hist[path])])
          BY <1>1, <2>1, <3>3, <4>1, CurrentHashType
        <5>2. hist[path][Len(hist[path])] \in Version
          BY <1>1, <2>1, <5>1, LastPlace DEF TypeOK
        <5>3. hist[path][Len(hist[path])].by = "ingest"
          BY <3>6, <5>1, <5>2 DEF Version, ByWriter
        <5> QED
          BY <5>1, <5>3 DEF RowHash, HashOf
      <4> QED
        BY <3>1, <3>4, <4>1, <4>2
    <3> QED
      BY <3>5, <3>6
  <2> QED
    BY <2>2, <2>3
<1>2. TypeOK /\ Locks /\ CurrentIsNewest /\ Guarded /\ [Next]_vars =>
        [\A p \in Ingests : Commit(p) =>
          \A path \in Given(p) :
              LET row == hist'[path][Len(hist'[path])]
              IN  \/ ContentHash[row.value] = ContentHash[loaded[p].data[path]]
                  \/ row.by = "writer"]_vars
  BY <1>1
<1> QED
  BY <1>2, IngestInductive, GuardedInductive, PTL DEF Spec, IngestedIsCurrent

-----------------------------------------------------------------------------
(* The history is what the database promises *)

(* A commit adds all its rows and statements to the history at once.       *)
LEMMA CommitImplements ==
    ASSUME TypeOK, Locks, CurrentIsNewest, Guarded, NEW p \in Process, Commit(p)
    PROVE  History!HistoryNext
<1> DEFINE row(path) == [value |-> loaded[p].data[path], by |-> Kind(p)]
           rows == [path \in adding[p] |-> row(path)]
           classes == loaded[p].class
<1>1. adding[p] \in SUBSET Path /\ loaded[p] \in Content
  BY DEF TypeOK
<1>2. rows \in [adding[p] -> History!Row]
  <2> SUFFICES ASSUME NEW path \in adding[p] PROVE row(path) \in History!Row
    OBVIOUS
  <2>1. loaded[p].data[path] \in Value
    BY <1>1 DEF Locks, Commit, Changed, Given, Content
  <2> QED
    BY <2>1 DEF History!Row, Kind
<1>3. classes \in [Entry -> Class \cup {History!None}]
  BY <1>1 DEF Content, History!None
<1>4. ASSUME NEW path \in adding[p] PROVE History!IsNews(path, rows[path])
  <2> SUFFICES ASSUME hist[path] # <<>>,
                      hist[path][Len(hist[path])].by = "ingest",
                      rows[path].by = "ingest"
               PROVE  ContentHash[hist[path][Len(hist[path])].value]
                        # ContentHash[rows[path].value]
    BY DEF History!IsNews
  <2>1. p \in Ingests /\ ~ByWriter(path)
    BY DEF Kind, ByWriter
  <2> QED
    BY <1>4, <2>1, CommitIsNews
<1>5. History!AddRows(rows)
  <2>1. \A path \in Path : path \in adding[p] => open'[path] = {Len(hist[path]) + 1}
    BY CommitRow
  <2>2. \A path \in Path : path \notin adding[p] => open'[path] = open[path]
    BY CommitRow
  <2>3. open' = [path \in Path |->
          IF path \in adding[p] THEN {Len(hist[path]) + 1} ELSE open[path]]
    <3>1. open' = [path \in Path |-> open'[path]]
      BY DEF Commit
    <3> QED
      BY <2>1, <2>2, <3>1
  <2>4. hist' = [path \in Path |->
          IF path \in adding[p] THEN Append(hist[path], rows[path]) ELSE hist[path]]
    BY DEF Commit
  <2>5. DOMAIN rows = adding[p]
    OBVIOUS
  <2> HIDE DEF rows
  <2> QED
    BY <1>4, <2>3, <2>4, <2>5 DEF History!AddRows
<1>6. History!AddStatements(classes)
  BY DEF Commit, History!AddStatements, History!None
<1> QED
  <2> HIDE DEF rows, classes
  <2> QED
    BY <1>1, <1>2, <1>3, <1>5, <1>6 DEF History!HistoryNext

(* The database is a history of facts: a reader of org_datum and of the    *)
(* statements may forget every transaction, lock and refusal of ingest_orgs *)
(* and upsert_datum.                                                       *)
THEOREM HistoryImplemented == Spec => ImplementsHistory
<1>1. Init => History!HistoryInit
  BY DEF Init, History!HistoryInit, History!None
<1>2. TypeOK /\ Locks /\ CurrentIsNewest /\ Guarded /\ [Next]_vars =>
        [History!HistoryNext]_(History!hvars)
  <2> SUFFICES ASSUME TypeOK, Locks, CurrentIsNewest, Guarded, [Next]_vars
               PROVE  [History!HistoryNext]_(History!hvars)
    OBVIOUS
  <2>1. CASE UNCHANGED committed
    BY <2>1 DEF committed, History!hvars
  <2>2. ASSUME NEW p \in Process, Commit(p) PROVE History!HistoryNext
    BY <2>2, CommitImplements
  <2> QED
    BY <2>1, <2>2, OnlyCommit
<1> QED
  BY <1>1, <1>2, IngestInductive, GuardedInductive, PTL
     DEF Spec, ImplementsHistory, History!HistorySpec

-----------------------------------------------------------------------------
(* Nobody waits in a circle *)

(* p cannot go on before q is over: for the row locks of organisations, for *)
(* a row of the history, or for an index entry.                            *)
WaitsFor(p, q) ==
    /\ q # p
    /\ \/ pc[p] = "loaded" /\ p \in Ingests /\ q \in Ingests /\ HoldsOrgs(q)
       \/ pc[p] = "superseding" /\ target[p] \cap closing[q] # {}
       \/ /\ pc[p] = "superseded"
          /\ \/ Changed(p) \cap adding[q] # {}
             \/ \E row \in closing[q] : row[1] \in Changed(p)

(* The waiting the model's guards know is this waiting and no other.       *)
LEMMA WaitsAreGuards ==
    ASSUME NEW p \in Process
    PROVE  /\ pc[p] = "loaded" /\ p \in Ingests =>
                (~(\E q \in Ingests \ {p} : HoldsOrgs(q))
                   <=> \A q \in Process : ~WaitsFor(p, q))
           /\ pc[p] = "superseding" =>
                ((\A q \in Process \ {p} : target[p] \cap closing[q] = {})
                   <=> \A q \in Process : ~WaitsFor(p, q))
           /\ pc[p] = "superseded" =>
                (IndexSettled(p) <=> \A q \in Process : ~WaitsFor(p, q))
<1>1. pc[p] = "loaded" /\ p \in Ingests =>
        (~(\E q \in Ingests \ {p} : HoldsOrgs(q))
           <=> \A q \in Process : ~WaitsFor(p, q))
  BY DEF WaitsFor, Process
<1>2. pc[p] = "superseding" =>
        ((\A q \in Process \ {p} : target[p] \cap closing[q] = {})
           <=> \A q \in Process : ~WaitsFor(p, q))
  BY DEF WaitsFor
<1>3. pc[p] = "superseded" =>
        (IndexSettled(p) <=> \A q \in Process : ~WaitsFor(p, q))
  BY DEF WaitsFor, IndexSettled
<1> QED
  BY <1>1, <1>2, <1>3

(* Whatever transactions there are, one of them waits for none of the      *)
(* others: Postgres never has to break a deadlock between ingest_orgs and  *)
(* upsert_datum.                                                           *)
NobodyWaitsInACircle ==
    \A S \in SUBSET Process :
        S # {} => \E p \in S : \A q \in S : ~WaitsFor(p, q)

(* upsert_datum writes one path.                                           *)
OnePath == \A w \in Writers : \A x, y \in Given(w) : x = y

LEMMA OnePathStep == TypeOK /\ OnePath /\ [Next]_vars => OnePath'
<1> SUFFICES ASSUME TypeOK, OnePath, [Next]_vars,
                    NEW w \in Writers, NEW x \in Given(w)', NEW y \in Given(w)'
             PROVE  x = y
  BY DEF OnePath
<1>1. CASE loaded'[w] = loaded[w]
  BY <1>1 DEF OnePath, Given
<1>2. CASE loaded'[w] = Nothing
  BY <1>2 DEF Given, Nothing
<1>3. ASSUME NEW path \in Path, NEW v \in Value, CallWriter(w, path, v)
      PROVE  x = y
  <2>1. loaded'[w] = [Nothing EXCEPT !.data[path] = v]
    BY <1>3 DEF CallWriter, TypeOK, Process
  <2> QED
    BY <2>1 DEF Given, Nothing
<1>4. ASSUME NEW p \in Process, p # w,
             \/ LoadFile(p)
             \/ \E path \in Path, v \in Value : CallWriter(p, path, v)
      PROVE  loaded'[w] = loaded[w]
  BY <1>4 DEF LoadFile, CallWriter, TypeOK, Process
<1>5. ASSUME NEW p \in Process, Over(p)
      PROVE  loaded'[w] = loaded[w] \/ loaded'[w] = Nothing
  BY <1>5 DEF Over, TypeOK, Process
<1>6. CASE loaded' = loaded
  BY <1>1, <1>6
<1>7. \A p \in Ingests : p \in Process /\ p # w
  BY ConstantsAssumption DEF Process
<1>8. \/ loaded' = loaded
      \/ \E p \in Ingests : LoadFile(p)
      \/ \E p \in Writers, path \in Path, v \in Value : CallWriter(p, path, v)
      \/ \E p \in Process : Over(p)
  BY DEF Next, Write, Deploy, Begin, StartSupersede, Supersede, InsertData,
     DataRefused, StatementsRefused, Commit, Kill, Process, vars, session
<1> QED
  BY <1>1, <1>2, <1>3, <1>4, <1>5, <1>6, <1>7, <1>8 DEF Process

(* Who has superseded a row of a path is alone on that path.               *)
LEMMA OneHolder ==
    ASSUME TypeOK, Locks, CurrentIsNewest, NEW p \in Process, NEW q \in Process,
           p # q, NEW row \in closing[p]
    PROVE  /\ row[1] \notin adding[q]
           /\ \A other \in closing[q] : other[1] # row[1]
<1>1. \A r \in closing[p] \cup closing[q] :
         /\ r \in Path \X Nat
         /\ r[2] \in open[r[1]]
         /\ \A i, j \in open[r[1]] : i = j
  <2> SUFFICES ASSUME NEW r \in closing[p] \cup closing[q]
               PROVE  /\ r \in Path \X Nat
                      /\ r[2] \in open[r[1]]
                      /\ \A i, j \in open[r[1]] : i = j
    OBVIOUS
  <2>1. r \in Path \X Nat
    BY DEF TypeOK
  <2>2. r[2] \in open[r[1]]
    BY DEF Locks
  <2>3. \A i, j \in open[r[1]] : i = j
    <3>1. r[1] \in Path
      BY <2>1
    <3>2. open[r[1]] = {} \/ open[r[1]] = {Len(hist[r[1]])}
      BY <3>1 DEF CurrentIsNewest
    <3> QED
      BY <3>2
  <2> QED
    BY <2>1, <2>2, <2>3
<1>2. closing[p] \cap closing[q] = {}
  BY DEF Locks
<1>3. ASSUME row[1] \in adding[q] PROVE FALSE
  <2>1. <<row[1], row[2]>> \in closing[q]
    BY <1>1, <1>3 DEF Locks
  <2>2. row = <<row[1], row[2]>>
    BY <1>1
  <2> QED
    BY <1>2, <2>1, <2>2
<1>4. ASSUME NEW other \in closing[q], other[1] = row[1] PROVE FALSE
  <2>1. other[2] = row[2]
    BY <1>1, <1>4
  <2>2. other = row
    BY <1>1, <1>4, <2>1
  <2> QED
    BY <1>2, <2>2
<1> QED
  BY <1>3, <1>4

(* How far up in a chain of waiting transactions one may be.               *)
Above(p) ==
    IF pc[p] = "loaded" THEN 4
    ELSE IF pc[p] = "superseding" THEN 3
    ELSE IF pc[p] # "superseded" THEN 0
    ELSE IF p \in Ingests THEN 2
    ELSE IF closing[p] # {} THEN 1
    ELSE 3

(* An ingest that is about to insert waits for writers only, and a writer  *)
(* that has superseded a row for nobody.                                   *)
LEMMA WaitsDownwards ==
    ASSUME TypeOK, Locks, CurrentIsNewest, Alone, OnePath,
           NEW p \in Process, NEW q \in Process, WaitsFor(p, q)
    PROVE  Above(q) < Above(p)
<1>1. CASE pc[p] = "loaded"
  BY <1>1 DEF WaitsFor, Above, HoldsOrgs
<1>2. CASE pc[p] = "superseding"
  <2>1. closing[q] # {}
    BY <1>2 DEF WaitsFor
  <2>2. pc[q] \in {"superseded", "inserted"}
    BY <2>1 DEF Locks
  <2> QED
    BY <1>2, <2>1, <2>2 DEF Above
<1>3. CASE pc[p] = "superseded"
  <2>1. CASE pc[q] = "inserted"
    BY <1>3, <2>1 DEF Above
  <2>2. CASE pc[q] # "inserted"
    <3>1. PICK row \in closing[q] : row[1] \in Changed(p)
      BY <1>3, <2>2 DEF WaitsFor, Locks
    <3>2. pc[q] = "superseded"
      BY <2>2, <3>1 DEF Locks
    <3>3. CASE p \in Ingests
      <4>1. q \notin Ingests
        BY <1>3, <3>2, <3>3 DEF Alone, HoldsOrgs, WaitsFor
      <4> QED
        BY <1>3, <3>1, <3>2, <3>3, <4>1 DEF Above
    <3>4. CASE p \notin Ingests /\ closing[p] # {}
      <4>1. PICK mine \in closing[p] : TRUE
        BY <3>4
      <4>2. mine[1] \in Changed(p)
        BY <4>1 DEF Locks
      <4>3. mine[1] = row[1]
        BY <3>1, <3>4, <4>2 DEF OnePath, Changed, Process
      <4> QED
        BY <3>1, <4>1, <4>3, OneHolder DEF WaitsFor
    <3>5. CASE p \notin Ingests /\ closing[p] = {}
      BY <1>3, <3>1, <3>2, <3>5 DEF Above
    <3> QED
      BY <3>3, <3>4, <3>5
  <2> QED
    BY <2>1, <2>2
<1> QED
  BY <1>1, <1>2, <1>3 DEF WaitsFor

(* No set of ingests and writers is in a deadlock.                         *)
THEOREM NoDeadlock == Spec => []NobodyWaitsInACircle
<1>1. Init => OnePath
  BY DEF Init, OnePath, Given, Nothing, Process
<1>2. TypeOK /\ Locks /\ CurrentIsNewest /\ Guarded /\ OnePath => NobodyWaitsInACircle
  <2> SUFFICES ASSUME TypeOK, Locks, CurrentIsNewest, Guarded, OnePath,
                      NEW S \in SUBSET Process, S # {},
                      \A p \in S : \E q \in S : WaitsFor(p, q)
               PROVE  FALSE
    BY DEF NobodyWaitsInACircle
  <2>1. \A p \in S : Above(p) \in 0..4
    BY DEF Above
  <2>2. \A p \in S : \E q \in S : Above(q) < Above(p)
    BY WaitsDownwards DEF Guarded
  <2> HIDE DEF Above
  <2>3. \A p \in S : Above(p) # 0
    BY <2>1, <2>2
  <2>4. \A p \in S : Above(p) # 1
    BY <2>1, <2>2, <2>3
  <2>5. \A p \in S : Above(p) # 2
    BY <2>1, <2>2, <2>3, <2>4
  <2>6. \A p \in S : Above(p) # 3
    BY <2>1, <2>2, <2>3, <2>4, <2>5
  <2> QED
    BY <2>1, <2>2, <2>3, <2>4, <2>5, <2>6
<1> QED
  BY <1>1, <1>2, OnePathStep, IngestInductive, GuardedInductive, PTL DEF Spec
=============================================================================

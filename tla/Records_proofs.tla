---------------------------- MODULE Records_proofs ----------------------------
(***************************************************************************)
(* Theorems about Records, for every set of data and of hosts, and any     *)
(* number of edits.                                                        *)
(***************************************************************************)
EXTENDS Records, TLAPS

(* A note that says somebody looked: every one but the blank one and the   *)
(* sentence the code writes for "not_searched".                            *)
Evidence(note) == note \notin {"", GeneratedNote.not_searched}

LEMMA Sentences ==
    /\ \A r \in Reason :
          /\ GeneratedNote[r] \in GENERATED_NOTES
          /\ GeneratedNote[r] \in Note
          /\ GeneratedNote[r] # ""
          /\ Evidence(GeneratedNote[r]) => r \in SEARCHED
    /\ "" \notin GENERATED_NOTES
<1>1. \A r \in Reason : GeneratedNote[r] \in GENERATED_NOTES
  BY DEF GENERATED_NOTES
<1>2. ASSUME NEW r \in Reason
      PROVE  GeneratedNote[r] # "" /\ (Evidence(GeneratedNote[r]) => r \in SEARCHED)
  <2>1. CASE r = "not_searched"
    BY <2>1 DEF GeneratedNote, Evidence
  <2>2. CASE r = "searched_not_found"
    BY <2>2 DEF GeneratedNote, Reason, SEARCHED
  <2>3. CASE r = "source_unreachable"
    BY <2>3 DEF GeneratedNote, Reason, SEARCHED
  <2>4. CASE r = "not_public"
    BY <2>4 DEF GeneratedNote, Reason, SEARCHED
  <2> QED
    BY <2>1, <2>2, <2>3, <2>4 DEF Reason
<1> QED
  BY <1>1, <1>2 DEF Note, GENERATED_NOTES

LEMMA DerivedReason ==
    ASSUME NEW d \in Datum, NEW p, NEW gaps
    PROVE  /\ ~IsGap(d) => Derived(d, p, gaps) = None
           /\ IsGap(d) => Derived(d, p, gaps) \in Reason
           /\ IsGap(d) /\ Derived(d, p, gaps) \in SEARCHED =>
                 Evidence(d.note) \/ p \in gaps
  BY DEF Derived, DeriveRegistrationGapReason, DeriveGapReason, Reason,
     SEARCHED, Evidence, SaysUnreachable, SaysWithheld, IsResearcherNote,
     GENERATED_NOTES, GeneratedNote

LEMMA NotedDatum ==
    ASSUME NEW d \in Datum, IsGap(d) => d.reason \in Reason
    PROVE  /\ WithNote(d) \in Datum
           /\ WithNote(d).value = d.value
           /\ WithNote(d).reason = d.reason
           /\ IsGap(d) => WithNote(d).note # ""
           /\ d.note # "" => WithNote(d) = d
           /\ ~IsGap(d) => WithNote(d) = d
           /\ IsGap(d) /\ d.note = "" => WithNote(d).note = GeneratedNote[d.reason]
<1>1. CASE IsGap(d) /\ d.note = ""
  <2>1. GeneratedNote[d.reason] \in Note /\ GeneratedNote[d.reason] # ""
    BY <1>1, Sentences
  <2> QED
    BY <1>1, <2>1 DEF WithNote, Datum
<1>2. CASE ~(IsGap(d) /\ d.note = "")
  BY <1>2 DEF WithNote
<1> QED
  BY <1>1, <1>2

(* What the migration makes of a datum, and the loader of one without a    *)
(* recorded reason.                                                        *)
LEMMA MigratedDatum ==
    ASSUME NEW d \in Datum, NEW p, NEW gaps
    PROVE  /\ MigrateDatum(d, p, gaps) \in Datum
           /\ MigrateDatum(d, p, gaps).value = d.value
           /\ MigrateDatum(d, p, gaps).reason = Derived(d, p, gaps)
           /\ IsGap(d) => MigrateDatum(d, p, gaps).note # ""
           /\ d.note # "" \/ ~IsGap(d) => MigrateDatum(d, p, gaps).note = d.note
           /\ IsGap(d) /\ d.note = "" =>
                 MigrateDatum(d, p, gaps).note = GeneratedNote[Derived(d, p, gaps)]
<1> DEFINE e == [d EXCEPT !.reason = Derived(d, p, gaps)]
<1>1. /\ e \in Datum /\ e.value = d.value /\ e.note = d.note
      /\ e.reason = Derived(d, p, gaps) /\ (IsGap(e) <=> IsGap(d))
  BY DerivedReason DEF Datum, OrNone, IsGap
<1>2. IsGap(e) => e.reason \in Reason
  BY <1>1, DerivedReason
<1>3. MigrateDatum(d, p, gaps) = WithNote(e)
  BY DEF MigrateDatum
<1> HIDE DEF e
<1> QED
  BY <1>1, <1>2, <1>3, NotedDatum

LEMMA LoadedDatum ==
    ASSUME NEW d \in Datum, NEW p, NEW gaps
    PROVE  /\ IsGap(d) /\ d.reason = None =>
                 RowOf(d, p, gaps) = MigrateDatum(d, p, gaps)
           /\ ~(IsGap(d) /\ d.reason = None) => RowOf(d, p, gaps) = WithNote(d)
  BY DEF RowOf, RegistrationRow, DatumRow, MigrateDatum, Derived
-----------------------------------------------------------------------------
(* Types *)

LEMMA RowType ==
    ASSUME NEW d \in Datum, NEW p, NEW gaps
    PROVE  /\ RowOf(d, p, gaps) \in Datum
           /\ RowOf(d, p, gaps).value = d.value
           /\ IsGap(d) => /\ RowOf(d, p, gaps).note # ""
                          /\ RowOf(d, p, gaps).reason # None
           /\ ~IsGap(d) => RowOf(d, p, gaps).reason = d.reason
<1>1. CASE IsGap(d) /\ d.reason = None
  <2>1. RowOf(d, p, gaps) = MigrateDatum(d, p, gaps)
    BY <1>1, LoadedDatum
  <2>2. Derived(d, p, gaps) \in Reason /\ None \notin Reason
    BY <1>1, DerivedReason DEF Reason, None
  <2>3. /\ MigrateDatum(d, p, gaps) \in Datum
        /\ MigrateDatum(d, p, gaps).value = d.value
        /\ MigrateDatum(d, p, gaps).reason = Derived(d, p, gaps)
        /\ MigrateDatum(d, p, gaps).note # ""
    BY <1>1, MigratedDatum
  <2> QED
    BY <1>1, <2>1, <2>2, <2>3
<1>2. CASE ~(IsGap(d) /\ d.reason = None)
  <2>1. IsGap(d) => d.reason \in Reason
    BY <1>2 DEF Datum, OrNone
  <2>2. RowOf(d, p, gaps) = WithNote(d)
    BY <1>2, LoadedDatum
  <2>3. /\ WithNote(d) \in Datum
        /\ WithNote(d).value = d.value
        /\ WithNote(d).reason = d.reason
        /\ IsGap(d) => WithNote(d).note # ""
    BY <2>1, NotedDatum
  <2> QED
    BY <1>2, <2>2, <2>3
<1> QED
  BY <1>1, <1>2

LEMMA Constants ==
    /\ Register \subseteq Path /\ Mode \in Path /\ Mode \notin Register
    /\ NoHost \in Host
    /\ MaxEdits \in Nat
  BY ConstantsAssumption, Zenon

LEMMA HandType ==
    ASSUME TypeOK, EditByHand
    PROVE  edits' \in 0..MaxEdits /\ UNCHANGED <<dataset, rows, db, web>>
  BY Constants DEF EditByHand, TypeOK

LEMMA TypeStep == TypeOK /\ [Next]_vars => TypeOK'
<1> SUFFICES ASSUME TypeOK, [Next]_vars PROVE TypeOK'
  OBVIOUS
<1> USE DEF TypeOK
<1>1. CASE WriteValue
  <2>1. EditByHand /\ UNCHANGED <<declared, website, entry>>
    BY <1>1 DEF WriteValue
  <2> \A p \in Path : record[p].reason \in OrNone(Reason)
    BY DEF Record, Datum
  <2>2. PICK p \in Path, sourced \in BOOLEAN, value \in {"known", "unknown"},
             note \in {""} \cup ResearcherNotes, reason \in OrNone(Reason) :
          /\ record' = [record EXCEPT ![p] = [value |-> value, sourced |-> sourced,
                                              note |-> note, reason |-> reason]]
          /\ searched' = searched \cup {p}
    BY <1>1 DEF WriteValue, OrNone
  <2>3. [value |-> value, sourced |-> sourced, note |-> note, reason |-> reason] \in Datum
    BY DEF Record, Datum, Note, OrNone
  <2>4. record' \in Record /\ searched' \subseteq Path
    BY <2>2, <2>3 DEF Record
  <2> QED
    BY <2>1, <2>4, HandType
<1>2. CASE WriteGap
  <2>1. EditByHand /\ UNCHANGED <<declared, website, entry>>
    BY <1>2 DEF WriteGap
  <2>2. PICK p \in Path, note \in {""} \cup ResearcherNotes, reason \in OrNone(Reason) :
          /\ record' = [record EXCEPT ![p] = [NoDatum EXCEPT !.note = note, !.reason = reason]]
          /\ searched' \in {searched, searched \cup {p}}
    BY <1>2 DEF WriteGap
  <2>3. [NoDatum EXCEPT !.note = note, !.reason = reason] \in Datum
    BY DEF NoDatum, Datum, Note
  <2>4. record' \in Record /\ searched' \subseteq Path
    BY <2>2, <2>3 DEF Record
  <2> QED
    BY <2>1, <2>4, HandType
<1>3. CASE DeclareGap
  BY <1>3, HandType, Constants DEF DeclareGap
<1>4. CASE ResearchChannel
  <2>1. website' \in Host /\ entry' \in [listed : BOOLEAN, url : Host]
    <3>1. CASE website' \in Host /\ UNCHANGED entry
      BY <3>1
    <3>2. ASSUME NEW url \in Host, entry' = [listed |-> TRUE, url |-> url], UNCHANGED website
          PROVE  <2>1
      BY <3>2
    <3>3. CASE entry' = NoEntry /\ UNCHANGED website
      BY <3>3, Constants DEF NoEntry
    <3> QED
      BY <1>4, <3>1, <3>2, <3>3 DEF ResearchChannel
  <2> QED
    BY <1>4, <2>1 DEF ResearchChannel
<1>5. CASE AddGapReason
  <2>1. record' \in Record
    BY <1>5, MigratedDatum DEF AddGapReason, Record
  <2> QED
    BY <1>5, <2>1 DEF AddGapReason
<1>6. CASE CompleteDataGaps
  BY <1>6 DEF CompleteDataGaps
<1>7. CASE NullablePresenceMode
  <2>1. Mode \in Path /\ record[Mode] \in Datum
    BY Constants DEF Record
  <2>2. ConvertMode(record[Mode], declared) \in Datum
    <3> DEFINE e == [record[Mode] EXCEPT !.value = None,
                       !.reason = IF Mode \in declared THEN "searched_not_found" ELSE "not_searched"]
    <3>1. e \in Datum /\ e.reason \in Reason
      BY <2>1 DEF Datum, OrNone, Reason
    <3>2. ConvertMode(record[Mode], declared) = WithNote(e)
      BY DEF ConvertMode
    <3> HIDE DEF e
    <3> QED
      BY <3>1, <3>2, NotedDatum
  <2>3. record' \in Record
    BY <1>7, <2>1, <2>2 DEF NullablePresenceMode, Record
  <2> QED
    BY <1>7, <2>3 DEF NullablePresenceMode
<1>8. CASE IngestOrgs
  <2>1. \A p \in Path : Stored(p, RowOf(record[p], p, declared)) \subseteq Datum
    <3> SUFFICES ASSUME NEW p \in Path
                 PROVE  Stored(p, RowOf(record[p], p, declared)) \subseteq Datum
      OBVIOUS
    <3>1. rows[p] \subseteq Datum /\ record[p] \in Datum
      BY DEF Record
    <3>2. RowOf(record[p], p, declared) \in Datum
      BY <3>1, RowType
    <3> QED
      BY <3>1, <3>2 DEF Stored
  <2>2. rows' \in [Path -> SUBSET Datum]
    BY <1>8, <2>1 DEF IngestOrgs
  <2>3. MergedChannel \in Host
    BY Constants DEF MergedChannel, VetDonationChannel
  <2> QED
    BY <1>8, <2>2, <2>3 DEF IngestOrgs, files
<1>9. CASE ValidateOrgs
  BY <1>9 DEF ValidateOrgs, files, Dataset
<1>10. CASE BuildWeb
  <2>1. dataset.website \in Host /\ db.website \in Host /\ entry.url \in Host
    BY DEF Dataset
  <2>2. web' \in [website : Host, channel : Host]
    BY <1>10, <2>1 DEF BuildWeb
  <2> QED
    BY <1>10, <2>2 DEF BuildWeb, files
<1>11. CASE UNCHANGED vars
  BY <1>11 DEF vars, files
<1> QED
  BY <1>1, <1>2, <1>3, <1>4, <1>5, <1>6, <1>7, <1>8, <1>9, <1>10, <1>11
     DEF Next, Research, Migrate

(* The variables keep their types: no step leaves a gap with a reason or a *)
(* note the enums do not know.                                             *)
THEOREM TypeCorrect == Spec => []TypeOK
<1>1. ASSUME Init PROVE TypeOK
  <2>1. NoDatum \in Datum
    BY DEF NoDatum, Datum, Note, OrNone
  <2>2. EmptyRecord \in Record
    BY <2>1 DEF EmptyRecord, Record
  <2>3. NoEntry \in [listed : BOOLEAN, url : Host]
    BY Constants DEF NoEntry
  <2>4. edits \in 0..MaxEdits
    BY <1>1, Constants DEF Init
  <2>5. [data |-> EmptyRecord, gaps |-> {}, website |-> NoHost] \in Dataset
    BY <2>2, Constants DEF Dataset
  <2> QED
    BY <1>1, <2>2, <2>3, <2>4, <2>5, Constants DEF Init, TypeOK
<1> QED
  BY <1>1, TypeStep, PTL DEF Spec
-----------------------------------------------------------------------------
(* Gaps *)

(* A datum of the files: a reason that claims a search, and a note that is *)
(* evidence of one, are of a path somebody has looked at.  The notes have  *)
(* to be in the invariant because the migrations make reasons of them, and *)
(* data_gaps because they make reasons of that, too.                       *)
Honest(d, p, places) ==
    (IsGap(d) /\ d.reason \in SEARCHED) \/ Evidence(d.note) => p \in places

(* A row of the database.                                                  *)
Served(row, p, places) ==
    /\ IsGap(row) /\ row.reason \in SEARCHED => p \in places
    /\ IsGap(row) => row.note # "" /\ row.reason # None
    /\ row.reason # None => IsGap(row) \/ p \in Register

Evidenced ==
    /\ declared \subseteq searched /\ dataset.gaps \subseteq searched
    /\ \A p \in Path :
          /\ Honest(record[p], p, searched)
          /\ Truthful(dataset.data[p], p)
          /\ \A row \in rows[p] : Served(row, p, searched)

(* Nobody forgets that a place was searched.                               *)
LEMMA SearchedGrows == [Next]_vars => searched \subseteq searched'
  BY DEF Next, Research, Migrate, WriteValue, WriteGap, DeclareGap,
     ResearchChannel, AddGapReason, CompleteDataGaps, NullablePresenceMode,
     IngestOrgs, ValidateOrgs, BuildWeb, vars

LEMMA MigratedIsHonest ==
    ASSUME NEW d \in Datum, NEW p, Honest(d, p, searched), declared \subseteq searched
    PROVE  Honest(MigrateDatum(d, p, declared), p, searched)
<1> DEFINE m == MigrateDatum(d, p, declared)
           r == Derived(d, p, declared)
<1>1. /\ m.value = d.value /\ m.reason = r
      /\ d.note # "" \/ ~IsGap(d) => m.note = d.note
      /\ IsGap(d) /\ d.note = "" => m.note = GeneratedNote[r]
  BY MigratedDatum
<1>2. /\ ~IsGap(d) => r = None
      /\ IsGap(d) => r \in Reason
      /\ IsGap(d) /\ r \in SEARCHED => p \in searched
  BY DerivedReason DEF Honest
<1>3. IsGap(m) <=> IsGap(d)
  BY <1>1 DEF IsGap
<1> HIDE DEF m, r
<1>4. IsGap(m) /\ m.reason \in SEARCHED => p \in searched
  BY <1>1, <1>2, <1>3
<1>5. ASSUME Evidence(m.note) PROVE p \in searched
  <2>1. CASE d.note # "" \/ ~IsGap(d)
    BY <1>1, <1>5, <2>1 DEF Honest
  <2>2. CASE IsGap(d) /\ d.note = ""
    BY <1>1, <1>2, <1>5, <2>2, Sentences
  <2> QED
    BY <2>1, <2>2
<1> QED
  BY <1>4, <1>5 DEF Honest, m

LEMMA RowIsServed ==
    ASSUME NEW d \in Datum, NEW p, Honest(d, p, searched), declared \subseteq searched,
           ~IsGap(d) /\ p \notin Register => d.reason = None
    PROVE  Served(RowOf(d, p, declared), p, searched)
<1> DEFINE row == RowOf(d, p, declared)
<1>1. /\ row.value = d.value
      /\ IsGap(d) => row.note # "" /\ row.reason # None
      /\ ~IsGap(d) => row.reason = d.reason
  BY RowType
<1>2. IsGap(row) <=> IsGap(d)
  BY <1>1 DEF IsGap
<1>3. IsGap(row) /\ row.reason \in SEARCHED => p \in searched
  <2>1. CASE IsGap(d) /\ d.reason = None
    BY <2>1, LoadedDatum, MigratedIsHonest DEF Honest
  <2>2. CASE IsGap(d) /\ d.reason # None
    <3>1. row = WithNote(d) /\ d.reason \in Reason
      BY <2>2, LoadedDatum DEF Datum, OrNone
    <3>2. row.reason = d.reason
      BY <3>1, NotedDatum
    <3> QED
      BY <1>2, <3>2 DEF Honest
  <2>3. CASE ~IsGap(d)
    BY <1>2, <2>3
  <2> QED
    BY <2>1, <2>2, <2>3
<1> HIDE DEF row
<1> QED
  BY <1>1, <1>2, <1>3 DEF Served, row

(* What a step that does not touch the dataset or the rows has to show.    *)
LEMMA FilesStayHonest ==
    ASSUME Evidenced, searched \subseteq searched',
           UNCHANGED <<dataset, rows>>, declared' \subseteq searched',
           \A p \in Path : Honest(record'[p], p, searched')
    PROVE  Evidenced'
<1>1. \A p \in Path : Truthful(dataset.data[p], p)'
  BY DEF Evidenced, Truthful
<1>2. \A p \in Path : \A row \in rows'[p] : Served(row, p, searched')
  BY DEF Evidenced, Served
<1> QED
  BY <1>1, <1>2 DEF Evidenced

LEMMA EvidencedStep ==
    ASSUME TypeOK, Evidenced, [Next]_vars
    PROVE  Evidenced'
<1>1. searched \subseteq searched'
  BY SearchedGrows
<1>2. \A p \in Path : /\ record[p] \in Datum
                       /\ Honest(record[p], p, searched)
                       /\ Honest(record[p], p, searched')
  BY <1>1 DEF TypeOK, Record, Evidenced, Honest
<1>3. record \in Record /\ declared \subseteq searched
  BY DEF TypeOK, Evidenced
<1>4. CASE WriteValue
  <2>1. PICK p \in Path, d \in [value : {"known", "unknown"}, sourced : BOOLEAN,
                                note : {""} \cup ResearcherNotes, reason : OrNone(Reason)] :
          record' = [record EXCEPT ![p] = d] /\ searched' = searched \cup {p}
    <3> \A q \in Path : record[q].reason \in OrNone(Reason)
      BY <1>2 DEF Datum
    <3>1. PICK p \in Path, sourced \in BOOLEAN, value \in {"known", "unknown"},
               note \in {""} \cup ResearcherNotes, reason \in OrNone(Reason) :
            /\ record' = [record EXCEPT ![p] = [value |-> value, sourced |-> sourced,
                                                note |-> note, reason |-> reason]]
            /\ searched' = searched \cup {p}
      BY <1>4 DEF WriteValue, OrNone
    <3> QED
      BY <3>1
  <2>2. \A q \in Path : Honest(record'[q], q, searched')
    <3>1. Honest(d, p, searched')
      BY <2>1 DEF Honest, Truthful, IsGap, None
    <3> QED
      BY <1>2, <1>3, <2>1, <3>1 DEF Record
  <2>3. UNCHANGED <<dataset, rows, declared>>
    BY <1>4 DEF WriteValue, EditByHand
  <2> QED
    BY <1>1, <1>3, <2>2, <2>3, FilesStayHonest
<1>5. CASE WriteGap
  <2>1. PICK p \in Path, note \in {""} \cup ResearcherNotes, reason \in OrNone(Reason) :
          /\ record' = [record EXCEPT ![p] = [NoDatum EXCEPT !.note = note, !.reason = reason]]
          /\ searched' = IF note # "" \/ reason \in SEARCHED
                         THEN searched \cup {p} ELSE searched
    BY <1>5 DEF WriteGap
  <2>2. \A q \in Path : Honest(record'[q], q, searched')
    <3> DEFINE d == [NoDatum EXCEPT !.note = note, !.reason = reason]
    <3>1. d.note = note /\ d.reason = reason
      BY DEF NoDatum
    <3> HIDE DEF d
    <3>2. Honest(d, p, searched')
      BY <2>1, <3>1 DEF Honest, Truthful, Evidence
    <3> QED
      BY <1>2, <1>3, <2>1, <3>2 DEF Record, d
  <2>3. UNCHANGED <<dataset, rows, declared>>
    BY <1>5 DEF WriteGap, EditByHand
  <2> QED
    BY <1>1, <1>3, <2>2, <2>3, FilesStayHonest
<1>6. CASE DeclareGap
  <2>1. UNCHANGED <<record, dataset, rows>> /\ declared' \subseteq searched'
    BY <1>3, <1>6 DEF DeclareGap, EditByHand
  <2> QED
    BY <1>1, <1>2, <2>1, FilesStayHonest
<1>7. CASE ResearchChannel
  BY <1>1, <1>2, <1>3, <1>7, FilesStayHonest DEF ResearchChannel
<1>8. CASE AddGapReason
  <2>1. \A p \in Path : Honest(record'[p], p, searched)
    BY <1>2, <1>3, <1>8, MigratedIsHonest DEF AddGapReason
  <2>2. \A p \in Path : Honest(record'[p], p, searched')
    BY <1>8, <2>1 DEF AddGapReason, Honest, Truthful
  <2> QED
    BY <1>1, <1>3, <1>8, <2>2, FilesStayHonest DEF AddGapReason
<1>9. CASE CompleteDataGaps
  <2>1. declared' \subseteq searched'
    BY <1>2, <1>3, <1>9 DEF CompleteDataGaps, Honest, Truthful
  <2> QED
    BY <1>1, <1>2, <1>9, <2>1, FilesStayHonest DEF CompleteDataGaps
<1>10. CASE NullablePresenceMode
  <2> DEFINE e == [record[Mode] EXCEPT !.value = None,
                     !.reason = IF Mode \in declared THEN "searched_not_found" ELSE "not_searched"]
  <2>1. /\ e \in Datum /\ e.note = record[Mode].note /\ e.reason \in Reason
        /\ e.reason \in SEARCHED => Mode \in searched
        /\ IsGap(e)
    BY <1>2, <1>3, Constants DEF Datum, OrNone, Reason, SEARCHED, IsGap
  <2>2. ConvertMode(record[Mode], declared) = WithNote(e)
    BY DEF ConvertMode
  <2> HIDE DEF e
  <2>3. Honest(WithNote(e), Mode, searched)
    <3>1. WithNote(e).reason = e.reason
      BY <2>1, NotedDatum
    <3>2. ASSUME Evidence(WithNote(e).note) PROVE Mode \in searched
      <4>1. CASE e.note = ""
        BY <2>1, <3>2, <4>1, NotedDatum, Sentences
      <4>2. CASE e.note # ""
        BY <1>2, <2>1, <3>2, <4>2, NotedDatum, Constants DEF Honest
      <4> QED
        BY <4>1, <4>2
    <3> QED
      BY <2>1, <3>1, <3>2 DEF Honest, Truthful
  <2>4. record' = [record EXCEPT ![Mode] = WithNote(e)]
    BY <1>10, <2>2 DEF NullablePresenceMode
  <2>5. \A p \in Path : Honest(record'[p], p, searched)
    BY <1>2, <1>3, <2>3, <2>4 DEF Record
  <2>6. \A p \in Path : Honest(record'[p], p, searched')
    BY <1>10, <2>5 DEF NullablePresenceMode, Honest, Truthful
  <2> QED
    BY <1>1, <1>3, <1>10, <2>6, FilesStayHonest DEF NullablePresenceMode
<1>11. CASE IngestOrgs
  <2>1. \A p \in Path : \A row \in rows'[p] : Served(row, p, searched)
    <3> SUFFICES ASSUME NEW p \in Path, NEW row \in rows'[p] PROVE Served(row, p, searched)
      OBVIOUS
    <3>1. row \in rows[p] \/ row = RowOf(record[p], p, declared)
      BY <1>11 DEF IngestOrgs, Stored
    <3>2. ~IsGap(record[p]) /\ p \notin Register => record[p].reason = None
      BY <1>11 DEF IngestOrgs
    <3>3. Served(RowOf(record[p], p, declared), p, searched)
      BY <1>2, <1>3, <3>2, RowIsServed
    <3> QED
      BY <3>1, <3>3 DEF Evidenced
  <2>2. UNCHANGED <<record, declared, searched, dataset>>
    BY <1>11 DEF IngestOrgs, files
  <2> QED
    BY <2>1, <2>2 DEF Evidenced, Honest, Served, Truthful
<1>12. CASE ValidateOrgs
  <2>1. /\ UNCHANGED <<record, declared, searched, rows>>
        /\ dataset'.data = record /\ dataset'.gaps = declared
    BY <1>12 DEF ValidateOrgs, files
  <2> QED
    BY <2>1 DEF Evidenced, Honest, Served, Truthful
<1>13. CASE BuildWeb \/ UNCHANGED vars
  <2>1. UNCHANGED <<record, declared, searched, dataset, rows>>
    BY <1>13 DEF BuildWeb, vars, files
  <2> QED
    BY <2>1 DEF Evidenced, Honest, Served, Truthful
<1> QED
  BY <1>4, <1>5, <1>6, <1>7, <1>8, <1>9, <1>10, <1>11, <1>12, <1>13
     DEF Next, Research, Migrate

(* Nobody claims a search that did not take place, however often the files *)
(* are edited, migrated, ingested and merged; and what the API lists as a  *)
(* gap without a search is marked as not searched.                         *)
THEOREM GapsHold == Spec => []GapsAreTrue
<1>1. ASSUME Init PROVE Evidenced
  <2>1. /\ \A p \in Path : /\ record[p] = NoDatum /\ dataset.data[p] = NoDatum
                           /\ rows[p] = {}
        /\ dataset.gaps = {}
    BY <1>1 DEF Init, EmptyRecord
  <2>2. \A p \in Path : Honest(NoDatum, p, searched)
    BY DEF Honest, Truthful, NoDatum, Evidence, SEARCHED, Reason, None
  <2> QED
    BY <1>1, <2>1, <2>2 DEF Init, Evidenced, Honest, Truthful
<1>2. ASSUME TypeOK, Evidenced PROVE GapsAreTrue
  <2>1. ASSUME NEW p \in Path, NEW served \in Detail.data[p]
        PROVE  \E row \in rows[p] : served.datum = row /\ served.is_gap = IsGap(row)
    <3>1. served \in {SerialiseDatum(row) : row \in rows[p]}
      BY <2>1 DEF Detail
    <3>2. PICK row \in rows[p] : served = [datum |-> row, is_gap |-> IsGap(row)]
      BY <3>1 DEF SerialiseDatum
    <3> QED
      BY <3>2
  <2>2. ASSUME NEW p \in Path, NEW served \in Detail.data[p]
        PROVE  /\ Truthful(served.datum, p)
               /\ served.is_gap => served.datum.note # "" /\ served.datum.reason # None
               /\ served.datum.reason # None => served.is_gap \/ p \in Register
    BY <1>2, <2>1, <2>2 DEF Evidenced, Served, Truthful
  <2>3. ASSUME NEW p \in Detail.data_gaps \ searched
        PROVE  \E served \in Detail.data[p] :
                  served.is_gap /\ served.datum.reason = "not_searched"
    <3>1. p \in Path /\ \E served \in Detail.data[p] : served.is_gap
      BY <2>3 DEF Detail
    <3>2. PICK served \in Detail.data[p] : served.is_gap
      BY <3>1
    <3>3. PICK row \in rows[p] : served.datum = row /\ served.is_gap = IsGap(row)
      BY <2>1, <3>1
    <3>4. row.reason \in OrNone(Reason) /\ row.reason # None /\ row.reason \notin SEARCHED
      <4>1. row \in Datum
        BY <1>2, <3>1, <3>3 DEF TypeOK
      <4>2. Served(row, p, searched)
        BY <1>2, <3>1, <3>3 DEF Evidenced
      <4>3. IsGap(row) /\ p \notin searched
        BY <2>3, <3>2, <3>3
      <4> QED
        BY <4>1, <4>2, <4>3 DEF Datum, Served
    <3>5. row.reason = "not_searched"
      BY <3>4 DEF OrNone, SEARCHED
    <3> QED
      BY <3>2, <3>3, <3>5
  <2> QED
    BY <1>2, <2>2, <2>3 DEF GapsAreTrue, Evidenced, Honest, Truthful
<1> QED
  BY <1>1, <1>2, EvidencedStep, TypeCorrect, PTL DEF Spec
-----------------------------------------------------------------------------
(* The migration *)

(* The migration writes the notes it will later read, and reads from them  *)
(* the reason it wrote them for.                                           *)
LEMMA MigratedTwice ==
    ASSUME NEW d \in Datum, NEW p, NEW gaps
    PROVE  MigrateDatum(MigrateDatum(d, p, gaps), p, gaps) = MigrateDatum(d, p, gaps)
<1> DEFINE m == MigrateDatum(d, p, gaps)
           r == Derived(d, p, gaps)
<1>1. /\ m \in Datum /\ m.value = d.value /\ m.reason = r
      /\ IsGap(d) => m.note # ""
      /\ d.note # "" \/ ~IsGap(d) => m.note = d.note
      /\ IsGap(d) /\ d.note = "" => m.note = GeneratedNote[r]
  BY MigratedDatum
<1>2. IsGap(m) <=> IsGap(d)
  BY <1>1 DEF IsGap
<1>3. Derived(m, p, gaps) = r
  <2>1. CASE d.note # "" \/ ~IsGap(d)
    BY <1>1, <1>2, <2>1 DEF Derived, DeriveRegistrationGapReason, DeriveGapReason
  <2>2. CASE IsGap(d) /\ d.note = "" /\ r = "not_searched"
    <3>1. m.note = "Not searched in this research pass."
      <4>1. m.note = GeneratedNote[r]
        BY <1>1, <2>2
      <4>2. m.note = GeneratedNote["not_searched"]
        BY <4>1, <2>2
      <4> QED
        BY <4>2 DEF GeneratedNote
    <3> QED
      BY <1>2, <2>2, <3>1 DEF Derived, DeriveRegistrationGapReason, DeriveGapReason,
         SaysUnreachable, SaysWithheld, IsResearcherNote, GENERATED_NOTES, GeneratedNote, Reason
  <2>3. CASE IsGap(d) /\ d.note = "" /\ r = "searched_not_found"
    <3>1. m.note = "Searched; not found."
      <4>1. m.note = GeneratedNote[r]
        BY <1>1, <2>3
      <4>2. m.note = GeneratedNote["searched_not_found"]
        BY <4>1, <2>3
      <4> QED
        BY <4>2 DEF GeneratedNote
    <3> QED
      BY <1>2, <2>3, <3>1 DEF Derived, DeriveRegistrationGapReason, DeriveGapReason,
         SaysUnreachable, SaysWithheld, IsResearcherNote, GENERATED_NOTES, GeneratedNote, Reason
  <2>4. ASSUME IsGap(d), d.note = ""
        PROVE  r \in {"not_searched", "searched_not_found"}
    BY <2>4 DEF Derived, DeriveRegistrationGapReason, DeriveGapReason,
       SaysUnreachable, SaysWithheld, GeneratedNote
  <2> QED
    BY <2>1, <2>2, <2>3, <2>4
<1> HIDE DEF m, r
<1>4. [m EXCEPT !.reason = r] = m
  BY <1>1 DEF Datum
<1>5. WithNote(m) = m
  BY <1>1, <1>2 DEF WithNote
<1> QED
  BY <1>3, <1>4, <1>5 DEF MigrateDatum, m

LEMMA LoadedAfterMigration ==
    ASSUME NEW d \in Datum, NEW p, NEW gaps, d.reason = None
    PROVE  RowOf(MigrateDatum(d, p, gaps), p, gaps) = RowOf(d, p, gaps)
<1> DEFINE m == MigrateDatum(d, p, gaps)
<1>1. /\ m \in Datum /\ m.value = d.value /\ m.reason = Derived(d, p, gaps)
      /\ IsGap(d) => m.note # ""
  BY MigratedDatum
<1>2. IsGap(m) <=> IsGap(d)
  BY <1>1 DEF IsGap
<1>3. CASE IsGap(d)
  <2>1. m.reason \in Reason /\ None \notin Reason
    BY <1>1, <1>3, DerivedReason DEF Reason, None
  <2>2. RowOf(m, p, gaps) = WithNote(m)
    BY <1>1, <2>1, LoadedDatum
  <2>3. WithNote(m) = m
    BY <1>1, <1>3 DEF WithNote
  <2> QED
    BY <1>3, <2>2, <2>3, LoadedDatum
<1>4. CASE ~IsGap(d)
  <2>1. [d EXCEPT !.reason = None] = d
    BY DEF Datum
  <2>2. m = d
    BY <1>4, <2>1, DerivedReason DEF MigrateDatum, WithNote
  <2> QED
    BY <2>2
<1> QED
  BY <1>3, <1>4

(* Migrated or not, a file without recorded reasons is the same to the     *)
(* database, and a second run of the migration changes nothing.            *)
THEOREM MigrationHolds == Spec => MigrationIsInvisible
<1>1. ASSUME TypeOK, AddGapReason, NEW p \in Path
      PROVE  /\ record[p].reason = None =>
                    RowOf(record'[p], p, declared) = RowOf(record[p], p, declared)
             /\ MigrateDatum(record'[p], p, declared) = record'[p]
  <2>1. record'[p] = MigrateDatum(record[p], p, declared) /\ record[p] \in Datum
    BY <1>1 DEF AddGapReason, TypeOK, Record
  <2> QED
    BY <2>1, MigratedTwice, LoadedAfterMigration
<1>2. TypeOK /\ [Next]_vars =>
        [AddGapReason => \A p \in Path :
          /\ record[p].reason = None => RowOf(record'[p], p, declared) = RowOf(record[p], p, declared)
          /\ MigrateDatum(record'[p], p, declared) = record'[p]]_vars
  BY <1>1
<1> QED
  BY <1>2, TypeCorrect, PTL DEF Spec, MigrationIsInvisible
=============================================================================

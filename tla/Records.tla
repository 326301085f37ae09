------------------------------- MODULE Records -------------------------------
(***************************************************************************)
(* The record of one organisation from the researcher's files to the       *)
(* reader: the migrations that rewrite the files (pipeline/migrations),    *)
(* the merged dataset (pipeline/probes/validate_orgs.py), the rows that    *)
(* ingest_orgs derives (pipeline/jobs/orgs.py), the donation link with its *)
(* domain rule (packages/core/core/donation.py), and what the API and the  *)
(* web build make of them.                                                 *)
(*                                                                         *)
(* A datum is a value with a source or a gap with a note and a reason.     *)
(* Notes are classes of texts: blank, one that says the source did not     *)
(* answer, one that says it publishes nothing, any other prose, and the    *)
(* four sentences the code itself writes.  A host is a tuple of labels.    *)
(***************************************************************************)
EXTENDS Naturals, Sequences

CONSTANTS
    Path,      \* the data of the record
    Register,  \* those that are register rows
    Mode,      \* nepal_presence.mode
    Host,      \* the host names that occur, www removed
    Suffix,    \* MULTI_LABEL_SUFFIXES
    MaxEdits   \* bound: edits of the data by hand

None == "none"
NoHost == <<>>
Reason == {"not_searched", "searched_not_found", "source_unreachable", "not_public"}
SEARCHED == Reason \ {"not_searched"}
OrNone(S) == S \cup {None}

GeneratedNote ==
    [not_searched |-> "Not searched in this research pass.",
     searched_not_found |-> "Searched; not found.",
     source_unreachable |-> "Source did not answer.",
     not_public |-> "Source states this is not published."]
GENERATED_NOTES == {GeneratedNote[r] : r \in Reason}
ResearcherNotes == {"blocked", "withheld", "prose"}
Note == {""} \cup ResearcherNotes \cup GENERATED_NOTES

ASSUME ConstantsAssumption ==
    /\ Register \subseteq Path /\ Mode \in Path \ Register
    /\ NoHost \in Host /\ Host \subseteq Seq(STRING)
    /\ MaxEdits \in Nat

VARIABLES
    record,    \* the datum of each path in the files
    declared,  \* data_gaps
    website,   \* the organisation's website
    entry,     \* its entry in donation-channels.json
    searched,  \* history: where a researcher has looked
    edits,
    dataset,   \* orgs-nepal-2026.json: data, data_gaps and website
    rows,      \* org_datum (the current row) and org_registration (all rows)
    db,        \* website and donation channel in the database
    web        \* website and donation link of the web build

files == <<record, declared, website, entry>>
vars == <<files, searched, edits, dataset, rows, db, web>>

Datum == [value : {None, "known", "unknown"}, sourced : BOOLEAN, note : Note, reason : OrNone(Reason)]
NoDatum == [value |-> None, sourced |-> FALSE, note |-> "", reason |-> None]
IsGap(d) == d.value = None
Record == [Path -> Datum]
Dataset == [data : Record, gaps : SUBSET Path, website : Host]
EmptyRecord == [p \in Path |-> NoDatum]
NoEntry == [listed |-> FALSE, url |-> NoHost]

TypeOK ==
    /\ record \in Record /\ dataset \in Dataset
    /\ declared \subseteq Path /\ searched \subseteq Path
    /\ website \in Host
    /\ entry \in [listed : BOOLEAN, url : Host]
    /\ edits \in 0..MaxEdits
    /\ rows \in [Path -> SUBSET Datum]
    /\ db \in [website : Host, channel : Host]
    /\ web \in [website : Host, channel : Host]

Init ==
    /\ record = EmptyRecord /\ declared = {} /\ searched = {}
    /\ website = NoHost /\ entry = NoEntry
    /\ edits = 0
    /\ dataset = [data |-> EmptyRecord, gaps |-> {}, website |-> NoHost]
    /\ rows = [p \in Path |-> {}]
    /\ db = [website |-> NoHost, channel |-> NoHost]
    /\ web = [website |-> NoHost, channel |-> NoHost]
-----------------------------------------------------------------------------
(* The researcher.  Whoever writes a note, a reason other than             *)
(* "not_searched" or a value has looked.                                   *)

EditByHand ==
    /\ edits < MaxEdits /\ edits' = edits + 1
    /\ UNCHANGED <<dataset, rows, db, web>>

WriteValue ==
    /\ EditByHand
    /\ \E p \in Path, sourced \in BOOLEAN :
          \E value \in IF p = Mode THEN {"known", "unknown"} ELSE {"known"},
             note \in {""} \cup ResearcherNotes, reason \in {None, record[p].reason} :
             /\ value = "known" => note = ""
             /\ record' = [record EXCEPT ![p] = [value |-> value, sourced |-> sourced, note |-> note, reason |-> reason]]
             /\ searched' = searched \cup {p}
    /\ UNCHANGED <<declared, website, entry>>

WriteGap ==
    /\ EditByHand
    /\ \E p \in Path, note \in {""} \cup ResearcherNotes, reason \in OrNone(Reason) :
          /\ reason = "not_searched" => note = ""
          /\ record' = [record EXCEPT ![p] = [NoDatum EXCEPT !.note = note, !.reason = reason]]
          /\ searched' = IF note # "" \/ reason \in SEARCHED THEN searched \cup {p} ELSE searched
    /\ UNCHANGED <<declared, website, entry>>

DeclareGap ==
    /\ EditByHand
    /\ \E p \in Path \ Register : declared' = declared \cup {p} /\ searched' = searched \cup {p}
    /\ UNCHANGED <<record, website, entry>>

ResearchChannel ==
    /\ \/ website' \in Host /\ UNCHANGED entry
       \/ \E url \in Host : entry' = [listed |-> TRUE, url |-> url] /\ UNCHANGED website
       \/ entry' = NoEntry /\ UNCHANGED website
    /\ UNCHANGED <<record, declared, searched, edits, dataset, rows, db, web>>
-----------------------------------------------------------------------------
(* The migrations *)

SaysUnreachable(note) == note \in {"blocked", GeneratedNote.source_unreachable}
SaysWithheld(note) == note \in {"withheld", GeneratedNote.not_public}
IsResearcherNote(note) == note # "" /\ note \notin GENERATED_NOTES

DeriveGapReason_ReadsItsOwnNotes(d, p, gaps) ==
    CASE ~IsGap(d) -> None
      [] IsGap(d) /\ SaysUnreachable(d.note) -> "source_unreachable"
      [] IsGap(d) /\ SaysWithheld(d.note) -> "not_public"
      [] IsGap(d) /\ ~SaysUnreachable(d.note) /\ ~SaysWithheld(d.note) ->
            IF d.note # "" \/ p \in gaps THEN "searched_not_found" ELSE "not_searched"

(* The first that holds. *)
DeriveGapReason(d, p, gaps) ==
    IF ~IsGap(d) THEN None
    ELSE IF SaysUnreachable(d.note) THEN "source_unreachable"
    ELSE IF SaysWithheld(d.note) THEN "not_public"
    ELSE IF IsResearcherNote(d.note) \/ p \in gaps THEN "searched_not_found"
    ELSE "not_searched"

(* data_gaps is not asked about a register row. *)
DeriveRegistrationGapReason(d) == DeriveGapReason(d, None, {})

Derived(d, p, gaps) ==
    IF p \in Register THEN DeriveRegistrationGapReason(d) ELSE DeriveGapReason(d, p, gaps)

WithNote(d) == IF IsGap(d) /\ d.note = "" THEN [d EXCEPT !.note = GeneratedNote[d.reason]] ELSE d

MigrateDatum_NoteFirst(d, p, gaps) ==
    LET noted == IF IsGap(d) /\ d.note = "" THEN [d EXCEPT !.note = GeneratedNote.searched_not_found] ELSE d IN
    [noted EXCEPT !.reason = Derived(noted, p, gaps)]

MigrateDatum(d, p, gaps) == WithNote([d EXCEPT !.reason = Derived(d, p, gaps)])

(* A recorded reason is derived again and overwritten. *)
AddGapReason ==
    /\ record' = [p \in Path |-> MigrateDatum(record[p], p, declared)]
    /\ UNCHANGED <<declared, website, entry, searched, edits, dataset, rows, db, web>>

CompleteDataGaps ==
    /\ declared' = declared \cup {p \in Path \ Register : IsGap(record[p]) /\ record[p].reason \in SEARCHED}
    /\ UNCHANGED <<record, website, entry, searched, edits, dataset, rows, db, web>>

(* The note is kept, the reason comes from data_gaps alone. *)
ConvertMode(d, gaps) ==
    WithNote([d EXCEPT !.value = None,
                       !.reason = IF Mode \in gaps THEN "searched_not_found" ELSE "not_searched"])

NullablePresenceMode_LeavesTheReason ==
    /\ record[Mode].value = "unknown" /\ ~record[Mode].sourced
    /\ record' = [record EXCEPT ![Mode].value = None, ![Mode].reason = "unknown"]
    /\ UNCHANGED <<declared, website, entry, searched, edits, dataset, rows, db, web>>

NullablePresenceMode ==
    /\ record[Mode].value = "unknown" /\ ~record[Mode].sourced
    /\ record' = [record EXCEPT ![Mode] = ConvertMode(@, declared)]
    /\ UNCHANGED <<declared, website, entry, searched, edits, dataset, rows, db, web>>
-----------------------------------------------------------------------------
(* The donation link *)

Labels(host, n) == SubSeq(host, Len(host) - n + 1, Len(host))

RegistrableDomain(host) ==
    IF Len(host) < 2 THEN NoHost
    ELSE IF Labels(host, 2) \notin Suffix THEN Labels(host, 2)
    ELSE IF Len(host) < 3 THEN NoHost ELSE Labels(host, 3)

IsOfficialDomain(url, site) ==
    RegistrableDomain(url) # NoHost /\ RegistrableDomain(url) = RegistrableDomain(site)

VetDonationChannel(url, site) == IF IsOfficialDomain(url, site) THEN url ELSE NoHost
-----------------------------------------------------------------------------
(* Readers of the files *)

(* A recorded reason is kept, a missing one derived. *)
DatumRow(d, p, gaps) ==
    WithNote(IF IsGap(d) /\ d.reason = None THEN [d EXCEPT !.reason = DeriveGapReason(d, p, gaps)] ELSE d)

RegistrationRow(d) ==
    WithNote(IF IsGap(d) /\ d.reason = None THEN [d EXCEPT !.reason = DeriveRegistrationGapReason(d)] ELSE d)

RowOf(d, p, gaps) == IF p \in Register THEN RegistrationRow(d) ELSE DatumRow(d, p, gaps)

(* A changed datum supersedes its row, a changed registration is one more. *)
Stored(p, row) == IF p \in Register THEN rows[p] \cup {row} ELSE {row}

MergedChannel == IF entry.listed THEN VetDonationChannel(entry.url, website) ELSE db.channel

(* One value without a source fails the job, and so does one that still has *)
(* its gap_reason (ck_org_datum_provenance): nothing is written.  A record  *)
(* without an entry keeps the channel row it had.                           *)
IngestOrgs ==
    /\ \A p \in Path \ Register : ~IsGap(record[p]) => record[p].sourced /\ record[p].reason = None
    /\ rows' = [p \in Path |-> Stored(p, RowOf(record[p], p, declared))]
    /\ db' = [website |-> website, channel |-> MergedChannel]
    /\ UNCHANGED <<files, searched, edits, dataset, web>>

(* Written only if the schema finds no error.  It finds none in a record of   *)
(* this model: of sources, notes and reasons it asks for none, and "unknown"  *)
(* is a presence mode.                                                        *)
ValidateOrgs ==
    /\ dataset' = [data |-> record, gaps |-> declared, website |-> website]
    /\ UNCHANGED <<files, searched, edits, rows, db, web>>

(* Built from the files, the page refuses a gap without a reason; built from  *)
(* the API, it has the stored website.  The donation file is read as it is,   *)
(* both times.                                                                *)
BuildWeb ==
    /\ \/ /\ \A p \in Path : IsGap(dataset.data[p]) => dataset.data[p].reason # None
          /\ web' = [website |-> dataset.website, channel |-> entry.url]
       \/ web' = [website |-> db.website, channel |-> entry.url]
    /\ UNCHANGED <<files, searched, edits, dataset, rows, db>>

(* The API: an organisation with every current row. *)
SerialiseDatum(row) == [datum |-> row, is_gap |-> IsGap(row)]

Detail ==
    LET data == [p \in Path |-> {SerialiseDatum(row) : row \in rows[p]}] IN
    [data |-> data,
     data_gaps |-> {p \in Path \ Register : \E d \in data[p] : d.is_gap}]

Research == WriteValue \/ WriteGap \/ DeclareGap \/ ResearchChannel
Migrate == AddGapReason \/ CompleteDataGaps \/ NullablePresenceMode
Next == Research \/ Migrate \/ IngestOrgs \/ ValidateOrgs \/ BuildWeb

Spec == Init /\ [][Next]_vars
-----------------------------------------------------------------------------
(* Properties *)

Truthful(d, p) == IsGap(d) /\ d.reason \in SEARCHED => p \in searched

(* Nobody claims a search that did not take place, in whatever order edits, *)
(* migrations, ingests, validations and builds run.  A gap that the files,   *)
(* the dataset or the API explains by a search, and a path that data_gaps of *)
(* the files or the dataset names, are ones where somebody looked (of that   *)
(* list complete_data_gaps.py:18-20 says that a path nobody searched "would  *)
(* make the list claim more than the research does").  The API's list of the *)
(* same name is another: it has every empty path, so that one nobody looked  *)
(* at may be in it, but only with "not_searched" beside it in the data.      *)
(* What is served has "note: present whenever value is null" and             *)
(* "gap_reason: present exactly when value is null" (schemas.py:62-64).      *)
GapsAreTrue ==
    /\ declared \subseteq searched /\ dataset.gaps \subseteq searched
    /\ \A p \in Path :
       /\ Truthful(record[p], p) /\ Truthful(dataset.data[p], p)
       /\ \A served \in Detail.data[p] :
             /\ Truthful(served.datum, p)
             /\ served.is_gap => served.datum.note # "" /\ served.datum.reason # None
             /\ served.datum.reason # None => served.is_gap \/ p \in Register
    /\ \A p \in Detail.data_gaps \ searched :
          \E served \in Detail.data[p] : served.is_gap /\ served.datum.reason = "not_searched"

(* Whether the files are migrated makes no difference to the database: a    *)
(* gap without a recorded reason gives the same row before and after        *)
(* add_gap_reason, which derives and fills apart from the loader; and "a    *)
(* second run over already-migrated files changes nothing"                  *)
(* (pipeline/migrations/add_gap_reason.py:4).                               *)
MigrationIsInvisible ==
    [][AddGapReason => \A p \in Path :
          /\ record[p].reason = None => RowOf(record'[p], p, declared) = RowOf(record[p], p, declared)
          /\ MigrateDatum(record'[p], p, declared) = record'[p]]_vars

(* "It is not stored and not shown" (pipeline/jobs/orgs.py:98-103), of a    *)
(* donation page on another domain; shown, with the website of the build.   *)
ShownChannelIsOfficial ==
    web.channel # NoHost => IsOfficialDomain(web.channel, web.website)
=============================================================================

----------------------------- MODULE Resolution ------------------------------
(***************************************************************************)
(* How a statement gets its organisation and its districts, and how the    *)
(* board learns of it: the alias tables that ingest_orgs and               *)
(* seed_reference load from the deployed files, match_orgs and             *)
(* resolve_districts (pipeline/jobs), the revalidation hint                *)
(* (pipeline/revalidate.py, apps/web/app/api/revalidate/route.ts) and the  *)
(* cached board page (apps/web/lib/api.ts).                                *)
(*                                                                         *)
(* Both jobs read several tables one after the other, compute, and write   *)
(* once; each SELECT is a step, since another run, an ingest or a seed may *)
(* commit in between.  Names and places are texts; alias_norm maps a text  *)
(* to its key.  statement_district is a function of statement and          *)
(* district, "none" where there is no row.                                 *)
(***************************************************************************)
EXTENDS Naturals, Sequences

CONSTANTS
    Text,         \* spellings of names and places
    Norm,         \* alias_norm
    Blank,        \* the empty key: a name of punctuation only
    Org, District, Report,
    Statement,    \* rows of response_statement, present and future
    ReportOf, NameOf, PlacesOf,  \* report_id, org_name_raw, where_raw
    Rejected,     \* statements of status rejected_unverbatim
    RecordOf,     \* hand-researched statement -> organisation of its record
    Files,        \* the organisation files of successive deploys
    Gazetteers,   \* the district tables that come with them
    Ticks,        \* processes that run match_orgs, then resolve_districts
    Requests,     \* processes that run one of them
    MaxFaults     \* bound: kills and refused transactions in a behaviour

None == "none"
Key == {Norm[t] : t \in Text}
HandResearched == DOMAIN RecordOf
Process == Ticks \cup Requests

ASSUME ConstantsAssumption ==
    /\ Norm \in [Text -> Text]
    /\ \A t \in Text : Norm[Norm[t]] = Norm[t]
    /\ ReportOf \in [Statement -> Report]
    /\ NameOf \in [Statement -> Text]
    /\ PlacesOf \in [Statement -> SUBSET Text]
    /\ HandResearched \subseteq Statement
    /\ RecordOf \in [HandResearched -> Org]
    /\ Rejected \subseteq Statement \ HandResearched
    /\ Files \in Seq(Seq(Text \X Org)) /\ Files # <<>>
    /\ Gazetteers \in [DOMAIN Files -> Seq(Text \X District)]
    /\ Ticks \cap Requests = {}
    /\ None \notin Org \cup District
    /\ MaxFaults \in Nat

VARIABLES
    release,     \* the deploy that is up
    orgAlias,    \* org_alias: key -> org_id
    placeAlias,  \* district_alias: key -> district_code
    stored,      \* the statements in the table
    orgOf,       \* column org_id
    where,       \* table statement_district
    at,          \* where each process is
    names,       \* match_orgs' copy of org_alias
    updates,     \* the organisations it is going to set
    places,      \* resolve_districts' copy of district_alias
    settled,     \* the statements it saw with a stated row
    rows,        \* the rows it is going to upsert
    behind,      \* what changed since the cached page was rendered
    stale,       \* the page is rendered again on the next visit
    missed,      \* a hint was lost since the page was rendered
    faults

tables == <<orgAlias, placeAlias, stored, orgOf, where>>
locals == <<names, updates, places, settled, rows>>
web == <<behind, stale, missed>>
vars == <<tables, at, locals, web, release, faults>>

Cell == Statement \X District
Resolution == {None, "stated", "inherited_from_report"}
OrNone(S) == S \cup {None}
NoRows == [c \in Cell |-> None]
NoOrgs == [s \in Statement |-> None]
NoAliases == [k \in Key |-> None]

(* "names" to "updates": in match_orgs.  "matched": a tick between its two  *)
(* jobs.  "places" to "rows": in resolve_districts.  "hint": committed.     *)
Location == {"off", "names", "updates", "matched", "places", "existing", "rows", "hint"}

TypeOK ==
    /\ release \in DOMAIN Files
    /\ orgAlias \in [Key -> OrNone(Org)]
    /\ placeAlias \in [Key -> OrNone(District)]
    /\ stored \subseteq Statement
    /\ orgOf \in [Statement -> OrNone(Org)]
    /\ where \in [Cell -> Resolution]
    /\ at \in [Process -> Location]
    /\ names \in [Process -> [Key -> OrNone(Org)]]
    /\ updates \in [Process -> [Statement -> OrNone(Org)]]
    /\ places \in [Process -> [Key -> OrNone(District)]]
    /\ settled \in [Process -> SUBSET Statement]
    /\ rows \in [Process -> [Cell -> Resolution]]
    /\ behind \subseteq {"orgs", "districts"}
    /\ stale \in BOOLEAN /\ missed \in BOOLEAN
    /\ faults \in Nat

Init ==
    /\ release = 1
    /\ orgAlias = NoAliases /\ placeAlias = NoAliases
    /\ stored = {} /\ orgOf = NoOrgs /\ where = NoRows
    /\ at = [p \in Process |-> "off"]
    /\ names = [p \in Process |-> NoAliases]
    /\ updates = [p \in Process |-> NoOrgs]
    /\ places = [p \in Process |-> NoAliases]
    /\ settled = [p \in Process |-> {}]
    /\ rows = [p \in Process |-> NoRows]
    /\ behind = {}
    /\ stale = FALSE /\ missed = FALSE
    /\ faults = 0
-----------------------------------------------------------------------------
(* Deploys and the two loaders *)

(* The target of the first entry of a list of <<text, target>> whose text  *)
(* has the key; a blank key is never entered.                              *)
FirstClaim(entries, k) ==
    LET hits == {i \in DOMAIN entries : Norm[entries[i][1]] = k}
        First(i) == i \in hits /\ \A j \in hits : i <= j
    IN  IF k # Blank /\ \E i \in DOMAIN entries : First(i)
        THEN entries[CHOOSE i \in DOMAIN entries : First(i)][2] ELSE None

Deploy ==
    /\ release < Len(Files) /\ release' = release + 1
    /\ UNCHANGED <<tables, at, locals, web, faults>>

(* seed_reference: an alias of the table is inserted or moved, none is     *)
(* removed.                                                                *)
SeedReference ==
    /\ placeAlias' = [k \in Key |->
          IF FirstClaim(Gazetteers[release], k) # None
          THEN FirstClaim(Gazetteers[release], k) ELSE placeAlias[k]]
    /\ UNCHANGED <<orgAlias, stored, orgOf, where, at, locals, web, release, faults>>

ClaimAliases_LastClaimWins(k) ==
    IF FirstClaim(Files[release], k) # None THEN FirstClaim(Files[release], k) ELSE orgAlias[k]

(* _partition_aliases and the insert: a key that has an owner keeps it.    *)
ClaimAliases(k) ==
    IF orgAlias[k] = None THEN FirstClaim(Files[release], k) ELSE orgAlias[k]

OrgsChange == behind' = IF orgOf' # orgOf THEN behind \cup {"orgs"} ELSE behind

(* ingest_orgs, as far as names go.  A hand-researched statement arrives   *)
(* with the organisation of its record.                                    *)
IngestOrgs ==
    /\ orgAlias' = [k \in Key |-> ClaimAliases(k)]
    /\ stored' = stored \cup HandResearched
    /\ orgOf' = [s \in Statement |->
          IF s \in HandResearched \ stored THEN RecordOf[s] ELSE orgOf[s]]
    /\ OrgsChange
    /\ UNCHANGED <<placeAlias, where, at, locals, stale, missed, release, faults>>

(* extract_statements inserts what it found in a report, all at once and   *)
(* without organisations.                                                  *)
StoreStatements(r) ==
    LET found == {s \in Statement \ HandResearched : ReportOf[s] = r} IN
    /\ ~(found \subseteq stored)
    /\ stored' = stored \cup found
    /\ UNCHANGED <<orgAlias, placeAlias, orgOf, where, at, locals, web, release, faults>>
-----------------------------------------------------------------------------
(* match_orgs *)

Candidates == stored \ Rejected

Goto(p, loc) == at' = [at EXCEPT ![p] = loc]

ReadOrgAliases(p) ==
    /\ at[p] = "off"
    /\ Goto(p, "names")
    /\ names' = [names EXCEPT ![p] = orgAlias]
    /\ UNCHANGED <<tables, updates, places, settled, rows, web, release, faults>>

(* Only a name that is known sets an organisation: nothing is cleared.     *)
PlanUpdates(p) ==
    /\ at[p] = "names"
    /\ Goto(p, "updates")
    /\ updates' = [updates EXCEPT ![p] = [s \in Statement |->
          IF s \in Candidates THEN names[p][Norm[NameOf[s]]] ELSE None]]
    /\ names' = [names EXCEPT ![p] = NoAliases]
    /\ UNCHANGED <<tables, places, settled, rows, web, release, faults>>

AfterMatch(p) == IF p \in Ticks THEN "matched" ELSE "off"

CommitUpdates(p) ==
    /\ at[p] = "updates"
    /\ orgOf' = [s \in Statement |->
          IF updates[p][s] # None THEN updates[p][s] ELSE orgOf[s]]
    /\ OrgsChange
    /\ Goto(p, AfterMatch(p))
    /\ updates' = [updates EXCEPT ![p] = NoOrgs]
    /\ UNCHANGED <<orgAlias, placeAlias, stored, where, names, places, settled, rows,
                   stale, missed, release, faults>>
-----------------------------------------------------------------------------
(* resolve_districts *)

ReadPlaceAliases(p) ==
    /\ at[p] = "matched" \/ (p \in Requests /\ at[p] = "off")
    /\ Goto(p, "places")
    /\ places' = [places EXCEPT ![p] = placeAlias]
    /\ UNCHANGED <<tables, names, updates, settled, rows, web, release, faults>>

ReadExisting(p) ==
    /\ at[p] = "places"
    /\ Goto(p, "existing")
    /\ settled' = [settled EXCEPT ![p] =
          {s \in Statement : \E d \in District : where[<<s, d>>] = "stated"}]
    /\ UNCHANGED <<tables, names, updates, places, rows, web, release, faults>>

(* The districts a statement's own places resolve to.                      *)
Codes(p, s) == {places[p][Norm[t]] : t \in PlacesOf[s]} \ {None}

(* What the statements of the same report state between them.              *)
Pool(p, s) ==
    UNION {Codes(p, t) : t \in {u \in Candidates : ReportOf[u] = ReportOf[s]}}

RowFor_SkipsResolved(p, s, d) ==
    IF s \in Candidates /\ d \in Codes(p, s) /\ \A e \in District : where[<<s, e>>] = None
    THEN "stated"
    ELSE IF s \in Candidates /\ Codes(p, s) = {} /\ s \notin settled[p] /\ d \in Pool(p, s)
    THEN "inherited_from_report"
    ELSE None

RowFor_PoolFirst(p, s, d) ==
    IF s \in Candidates /\ s \notin settled[p] /\ d \in Pool(p, s)
    THEN "inherited_from_report"
    ELSE IF s \in Candidates /\ d \in Codes(p, s) THEN "stated"
    ELSE None

RowFor_Misspelt(p, s, d) ==
    IF s \in Candidates /\ d \in Codes(p, s) THEN "stated"
    ELSE IF s \in Candidates /\ Codes(p, s) = {} /\ s \notin settled[p] /\ d \in Pool(p, s)
    THEN "inherited"
    ELSE None

(* Stated where its own places say so; inherited where they say nothing    *)
(* and no earlier run found it stated.                                     *)
RowFor(p, s, d) ==
    IF s \in Candidates /\ d \in Codes(p, s) THEN "stated"
    ELSE IF s \in Candidates /\ Codes(p, s) = {} /\ s \notin settled[p] /\ d \in Pool(p, s)
    THEN "inherited_from_report"
    ELSE None

PlanRows(p) ==
    /\ at[p] = "existing"
    /\ Goto(p, "rows")
    /\ rows' = [rows EXCEPT ![p] = [c \in Cell |-> RowFor(p, c[1], c[2])]]
    /\ places' = [places EXCEPT ![p] = NoAliases]
    /\ settled' = [settled EXCEPT ![p] = {}]
    /\ UNCHANGED <<tables, names, updates, web, release, faults>>

Merged(p) == [c \in Cell |-> IF rows[p][c] # None THEN rows[p][c] ELSE where[c]]

Written_InsertsOnly(p) == \E c \in Cell : where[c] = None /\ Merged(p)[c] # None

(* The upsert returned a row: something was inserted or changed.           *)
Written(p) == Merged(p) # where

CommitRows(p) ==
    /\ at[p] = "rows"
    /\ where' = Merged(p)
    /\ rows' = [rows EXCEPT ![p] = NoRows]
    /\ Goto(p, IF Written(p) THEN "hint" ELSE "off")
    /\ behind' = IF where' # where THEN behind \cup {"districts"} ELSE behind
    /\ UNCHANGED <<orgAlias, placeAlias, stored, orgOf, names, updates, places, settled,
                   stale, missed, release, faults>>

(* The hint reached the web app, which marks the page.                     *)
SendHint(p) ==
    /\ at[p] = "hint"
    /\ Goto(p, "off")
    /\ stale' = TRUE
    /\ UNCHANGED <<tables, locals, behind, missed, release, faults>>
-----------------------------------------------------------------------------
(* The cached page *)

Render_NoLifetime ==
    /\ stale
    /\ behind' = {} /\ stale' = FALSE /\ missed' = FALSE
    /\ UNCHANGED <<tables, at, locals, release, faults>>

(* A visit renders the page from the tables when it was marked or its      *)
(* lifetime, cacheLife("hours"), is over: at any time, as time is left out. *)
Render ==
    /\ behind' = {} /\ stale' = FALSE /\ missed' = FALSE
    /\ UNCHANGED <<tables, at, locals, release, faults>>
-----------------------------------------------------------------------------
(* Faults *)

Fault == faults < MaxFaults /\ faults' = faults + 1

(* The web app is not configured, slow, down or answers 401, or the query  *)
(* for the active disasters fails: the rows stay, the hint is not sent.    *)
(* Nothing bounds how often.                                               *)
HintLost(p) ==
    /\ at[p] = "hint"
    /\ Goto(p, "off")
    /\ missed' = ("districts" \in behind)
    /\ UNCHANGED <<tables, locals, behind, stale, release, faults>>

Forget(p) ==
    /\ names' = [names EXCEPT ![p] = NoAliases]
    /\ updates' = [updates EXCEPT ![p] = NoOrgs]
    /\ places' = [places EXCEPT ![p] = NoAliases]
    /\ settled' = [settled EXCEPT ![p] = {}]
    /\ rows' = [rows EXCEPT ![p] = NoRows]

(* A kill before the commit, or a transaction the database refuses: what   *)
(* the job read and computed is gone; a tick goes on after a failed job.   *)
Fails(p) ==
    /\ Fault
    /\ at[p] \in {"names", "updates", "places", "existing", "rows"}
    /\ \/ Goto(p, "off")
       \/ p \in Ticks /\ at[p] \in {"names", "updates"} /\ Goto(p, "matched")
    /\ Forget(p)
    /\ UNCHANGED <<tables, web, release>>
-----------------------------------------------------------------------------
Step(p) ==
    \/ PlanUpdates(p)
    \/ CommitUpdates(p)
    \/ at[p] = "matched" /\ ReadPlaceAliases(p)
    \/ ReadExisting(p)
    \/ PlanRows(p)
    \/ CommitRows(p)
    \/ SendHint(p) \/ HintLost(p)

Start(p) ==
    \/ ReadOrgAliases(p)
    \/ at[p] = "off" /\ ReadPlaceAliases(p)

Next ==
    \/ Deploy \/ SeedReference \/ IngestOrgs
    \/ \E r \in Report : StoreStatements(r)
    \/ \E p \in Process : Start(p) \/ Step(p) \/ Fails(p)
    \/ Render

Spec == Init /\ [][Next]_vars

(* The schedule starts ticks, a process that runs goes on, the lifetime of *)
(* the page ends, and the board has readers.  Nobody has to deploy, seed,  *)
(* ingest or request a run, and no fault has to happen.                    *)
FairSpec ==
    /\ Spec
    /\ \A p \in Process : WF_vars(Step(p))
    /\ \A p \in Ticks : WF_vars(Start(p))
    /\ WF_vars(Render)
-----------------------------------------------------------------------------
(* Safety *)

(* "The report was about this district" needs a statement of the report    *)
(* that says so: every inherited district is a stated one of a sibling     *)
(* statement, whichever runs overlap and whichever aliases move.           *)
InheritedHasSource ==
    \A s \in Statement, d \in District :
        where[<<s, d>>] = "inherited_from_report" =>
            \E t \in Statement : ReportOf[t] = ReportOf[s] /\ where[<<t, d>>] = "stated"

(* The rows a run is about to write have their sources among themselves.   *)
RowsHaveSource ==
    \A p \in Process, s \in Statement, d \in District :
        rows[p][<<s, d>>] = "inherited_from_report" =>
            \E t \in Statement : ReportOf[t] = ReportOf[s] /\ rows[p][<<t, d>>] = "stated"

(* The hint is sent after the commit ("never before"): unless one was      *)
(* lost, or is about to be sent, a page nobody marked shows the districts  *)
(* the table holds.                                                        *)
FreshPageShowsDistricts ==
    ~stale /\ ~missed /\ (\A p \in Process : at[p] # "hint")
        => "districts" \notin behind

(* The organisation of an extracted statement is final once it is set,     *)
(* whatever later files claim its name: an alias has one owner for good.   *)
AttributionIsFinal ==
    [][\A s \in Statement \ HandResearched :
          orgOf[s] # None => orgOf'[s] = orgOf[s]]_vars

-----------------------------------------------------------------------------
(* Liveness *)

(* What is known gets resolved: a stored statement whose name or place has *)
(* an alias gets its organisation and its stated district, even where an   *)
(* earlier run had it inherit the district or an overlapping run with      *)
(* older aliases has just taken it back to inherited.                      *)
AliasOf(s) == orgAlias[Norm[NameOf[s]]]
CodesOf(s) == {placeAlias[Norm[t]] : t \in PlacesOf[s]} \ {None}

EventuallyResolved ==
    \A s \in Statement \ Rejected :
        /\ s \in stored /\ AliasOf(s) # None ~> orgOf[s] = AliasOf(s)
        /\ s \in stored /\ CodesOf(s) # {} ~>
              \A d \in CodesOf(s) : where[<<s, d>>] = "stated"

(* The board catches up with the tables although any number of hints is    *)
(* lost and match_orgs sends none: the lifetime of the page sees to it.    *)
BoardCatchesUp == behind # {} ~> behind = {}
-----------------------------------------------------------------------------
(* What comments of the code say, and what the code does not do *)

(* "every hand-researched entry is already attributed to the organisation  *)
(* whose record it lives in" (_response_statement_row): no later step      *)
(* gives it to another.                                                    *)
HandResearchStaysAttributed ==
    [][\A s \in HandResearched : orgOf[s] # None => orgOf'[s] = orgOf[s]]_vars
=============================================================================

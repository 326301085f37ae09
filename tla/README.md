# Spenden-Transparenz in TLA+

Spenden-Transparenz collects what relief organisations say they do in a
disaster, with a source for every value. A pipeline of Python jobs reads
ReliefWeb and hand-researched files into Postgres; a read-only FastAPI service
serves the database; a Next.js web app renders it and caches the pages. This
directory models the parts whose correctness depends on order, overlap and
failure: which process works on which run, what happens to a report between
the listing and the published statement, how a statement gets its organisation
and districts and how the cached board learns of it, how the research files
become the history of an organisation, and what a reader gets to see of it.

Paths below are relative to the repository root.

## Inventory

| Component | State it keeps | Operations | Interacts with |
|---|---|---|---|
| Run queue and ledger (`pipeline/queue.py`, `runs.py`, `cli.py`, `apps/api/app/routers/admin.py`) | table `ingestion_run`; a row lock during a claim; a counter per drain | request a run, claim the oldest, drain, open, adopt and close a run, tick | every job runs inside a run; the API inserts, the cron process claims |
| Freshness (`apps/api/app/routers/meta.py`) | none | latest succeeded run per job | reads the ledger; the web shows the age of the data |
| Listing, fetching (`pipeline/jobs/reliefweb.py`, `pipeline/probes/`) | `report.body_text`, `body_sha256`, `extraction_attempts`; a pacing clock per run | upsert the listing, fetch up to 25 missing bodies | writes what extraction reads; shares the attempt counter with it |
| Extraction (`pipeline/jobs/extract.py`, `pipeline/extract/`) | `response_statement`; attempts; cost of the run | select, count, call the model, gate, upsert | reads bodies, leaves `org_id` to matching |
| Matching (`pipeline/jobs/match.py`) | `response_statement.org_id` | read aliases, plan, commit | aliases written by the ingest of organisations |
| Districts (`pipeline/jobs/districts.py`) | `statement_district` | read aliases and stated rows, plan, upsert | sends the hint after its commit |
| Organisations (`pipeline/jobs/orgs.py`) | `org_datum` history, registrations, warnings, aliases, hand-researched statements | ingest of the research files | adds report rows that must not be fetched |
| Reference data (`pipeline/jobs/seed_reference.py`) | districts and their aliases | seed | districts resolution reads it |
| Revalidation (`pipeline/revalidate.py`, `apps/web/app/api/revalidate/route.ts`) | the web's page cache | best-effort hint per tag | after a commit, pipeline to web |
| Read API (`apps/api/app/`) | none of its own; one request runs several SELECTs | board, statements, details, history | reads everything while the pipeline commits |
| Web (`apps/web/`) | React filter state, query string, page cache | filter, facets, links, gaps, donation links | one API answer per page; the dataset and the donation file at build time |
| Research files and migrations (`data/orgs`, `pipeline/migrations/`, `pipeline/probes/validate_orgs.py`) | JSON files, the merged dataset | edit, migrate, merge | read by the ingest and by the web build |
| Schema migrations, probes, `scripts/` | none in the running system | one-shot | none |

What is hard here: cron ticks may overlap each other, a manual drain and a
manual run (`pipeline/queue.py:9-11`, `40-42`); every job reads first, works
for minutes over the network and writes later; a process can be killed or a
transaction refused between any two commits; the fetch holds everything in one
transaction while the extraction commits per report; two jobs count on the same
column; a queued run carries the time of its request; a request of the API
reads several snapshots; a hint may be lost after the commit it announces; the
same gap is explained by three programs that read each other's notes. The
hazards are listed one by one, with their lines, in `PROJECT.json`.

What makes each component correct:

- queue and ledger: a request is executed at most once, in order, and
  eventually; a row says what happened to its job; closed rows are history;
- freshness: what is reported of a job falls only when a run is recorded that
  another one passed between its clock and its commit (it is not always the
  latest success);
- fetching and extraction, however runs of either overlap: a published quote is
  in a text that its report has held, and so is its amount; a claim is one row
  unless its report was rewritten; no call of the model is unaccounted, a report
  costs a bounded number of calls, a run overshoots its cost cap by less than a
  call, every report is eventually fetched and read out or given up;
- matching and districts: an attribution is final, an inherited district has a
  source, what is known gets resolved however runs overlap;
- revalidation: a page nobody marked is behind only if a hint was lost, and
  every page catches up;
- organisations: one current value per path and a complete history; a change of
  a value is stored; re-ingesting the same file writes nothing;
- board: nobody is listed twice or left out, over queries and over pages; a
  count is what a reader gets; the address says the view;
- records: nobody claims a search that did not take place, whatever order the
  migrations run in, and a gap is served with its note and reason; a donation
  link that is shown is on the organisation's domain (it is not, see the runs).

## Modules

| Module | Models | Instances | Theorems |
|---|---|---|---|
| `RunLedger` | the abstract ledger: a row is requested or opened, taken, started once, closed | | |
| `RunQueue` | queue, ticks, drains, runs, faults; implements `RunLedger` | `MCRunQueue` | `RunQueue_proofs` |
| `Evidence` | what a reader of statements is promised: a report holds one text after another, answers are stored whole with the verdicts of one of them | | |
| `ReportPipeline` | fetching and extracting, with overlapping runs; implements `Evidence` | `MCReportPipeline` | `ReportPipeline_proofs` |
| `DatumHistory` | the abstract history: rows and statements appear at once and never change | | |
| `OrgIngest` | datum history and hand-researched statements under overlapping ingests and single writes; implements `DatumHistory` | `MCOrgIngest` | `OrgIngest_proofs` |
| `Resolution` | aliases, matching, districts, the hint and the cached page | `MCResolution` | `Resolution_proofs` |
| `Board` | the lists of the API, query by query, and the reader's page | `MCBoard` | `Board_proofs`, `BoardLists_proofs` |
| `Records` | one organisation from the research files to the API and the web build | `MCRecords` | `Records_proofs` |

The specifications share no variable; they meet in the database, and each takes
what the others do to its tables as its own actions: a job of `RunQueue` is a
black box that ends, `ReportPipeline` and `Resolution` are what four of these
jobs do; the reports that `OrgIngest` writes are `Research` in
`ReportPipeline`; the statements `ReportPipeline` stores are `StoreStatements`
in `Resolution`; both are the commits of `Board`; the gaps `Records` derives
are values of `OrgIngest`.

A definition named `X_...` directly before `X` is a slip the code could have
made in `X`. `PROJECT.json` pairs each with a property, and TLC finds that
property violated when the slip replaces `X`; no specification uses them.

### RunQueue

A process is a cron tick (drain, then the scheduled jobs) or an operator's
`drain` or `run`. `pc` is its place in `drain_queue`, `adopt_run` and `tick`;
`cur` is the row it holds.

| Action | Code |
|---|---|
| `TriggerIngest` | `trigger_ingest`, insert and commit |
| `ClaimNext`, `CommitClaim` | `claim_next_queued_run`: select for update skip locked, update; then the commit |
| `StopDraining` | the loop of `drain_queue` ends: nothing to claim or `max_runs` reached |
| `RejectUnregistered` | the `LookupError` raised inside `adopt_run` |
| `AdoptRun`, `OpenRun` | `adopt_run`, `run_context` up to the job |
| `JobEnds` | the job returns or raises |
| `ReadClock`, `CloseRun` | the `finally` block: `finished_at` is read from the clock; then the UPDATE and its commit |
| `StartTick`, `StartDrain`, `StartRun`, `Exit` | `pipeline/cli.py` |
| `Kill`, `ClaimRefused`, `OpenRefused`, `CloseRefused` | a killed process; a database call that raises, and where the exception ends up |

Every transaction is one step except the claim, whose row lock is visible to
others between its two steps, and the close, which commits a time read before
(`stamp`): of two overlapping runs the one that read first may commit last.
`passed` is history: the rows that others closed meanwhile. The endpoint's flush
and commit are one step, nobody can see between them. `started_at` is set by
the database and `finished_at` by the pipeline: two clocks (`inserts`,
`clock`). Assumed: the pipeline's processes read one clock; hosts whose clocks
differ would add reasons for freshness to go back. A claim does not renew
`started_at`, as in the code. `drain --max N` uses the same
bound as a tick. When the identities in `RunId` are used up an insert fails:
the horizon of the model, `OpenRefused` without a fault.

### ReportPipeline

A fetcher or an extractor is a place at which a run of that job may be under
way, used again and again; two of them are two overlapping runs.

| Action | Code |
|---|---|
| `Listing`, `Research` | rows from `ingest_reliefweb_listing`, from `ingest_orgs` |
| `SelectUnfetched`, `FetchOne`, `CommitFetch` | `fetch_report_bodies`: the select, one turn of the loop, the single commit with values computed from what was read |
| `FetchRaises`, `FetcherKilled` | an exception of `fetch_fn`; a kill: nothing is committed |
| `SelectCandidates` | `_select_candidate_reports`, with the bodies as read |
| `CountAttempt` | the relative UPDATE and its commit, before the call |
| `ModelAnswers` | `client.extract` and `handle.spend` |
| `StoreStatements`, `WriteRefused` | gate, `_upsert_statements` and commit; the `SQLAlchemyError` branch |
| `ExtractEnds`, `CallRaises`, `ExtractorKilled` | out of candidates or over the cap; an exception; a kill |
| `MatchOrgs`, `Deploy` | `match_orgs`; another `PROMPT_VERSION` |

Data is abstracted to what the properties tell apart: a text, a claim with the
set of texts that contain its quote, a price. `Unsupported` are the claims whose
quote does not contain their amount, `Gated` what the gate makes of them: the
same claim without the amount, whose hash is another. Two claims of an answer
that the gate makes equal are one row twice in one upsert, which Postgres
refuses (`Clash`). A claim is one that `_build_row`
turns into a row; what it drops leaves an empty or smaller answer. The branch
for an unchanged body hash is unreachable (hash and body are written together)
and left out. `last_extraction_error` is written but read nowhere, and left
out.

Two overlapping fetches may both take up a report without a body; the second
to commit replaces the text of the first and writes the attempts it had read
plus one. So a body can change under an extraction and after statements were
taken from it, and the counter can fall. Two history variables say what became
of a report: `held`, the texts its body has held, and `undone`, the attempts
that fetches took off its counter. The properties speak of these: a verdict is
that of a text the report has held, a call is on the counter or was taken off
it.

`Evidence` is what is left of this for whoever checks a published statement
against its source: a report holds one text after another (`Arrive`), the
claims of an answer are stored at once with the verdicts of one text the report
has held (`Publish`), an organisation is found and kept (`Attribute`).
Attempts, overlapping runs, kills, refused batches and deploys do not appear in
it; a step of the pipeline maps to one of these three or to a stutter.

### OrgIngest

An ingest is a place at which `ingest_orgs` may run, by hand after a deploy; a
writer one at which `upsert_datum` may be called. `hist[path]` are the rows of
`org_datum` of one organisation and path, `open[path]` those with
`superseded_at` null. What a transaction has done and not committed is in
`closing` and `adding`, which stand for its row locks and index entries too.

| Action | Code |
|---|---|
| `Deploy`, `LoadFile` | new research files; `ingest_orgs` up to its session |
| `Begin` | the upsert of `organisation`, then the select of current hashes |
| `CallWriter` | `upsert_datum` up to the same select |
| `StartSupersede`, `Supersede` | `to_write`, `to_supersede`, the UPDATE: the rows it finds, then those it gets after waiting |
| `InsertData`, `DataRefused` | the INSERT, which waits for `uq_org_datum_current` and may fail |
| `StatementsRefused`, `Commit` | the INSERT of statements, refused by `uq_response_statement_hand_research` or followed by the commit |
| `Kill` | the process or its connection dies: rollback |

Postgres runs at READ COMMITTED. `INSERT ... ON CONFLICT DO UPDATE` locks every
row it meets, the ones its WHERE leaves as they are included, so an ingest keeps
other ingests out from its first statement to its end (files that share no
organisation would not; the files are one growing list). It does not keep out
`upsert_datum`, whose foreign key takes a weaker lock. The two hash different
columns: an ingest nine of a datum (`ContentHash`), `upsert_datum` seven
(`WriterHash`), so that a hash of one is never one of the other (`HashOf`) and
whichever comes second finds the value changed. The statement rows are
part of `Commit`, because nobody but an ingest writes them, and the report they
belong to is part of the entry. `upsert_datum` has no caller in production code
yet; it is modelled because its docstring offers it for writes beside a run.
An UPDATE takes its rows all at once in the model and one by one in Postgres.
Registrations are in `Records`, aliases in `Resolution`; warnings, inserted or
ignored in the same transaction, are left out.

`DatumHistory` is what remains of all this for a reader: paths that get rows,
the last of which is current, and statements that get a class. Its only step
adds the rows of one file or call together; an ingest's row is news against an
ingest's. `History` maps `hist`, `open` and `stated` to it; every action but
`Commit` is a stutter.

### Resolution

A tick runs `match_orgs`, then `resolve_districts`; a requested process one of
them. `at` is its place, `names` to `rows` are what it has read or computed.
`behind` says what changed in the tables since the page was rendered.

| Action | Code |
|---|---|
| `Deploy`, `SeedReference`, `IngestOrgs` | another release; `seed_reference`; `_partition_aliases`, the alias insert and the hand-researched statements of `ingest_orgs` |
| `StoreStatements` | the statements of one report, as `extract_statements` inserts them |
| `ReadOrgAliases`, `PlanUpdates`, `CommitUpdates` | `match_orgs`: the two selects, then the updates and the commit |
| `ReadPlaceAliases`, `ReadExisting`, `PlanRows`, `CommitRows` | `resolve_districts`: aliases, stated rows, statements and pool, then upsert and commit |
| `SendHint`, `HintLost` | `revalidate` after the commit; not configured, down, refused, or the query for its tags fails |
| `Render` | a visit renders the page again, when it was marked or its `cacheLife` is over |
| `Fails` | a kill or a refused transaction; a tick goes on to its second job after an exception in the first |

A spelling is a text, `Norm` the function `alias_norm`, its idempotence the
only thing assumed of it. Time is left out: a page may expire at any moment, so
that a fresh page is never assumed to be old.

### Board

`request` is the request the API serves, `crawl` a client that goes through a
list page by page (`state`: under way or done; `steady`: nothing was committed
meanwhile), `board` the rows of the rendered page, `filters` the React
state and `url` the query string.

| Action | Code |
|---|---|
| `ReadStatements`, `ReadCandidates`, `ReadResponded`, `Hydrate`, `ReadStream` | the SELECTs of `list_responders` and `list_statements` in their order, each with a snapshot of its own |
| `Respond` | sort, total, slice; the answer becomes the page or a client's next items |
| `StatementsExtracted`, `OrgMatched`, `DistrictsResolved` | commits of the pipeline |
| `StartCrawl`, `NextPage`, `EndCrawl` | a client of the API with `limit` and `offset` |
| `RenderPage`, `OpenLink`, `Hydrates`, `FollowLink`, `Reload`, `Leave` | a page, the query string it is opened with, React's mount (`parseFilters`, then the effect that writes the address), a plain link, a reload |
| `ToggleOption`, `RemoveChip`, `ClearAll`, `SelectLink`, `ChangeTab`, `ChangeSort`, `Search` | what a reader does in `board-explorer.tsx` and its filter groups |

`ParseFilters`, `SerializeFilters` and `NumberLineTargets` are `filter.ts` and
`board-explorer.tsx`. Counting and filtering are separate computations, as in
the code: `Matches` decides row by row with the predicates of `applyFilters`
(`StatementMatchesDistricts`, `StatementMatchesVerification`,
`ResponderMatchesHq`); `CountFacet` collects keys per option or counts rows
(`DistrictOrgs`, `NoLocation`, `VerificationOrgs`, `HqCount`, `OrgTypeCount`);
`FacetDistricts` are the options of `buildFacets`, `BoardCounts` the figures of
the head. `Passing` to `WithCandidates`, `InStream` and `Single` are the queries of the
API and what it makes of them: a group per organisation or unowned name, or a
row of the stream. `ComesBefore` are the sort keys, and `Orders` every order
that agrees with them, of which `Respond` takes any: no list is ordered
totally, the SELECT of the candidates has no ORDER BY, and two requests may
put rows that are equal in the keys in different places. `created_at` is the
time of the transaction, which the claims of one report share
(`StatementsExtracted` inserts several at a time). `Query` is what FastAPI
lets through; the stream has filters of its own, by organisation and day among
them. The web tells rows apart by `org_id ?? org_name_raw`, without the prefix
the API uses; that no name is the id of an organisation is assumed of the data.
Bounds of the model: one request at a time, no commit while a page is open (a
page is a copy, what happens meanwhile cannot reach it), no client beside a
page.

### Records

One organisation: its data and register rows in the files, `data_gaps`, its
website and its entry among the donation channels; the dataset merged from the
files (data, `data_gaps` and website); the rows in the database, with the
website and the donation channel (`db`); the web build. `searched` is history: the
paths where a researcher has looked.

| Action | Code |
|---|---|
| `WriteValue`, `WriteGap`, `DeclareGap`, `ResearchChannel` | edits of the research files |
| `AddGapReason`, `CompleteDataGaps`, `NullablePresenceMode` | `pipeline/migrations/`, each as often and in whatever order one likes |
| `IngestOrgs` | `_datum_row`, `_registration_row`, `vet_donation_channel`, and the check constraint that refuses a value which still has a reason |
| `ValidateOrgs` | `pipeline/probes/validate_orgs.py` |
| `BuildWeb` | `apps/web/lib/api.ts`: the website of the dataset or, built from the API, of the database; the donation file as it is |

`Detail` is the answer of `GET /orgs/{org_id}`. A `donation_channel` written
into the record itself passes the same rule (`orgs.py:707-709`) and is left out. A note is a class of texts:
what the derivation can tell apart. A host is a tuple of labels, and
`RegistrableDomain` the function of `donation.py` on it. Assumed: a
researcher's note, or a reason that says a search took place, was written by
somebody who looked; the JSON schema accepts the modelled data. Bound: a
behaviour edits the data or the link (`DataOrLink`); neither is read by what
the other leads to.

## Runs

| Run | Shows |
|---|---|
| `runqueue` | two ticks and an operator, two rows, a job that was renamed away, one fault: `Custody`, `AtMostOnce`, `OutcomeIsTrue`, `NoOvertaking`, `FreshnessFallsOnlyWhenPassed`, the refinement `ImplementsLedger`, and while ticks are started `EveryRequestTaken`, `EveryRunCloses` |
| `reports_safety` | two fetchers and two extractors on one report whose page changes, a claim with an amount its quote lacks, one fault: the refinement `ImplementsEvidence`, `CallsAreCounted`, `CallsAreBounded`, `PublishedIsVerbatim`, `OneRowUnlessRewritten`, `MatchSurvives` |
| `reports_live` | one fetcher, one extractor, two reports behind two foreign rows, two prompts, one fault: `OvershootIsOneCall`, `EveryReportFetched`, `EveryBodyReadOut` |
| `orgs` | two ingests and a writer, two paths, three files, a deploy or single write, one kill: `CurrentIsNewest`, `IngestsRecordChanges`, the refinement `ImplementsHistory`, `IngestsDoNotCollide`, `IngestedIsCurrent`, `EveryTransactionEnds` |
| `resolution` | a tick and a requested run, two releases of the alias files, any number of lost hints, one fault: `InheritedHasSource`, `FreshPageShowsDistricts`, `AttributionIsFinal`, `EventuallyResolved`, `BoardCatchesUp` |
| `board` | two organisations, two names, three statements, three commits, eighteen requests, every use of every page: `EverybodyOnce`, `CountsAreRows`, `LinkSaysTheView` |
| `records` | a figure and a register row, two edits of them or any of the link: `GapsAreTrue`, `MigrationIsInvisible` |
| `fetch_uses_up_extraction` | counterexample: two failed fetches and a good one exclude a report from extraction |
| `raising_fetch_is_not_counted` | counterexample: a request that raises is repeated without limit |
| `reclassified_is_refused` | counterexample: a second file in which one statement has another classification is refused as a whole |
| `hand_research_moves` | counterexample: of two organisations that claim one name, the owner of the alias gets the statements researched for the other |
| `donation_link_shown` | counterexample: the web shows a donation link that the loader refuses |

### Bounds

`RunId` bounds the rows of a behaviour, `MaxReports` the reports, `MaxFaults`
the kills and refused calls. Two rows are the least with which an older request
can be overtaken, and the theorems cover any number; two ticks and an operator
give every pair of overlapping claimers; one fault shows what a single kill or
refusal leaves behind at each place. In `reports_safety` one report is enough:
fetches and extractions meet on a row, and no step reads another row to write
it. Two fetchers give a body that is replaced and a counter that is set back,
two extractors an extraction that was selected before the other's commit, two
texts a page that changes; fetchers and extractors are symmetry sets there. In
`reports_live` two reports give a batch with an order, two foreign rows fill
the limit of a run that counts them, and a cost of 1 or 2 against a cap of 2 a
last call that overshoots. A cap of two attempts instead of three keeps the
counter's edge and halves the states; the runs that need the real cap of three
use it.

`orgs`: two paths, so that one transaction supersedes one row and inserts two;
a file that corrects a value and withdraws another, and one that reclassifies a
statement beside a correction, so that an ingest is refused after it has
superseded and inserted; two values that share a hash, as two data do that
differ in currency, fiscal year or scope only; `MaxChanges` of one deploy or
single write, enough for one between the read and the update of an ingest; one
kill. Ingests are not bounded.

`resolution`: one report with a statement that names a place, one that names a
place only the second gazetteer knows, and a rejected one, so that inheriting,
stating and taking back happen; two spellings of one name claimed by two
organisations in an order the second release turns round; a tick and a
requested run, so that each job overlaps itself. Jobs, ingests, seeds, renders
and lost hints are not bounded.

`board`: an organisation with and one without statements, of the same common
name, so that rows tie; a name nobody owns; a statement without date and place,
one in two districts and one in one, of the same day; `BoardLimit` 3 is less
than the four rows that may exist, so that the board is cut; pages of one item;
three commits, so that a statement can be stored and resolved while another is
added; three options or words chosen at a time, so that a group has a second
option while another narrows the list; links with a value that has
gone and an unknown sort; the stream by district, organisation and day. `records`: the presence mode has every
value a figure has and one more; hosts are two organisations under a public suffix of two labels and, in
`donation_link_shown`, a subdomain and the suffix itself.

### Fairness

`RunQueue!FairSpec`: a process that is running goes on (weak fairness of its
steps), a job ends, and ticks keep being started (the cron schedule of
`pipeline/railway.toml`). A job ends because requests and calls have timeouts
and loops are over lists read once. Nobody has to press the button, and no
fault has to happen. `ReportPipeline!FairSpec`: each place for a run is used
again, which the tick does by running both jobs whatever failed before. Pages
may go on failing and the model may go on answering nothing: that is what the
attempt counter is for. `OrgIngest!FairSpec`: a transaction goes on,
and an ingest that waits for the rows of organisations is served
(strong fairness: the lock can be taken again between two looks, but Postgres
queues who waits). The same for who waits for a row or at the index: it is woken
when the other transaction ends, many statements before a next ingest is at its
insert. Nobody has to load or deploy anything. `Resolution!FairSpec`: ticks are
started and go on, and a page that has expired is visited. A hint need never
arrive: of the two things that may happen after a commit, sending and losing,
none is promised. `Board` and `Records` state safety only and have no
fairness: nobody has to ask, edit or build.

## Proofs

Assumed are only the typings of the constants (`ConstantsAssumption` in each
module); sets of processes, rows, texts and claims are arbitrary unless stated.

`RunQueue_proofs`

- `TypeCorrect`.
- `CustodyHolds`: `Custody` says for each place of a process which status and
  how many starts the row it holds has, and that two processes never hold the
  same row. With `TypeOK` it is inductive; a weaker statement is not, because a
  claimed row is protected by the lock before the commit and by its status
  after it, and only the pair of row and place says which.
- `LedgerIsTrue` and `OutcomeHolds`: from it, `AtMostOnce` and `OutcomeIsTrue`,
  that is, a row is started at most once and what it records is what its job did.
- `HistoryHolds`: a closed row is never changed, step by step from `Custody`.
- `OrderHolds`: `NoOvertaking`, for any number of rows and drainers. What is
  claimable changes only by a request, which is younger than all others, and by
  a claim, which takes the oldest (`QueueStep`); a rollback of a claim is a
  fault, after which the property promises nothing.
- `FreshnessHolds`: rows have distinct start times and a job that succeeded has
  a success that started last (`Dated`); no time that was read is later than the
  clock, and a process that read before a run that is by now recorded has that
  run in `passed` (`Stamped`). The success that started last stands in for the
  maximum of a finite set: a step adds at most one. That freshness falls then
  means that the new success carries the earlier time, so that it was passed.
- `LedgerImplemented`: each step of the code's model is a step of `RunLedger`
  or a stutter (`ImplementsLedger`); the claim maps to "taken" at its commit.

`ReportPipeline_proofs`

- `TypeCorrect`; `MatchHolds`; `OvershootHolds`, whatever overlaps. The last one
  needs that a run about to call has not reached its cap (`Spending`): the cap is
  read before the attempt is counted, the price is added after the answer.
- `Reading` is inductive for any number of fetches and extractions: every body
  and every copy an extraction works on is a text the report has held. On top of
  it `Judged`: a statement has the verdict of such a text, and a published one no
  unsupported amount. `PublishedHolds` and `OneRowHolds` follow: two rows of one
  claim, one published without its amount and one with it, need two verdicts,
  and so two texts.
- `EvidenceImplemented`: `ReportPipeline` implements `Evidence`. A store is one
  `Publish`: the rows of an answer are claims about one report
  (`AnsweredIsOneReport`), the copy they were judged by is a text the report has
  held (`Reading`), what the gate passes has no unsupported amount
  (`GateKeepsVerdict`), and the run knows its prompt (`PromptIsKnown`). The commit
  of a fetch is one `Arrive`; nothing but these two and `MatchOrgs` touches what a
  reader sees (`OnlyThese`).
- `CountedHolds`, for finitely many extractors: calls made plus extractions that
  have counted and not yet called (`Pending`, together `Owed`) never exceed
  attempts plus `undone` (`CallsAreCovered`). The second summand carries the proof
  over a kill between the commit of the attempt and the call.
- `BoundedHolds`, for finitely many fetchers and extractors, at least one
  extractor and a cap of two or more (it is three): what a report has cost and
  may still cost without another fetch is within what the fetches have granted
  so far (`PaidFor`). A fetch can only have selected the report while it had no body,
  each such fetch commits once, and after its commit at most the cap less one
  attempts are left (`FetchBelowCap`); beyond these only extractions that had
  selected the report before can still count, one each.

`OrgIngest_proofs`, for any paths, values, files, ingests and writers

- `IngestInductive`: `TypeOK`, `Locks` and `CurrentIsNewest` together. `Locks`
  says that no two transactions have superseded the same row or inserted for
  the same path, and that who has inserted has superseded every current row of
  its paths. None of the three is inductive alone: the hash that is read has a
  type because there is one row to read, and there is one row because of the
  locks. `TypeCorrect`, `CurrentHolds` and `HistoryHolds` follow.
- `GuardedInductive`, on top of it: one ingest at a time (`Alone`), what it has
  read is still current (`ReadIsCurrent`) and its update hits the current row
  (`AimsAtCurrent`), or a writer's row is the newest. `NoCollision`,
  `ChangesHold` and `CommittedIsCurrent` follow. The exception for writers is
  needed: `upsert_datum` takes no lock on the organisation.
- `HistoryImplemented`: `OrgIngest` implements `DatumHistory`. A commit is a
  step of it (`CommitImplements`): by `Locks` the rows it leaves current are the
  ones it adds, and by `CommitIsNews` an ingest's row differs from the
  ingest's before it. Everything else leaves what is committed as it is.
- `NoDeadlock`: in every set of transactions one waits for none of the others
  (`NobodyWaitsInACircle`; `WaitsFor` is exactly what the guards wait for,
  `WaitsAreGuards`). Who waits at its update holds nothing yet; an ingest at the
  index waits for writers only; a writer writes one path (`OnePath`), and who
  has superseded a row of a path is alone on it (`OneHolder`), so that it waits
  for nobody. `Above` counts the links of such a chain. That the
  waiting also ends under fairness, `EveryTransactionEnds`, is TLC's.

`Resolution_proofs`, for any texts, aliases, files, statements and processes

- `TypeCorrect`, with what a list of claims yields (`ClaimType`).
- `SourceHolds`: the rows a run is about to write have their sources among
  themselves (`RowsHaveSource`), since pool and own districts are computed from
  one read. Together with the property it is inductive: a commit that turns the
  stated row of a source into an inherited one brings another source with it.
- `AttributionHolds`: what a run holds of the aliases, what it plans and what is
  written agree with the owner of the alias (`Owned`), which never changes.
- `FreshHolds`: inductive with the types: whoever changes the table is at the
  hint, and who leaves the hint marks the page or loses it.

`Board_proofs`, for any statements, districts, words and links

- `LinkHolds`: a filter state is read back as it was written (`RoundTrip`), and
  while the page is live the address is written from the state (`PageState`).
- `CountsHold`: the page counts keys and counters where the filter finds rows.
  They agree because an answer of the API has one row for each key
  (`OneRowEach`, from the grouping in `BoardLists_proofs`), in every state the
  filters can be in.

`BoardLists_proofs`, for any finite sets of organisations and statements, any
names, dates, queries and orders of rows that tie

- `Lists`, the inductive invariant: which SELECTs a request has behind it
  (`Course`), that what was there when it came in still is (`Since`), what the
  SELECTs so far have put together (`OneAnswer`), that the list is the one asked
  for as long as nothing is committed (`AtRest`), and that every row a client
  has got stands where one of the allowed orders puts it (`Pages`). No conjunct
  is inductive alone: that an organisation is not listed as silent beside its
  statements needs `Since`, and that a page continues the one before it needs
  that both were cut from orders of the same set.
- `EverybodyHolds`: the pages of a list at rest have as many rows as were
  counted, because each goes on where the last ended; a row that no other ties
  with has the same place in every order, one more than the rows before it
  (`Place`, `SamePlace`), so that it is got once whichever orders the requests
  have seen. Rows that tie may be got twice and missed; that is why `HasPlace`
  is in the property.
- `BoardTypeCorrect` needs the same invariant: what is sent has the type of an
  answer because each group's statements had their districts read. The time of
  an insertion needs the greatest of a finite set of numbers: of the sets of
  what lies above an element one is minimal, by strict inclusion, and it is
  empty (`LargestNumber`).

`Records_proofs`, for any paths, hosts and suffixes

- `TypeCorrect`; `GapsHold` from `Evidenced`: files, dataset and rows are
  truthful, a gap declared in `data_gaps` of the files or the dataset was
  searched, and what is served has its note and reason; the derivations keep
  that because none takes a generated note for a researcher's. A path the API
  lists that nobody searched has only rows that are not marked as searched, and
  therefore one that says "not_searched".
- `MigrationHolds` needs the types only.

Only model-checked: the liveness properties (the prover has no rules for
`ENABLED`). Every invariant and every action property of the passing runs is
also a theorem. No module uses a RECURSIVE operator.

## Divergences

Five are runs (see above and the findings of `PROJECT.json`). Met while reading
and modelling, and not worth a run of their own:

- `meta.py:74` says "When each job last succeeded": a run requested early that
  succeeds last is hidden by one that started after the request and finished
  before it. And the time goes back where `finished_at` is read before the commit
  of the close (`runs.py:117-129`): if of two overlapping runs the later started
  reads first and commits last, it is the one reported, with the earlier time.
- A close that is refused leaves its row `running` for good.
- `extract.py:171-175` says a body is set once and never rewritten, because only
  reports without one are fetched. Ticks may overlap (`queue.py:9-12`), and two
  overlapping fetches do rewrite a body, under an extraction or after statements
  were taken from it, and take attempts off the counter. A statement may then
  quote a text that its report no longer holds, and the report is not extracted
  again under the same prompt.
- The hash of a statement is taken after the gate (`extract.py:311-312`), not as
  `extract.py:89-95` says independently of its verdict: extracted again from a
  rewritten body, the same claim is a second row. Two claims of one answer that
  the gate makes equal refuse the whole batch.
- `orgs.py:304-314`: the hash leaves out currency, fiscal year and scope, so that
  a correction of one of them alone is not stored; `upsert_datum` hashes seven of
  the nine columns `_datum_row` hashes, so that it never finds a value that an
  ingest wrote unchanged, nor an ingest one of its.
- `pipeline/revalidate.py:13-14` promises hints after runs that wrote statements
  or reports and per organisation; only `resolve_districts` sends one.
- Board: no chip and no "clear all" for `hasResponse`, though
  `filter-chips.tsx:9-11` speaks of the active filters; `filter.ts:17-18` describes
  true and false of `hasResponse` the wrong way round (line 126);
  `filter.ts:97-101` says a responder without statements passes every
  district and verification filter, the code below it (131-144, with a comment
  of its own) leaves it out; `api.ts:916-917` wants a facet count to predict the
  size of the result, but a second option of a group shows the count of the
  narrowed list and is disabled at zero, though choosing it would widen the
  list; "international" includes organisations without a
  known seat on the page and excludes them in the API; district and
  verification may be met by two statements on the page and must be by one in
  the API; rows without a date are last, those without statements too
  (`responders.py:379`); lists have no total order, so rows that are equal in the
  sort keys may change places between two pages.
- Records: a donation entry that is withdrawn leaves its row in the database,
  and the website may change afterwards: the stored link is then on another
  domain than the organisation, against `schemas.py:101-103`; a recorded reason outlives a later declaration
  until the migration is run again, and that run overwrites a reason recorded by
  hand; `nullable_presence_mode` ignores a note that says the source did not
  answer, so `add_gap_reason` changes its reason afterwards; a value that keeps
  its `gap_reason` refuses the whole ingest; the merge skips a batch it cannot
  read and overwrites the dataset with fewer organisations; `schemas.py:263` describes
  `data_gaps` as paths that "stayed empty after a real search", and
  `complete_data_gaps.py:18-20` keeps unsearched ones out of the list of that name
  in the files, but `_detail` (`orgs.py:119`) lists every gap, the unsearched ones
  too, so that only the reason in `data` tells them apart (`GapsAreTrue`); a detail reads
  organisation and data in two SELECTs and may show two ingests.

## Not modelled, and the plan

What is left, in the order in which it is worth doing:

1. The listing as a step that can fail (one url twice in one upsert) and the
   counts a run row carries.
2. The history endpoint of a datum, a read of `DatumHistory`, and the
   organisation list with its vectors of missing data.
3. Warnings, flags and classification of organisations in `Records`.

Not planned: pacing, which needs real time and would restate a subtraction;
HTML parsing, prompts, rendering and translations, DDL,
`explicit_classification`, the checks in `scripts/`, rate limits, ETags and
authentication, which keep no state that another component could find changed.
`PROJECT.json` gives the reason for each.

--------------------------- MODULE ReportPipeline ----------------------------
(***************************************************************************)
(* The life of a report: the listing inserts its row, fetch_report_bodies  *)
(* fills in the body (both in pipeline/jobs/reliefweb.py), and             *)
(* extract_statements (pipeline/jobs/extract.py) pays a language model for *)
(* claims, gates each against the body (pipeline/extract/validate.py) and  *)
(* upserts them as statements; match_orgs (pipeline/jobs/match.py) then    *)
(* names their organisation.  Both jobs count on one column,               *)
(* report.extraction_attempts.                                             *)
(*                                                                         *)
(* Each job may be running several times at once, in overlapping ticks or  *)
(* beside a manual run: a Fetcher or an Extractor is one such place, used  *)
(* again and again.  fetch_report_bodies reads its candidates once, keeps  *)
(* what it found in the session's objects and writes it all at one commit; *)
(* extract_statements reads its candidates once and commits per report.    *)
(*                                                                         *)
(* Claims are those _build_row turns into rows, known by their content     *)
(* hash: an answer with none left stores nothing.  last_extraction_error   *)
(* is left out, nothing reads it.  X_... just before X is a slip that a    *)
(* property notices (see PROJECT.json).                                    *)
(***************************************************************************)
EXTENDS Naturals, FiniteSets

CONSTANTS
    MaxReports,   \* bound: rows of the report table
    Foreign,      \* the ids of rows at a host fetching is not allowed from
    Text,         \* what the page of a report may read, over time
    Claim,        \* claims a model may answer with
    QuotedIn,     \* the texts that contain the quote of a claim
    Unsupported,  \* claims whose amount is not in their quote, or has no currency
    Gated,        \* a claim without the amount and currency the gate drops
    Prompt,       \* values PROMPT_VERSION has in successive deploys
    Cost,         \* what one call may cost
    MaxAttempts,  \* MAX_EXTRACTION_ATTEMPTS and MAX_ATTEMPTS
    RunLimit,     \* max_reports_per_run
    CostCap,      \* max_run_cost_usd
    Fetchers,     \* runs of fetch_report_bodies there may be at a time
    Extractors,   \* runs of extract_statements there may be at a time
    MaxFaults     \* bound: kills and raised exceptions in a behaviour

ReportId == 1..MaxReports
Row == ReportId \X Claim

ASSUME ConstantsAssumption ==
    /\ MaxReports \in Nat
    /\ Foreign \subseteq ReportId
    /\ QuotedIn \in [Claim -> SUBSET Text]
    /\ Unsupported \subseteq Claim
    /\ Gated \in [Claim -> Claim]
    /\ \A c \in Claim :
          /\ QuotedIn[Gated[c]] = QuotedIn[c]
          /\ Gated[c] \notin Unsupported
          /\ c \notin Unsupported => Gated[c] = c
    /\ Cost \subseteq Nat
    /\ MaxAttempts \in Nat /\ RunLimit \in Nat
    /\ CostCap \in Nat /\ MaxFaults \in Nat
    /\ "none" \notin Text \cup Prompt
    /\ Fetchers \cap Extractors = {}

VARIABLES
    known,      \* how many report rows there are: ids 1 to known
    body,       \* column body_text, "none" while it is null
    attempts,   \* column extraction_attempts
    status,     \* column status of a statement, "absent" before its insert
    prompt,     \* column prompt_version of a statement
    matched,    \* the statements whose org_id is set
    version,    \* PROMPT_VERSION of the deployed code
    pc,         \* where each fetcher and extractor is
    batch,      \* the candidates it has selected and not yet processed
    snapshot,   \* a fetcher: extraction_attempts as it read them
    visited,    \* a fetcher: the reports it has requested in this run
    copy,       \* a fetcher: texts it got; an extractor: bodies it read
    using,      \* an extractor: PROMPT_VERSION of the code it runs
    spent,      \* an extractor: handle.cost_usd
    answer,     \* an extractor: the claims of the last call
    tries,      \* history: requests made for each report
    calls,      \* history: model calls made for each report
    held,       \* history: the texts its body has held
    undone,     \* history: attempts that fetches took off its counter
    faults      \* kills and exceptions so far

reports == <<known, body, attempts>>
statements == <<status, prompt, matched>>
fetching == <<snapshot, visited>>
extracting == <<using, spent, answer>>
history == <<tries, calls, held, undone>>
vars == <<reports, statements, version, pc, batch, copy, fetching,
          extracting, history, faults>>

Run == Fetchers \cup Extractors
None == "none"
Status == {"absent", "auto", "rejected_unverbatim"}

(* "fetching" and "extracting" are the loop heads of the two jobs,         *)
(* "calling" is after the attempt has been counted and committed, and      *)
(* "writing" after the model has answered.                                 *)
Location == {"off", "fetching", "extracting", "calling", "writing"}

TypeOK ==
    /\ known \in 0..MaxReports
    /\ body \in [ReportId -> Text \cup {None}]
    /\ attempts \in [ReportId -> Nat]
    /\ status \in [Row -> Status]
    /\ prompt \in [Row -> Prompt \cup {None}]
    /\ matched \subseteq Row
    /\ version \in Prompt
    /\ pc \in [Run -> Location]
    /\ batch \in [Run -> SUBSET ReportId]
    /\ snapshot \in [Fetchers -> [ReportId -> Nat]]
    /\ visited \in [Fetchers -> SUBSET ReportId]
    /\ copy \in [Run -> [ReportId -> Text \cup {None}]]
    /\ using \in [Extractors -> Prompt \cup {None}]
    /\ spent \in [Extractors -> Nat]
    /\ answer \in [Extractors -> SUBSET Claim]
    /\ tries \in [ReportId -> Nat]
    /\ calls \in [ReportId -> Nat]
    /\ held \in [ReportId -> SUBSET Text]
    /\ undone \in [ReportId -> Nat]
    /\ faults \in Nat

Zeros == [r \in ReportId |-> 0]
Nothing == [r \in ReportId |-> None]

Init ==
    /\ known = 0
    /\ body = Nothing
    /\ attempts = Zeros
    /\ status = [row \in Row |-> "absent"]
    /\ prompt = [row \in Row |-> None]
    /\ matched = {}
    /\ version \in Prompt
    /\ pc = [p \in Run |-> "off"]
    /\ batch = [p \in Run |-> {}]
    /\ snapshot = [p \in Fetchers |-> Zeros]
    /\ visited = [p \in Fetchers |-> {}]
    /\ copy = [p \in Run |-> Nothing]
    /\ using = [p \in Extractors |-> None]
    /\ spent = [p \in Extractors |-> 0]
    /\ answer = [p \in Extractors |-> {}]
    /\ tries = Zeros
    /\ calls = Zeros
    /\ held = [r \in ReportId |-> {}]
    /\ undone = Zeros
    /\ faults = 0

Goto(p, loc) == pc' = [pc EXCEPT ![p] = loc]

Fault == faults < MaxFaults /\ faults' = faults + 1

(* ORDER BY id LIMIT n *)
FirstOf(S, n) == {r \in S : Cardinality({q \in S : q < r}) < n}

First(p, r) == r \in batch[p] /\ \A q \in batch[p] : r <= q

Finished(p) == batch' = [batch EXCEPT ![p] = {}] /\ copy' = [copy EXCEPT ![p] = Nothing]

-----------------------------------------------------------------------------
(* Rows that other jobs write *)

(* ingest_reliefweb_listing: one transaction inserts any number of rows at *)
(* ReliefWeb; of the rows already there it rewrites only the metadata.     *)
Listing ==
    \E n \in known+1..MaxReports :
        /\ (known+1..n) \cap Foreign = {}
        /\ known' = n
        /\ UNCHANGED <<body, attempts, statements, version, pc, batch, copy,
                       fetching, extracting, history, faults>>

(* ingest_orgs adds a row for each source of the hand research.            *)
Research ==
    /\ known + 1 \in Foreign
    /\ known' = known + 1
    /\ UNCHANGED <<body, attempts, statements, version, pc, batch, copy,
                   fetching, extracting, history, faults>>

(* match_orgs sets org_id of the statements whose name has an alias, and   *)
(* never clears it.  Which names have one is not modelled.                 *)
MatchOrgs ==
    /\ \E S \in SUBSET {row \in Row : status[row] = "auto"} :
          matched' = matched \cup S
    /\ UNCHANGED <<reports, status, prompt, version, pc, batch, copy,
                   fetching, extracting, history, faults>>

(* A deploy brings another prompt; the runs under way keep the old one.    *)
Deploy ==
    /\ version' \in Prompt \ {version}
    /\ UNCHANGED <<reports, statements, pc, batch, copy, fetching,
                   extracting, history, faults>>

-----------------------------------------------------------------------------
(* fetch_report_bodies *)

Rows == 1..known

Fetchable ==
    {r \in Rows : body[r] = None /\ attempts[r] < MaxAttempts} \ Foreign

SelectUnfetched_LimitFirst(p) ==
    /\ pc[p] = "off"
    /\ Goto(p, "fetching")
    /\ batch' = [batch EXCEPT ![p] = FirstOf(
          {r \in Rows : body[r] = None /\ attempts[r] < MaxAttempts},
          RunLimit) \ Foreign]
    /\ snapshot' = [snapshot EXCEPT ![p] = attempts]
    /\ UNCHANGED <<reports, statements, version, copy, visited, extracting,
                   history, faults>>

(* The host filter runs before the limit.  The ORM objects keep the column *)
(* values of this moment until the commit.                                 *)
SelectUnfetched(p) ==
    /\ pc[p] = "off"
    /\ Goto(p, "fetching")
    /\ batch' = [batch EXCEPT ![p] = FirstOf(Fetchable, RunLimit)]
    /\ snapshot' = [snapshot EXCEPT ![p] = attempts]
    /\ UNCHANGED <<reports, statements, version, copy, visited, extracting,
                   history, faults>>

Requested(p, r) ==
    /\ pc[p] = "fetching"
    /\ First(p, r)
    /\ tries' = [tries EXCEPT ![r] = @ + 1]

(* The page answers: with a text, or with "none" for a status other than   *)
(* 200 and for an empty page.  Either way the attempt is counted, in the   *)
(* session only.                                                           *)
FetchOne(p, text) ==
    \E r \in ReportId :
        /\ Requested(p, r)
        /\ batch' = [batch EXCEPT ![p] = @ \ {r}]
        /\ visited' = [visited EXCEPT ![p] = @ \cup {r}]
        /\ copy' = [copy EXCEPT ![p][r] = text]
        /\ UNCHANGED <<reports, statements, version, pc, snapshot,
                       extracting, calls, held, undone, faults>>

(* The one commit.  The ORM writes the values it computed from what it had *)
(* read, whatever the row holds by now: the body and the attempts another  *)
(* fetch or an extraction committed since.                                 *)
CommitFetch(p) ==
    /\ pc[p] = "fetching" /\ batch[p] = {}
    /\ attempts' = [r \in ReportId |->
          IF r \in visited[p] THEN snapshot[p][r] + 1 ELSE attempts[r]]
    /\ body' = [r \in ReportId |->
          IF copy[p][r] # None THEN copy[p][r] ELSE body[r]]
    /\ held' = [r \in ReportId |-> held[r] \cup ({copy[p][r]} \ {None})]
    /\ undone' = [r \in ReportId |->
          IF attempts[r] > attempts'[r]
          THEN undone[r] + (attempts[r] - attempts'[r]) ELSE undone[r]]
    /\ Goto(p, "off")
    /\ Finished(p)
    /\ visited' = [visited EXCEPT ![p] = {}]
    /\ snapshot' = [snapshot EXCEPT ![p] = Zeros]
    /\ UNCHANGED <<known, statements, version, extracting, tries, calls,
                   faults>>

FetchEnds(p) ==
    /\ Goto(p, "off")
    /\ Finished(p)
    /\ visited' = [visited EXCEPT ![p] = {}]
    /\ snapshot' = [snapshot EXCEPT ![p] = Zeros]
    /\ UNCHANGED <<reports, statements, version, extracting, calls, held, undone>>

(* The request raises (the session's retries are used up, or a timeout):   *)
(* the exception leaves the loop and nothing of this run is committed.     *)
FetchRaises(p) ==
    /\ Fault
    /\ \E r \in ReportId : Requested(p, r)
    /\ FetchEnds(p)

FetcherKilled(p) ==
    /\ Fault
    /\ pc[p] = "fetching"
    /\ FetchEnds(p)
    /\ UNCHANGED tries

-----------------------------------------------------------------------------
(* extract_statements *)

(* Reports that already have a statement of this prompt, rejected or not.  *)
AlreadyExtracted(v) ==
    {r \in ReportId : \E c \in Claim : prompt[<<r, c>>] = v}

Extractable_OneShort(v) ==
    {r \in Rows : body[r] # None /\ attempts[r] + 1 < MaxAttempts}
        \ AlreadyExtracted(v)

Extractable_AtTheCap(v) ==
    {r \in Rows : body[r] # None /\ attempts[r] <= MaxAttempts}
        \ AlreadyExtracted(v)

Extractable(v) ==
    {r \in Rows : body[r] # None /\ attempts[r] < MaxAttempts}
        \ AlreadyExtracted(v)

SelectCandidates(p) ==
    /\ pc[p] = "off"
    /\ Goto(p, "extracting")
    /\ LET chosen == FirstOf(Extractable(version), RunLimit)
       IN  /\ batch' = [batch EXCEPT ![p] = chosen]
           /\ copy' = [copy EXCEPT ![p] = [r \in ReportId |->
                  IF r \in chosen THEN body[r] ELSE None]]
    /\ using' = [using EXCEPT ![p] = version]
    /\ UNCHANGED <<reports, statements, version, fetching, spent, answer,
                   history, faults>>

CountAttempt_NotCommitted(p) ==
    /\ pc[p] = "extracting"
    /\ batch[p] # {}
    /\ spent[p] < CostCap
    /\ Goto(p, "calling")
    /\ UNCHANGED <<reports, statements, version, batch, copy, fetching,
                   extracting, history, faults>>

CountAttempt_CapAfterwards(p) ==
    /\ pc[p] = "extracting"
    /\ spent[p] <= CostCap
    /\ \E r \in ReportId :
          /\ First(p, r)
          /\ attempts' = [attempts EXCEPT ![r] = @ + 1]
    /\ Goto(p, "calling")
    /\ UNCHANGED <<known, body, statements, version, batch, copy, fetching,
                   extracting, history, faults>>

(* Counted and committed before the call, by an UPDATE relative to what    *)
(* the row holds.                                                          *)
CountAttempt(p) ==
    /\ pc[p] = "extracting"
    /\ spent[p] < CostCap
    /\ \E r \in ReportId :
          /\ First(p, r)
          /\ attempts' = [attempts EXCEPT ![r] = @ + 1]
    /\ Goto(p, "calling")
    /\ UNCHANGED <<known, body, statements, version, batch, copy, fetching,
                   extracting, history, faults>>

Called(p) ==
    /\ pc[p] = "calling"
    /\ \E r \in ReportId :
          /\ First(p, r)
          /\ calls' = [calls EXCEPT ![r] = @ + 1]

(* An answer that is not what was asked for costs as much and has no claim. *)
ModelAnswers(p, claims, cost) ==
    /\ Called(p)
    /\ answer' = [answer EXCEPT ![p] = claims]
    /\ spent' = [spent EXCEPT ![p] = @ + cost]
    /\ Goto(p, "writing")
    /\ UNCHANGED <<reports, statements, version, batch, copy, fetching,
                   using, tries, held, undone, faults>>

(* gate: what it says of the quote, and the claim it hands back.  The hash  *)
(* that identifies the row is taken of the latter.                         *)
Verdict(c, text) ==
    IF text \in QuotedIn[c] THEN "auto" ELSE "rejected_unverbatim"

AfterGate_KeepsTheAmount(c, text) == c

AfterGate(c, text) == IF Verdict(c, text) = "auto" THEN Gated[c] ELSE c

Answered(p) ==
    {row \in Row : /\ First(p, row[1])
                   /\ \E c \in answer[p] : row[2] = AfterGate(c, copy[p][row[1]])}

(* Two claims of one answer that are one row after the gate.               *)
Clash(p) ==
    \E r \in ReportId, c, d \in answer[p] :
        /\ First(p, r)
        /\ c # d
        /\ AfterGate(c, copy[p][r]) = AfterGate(d, copy[p][r])

NextCandidate(p) ==
    /\ pc[p] = "writing"
    /\ batch' = [batch EXCEPT ![p] = {r \in @ : ~First(p, r)}]
    /\ answer' = [answer EXCEPT ![p] = {}]
    /\ Goto(p, "extracting")
    /\ UNCHANGED <<reports, version, copy, fetching, using, spent, history, faults>>

StoreStatements_ClearsMatch(p) ==
    /\ NextCandidate(p)
    /\ status' = [row \in Row |-> IF row \in Answered(p)
          THEN Verdict(row[2], copy[p][row[1]]) ELSE status[row]]
    /\ prompt' = [row \in Row |->
          IF row \in Answered(p) THEN using[p] ELSE prompt[row]]
    /\ matched' = matched \ Answered(p)

StoreStatements_KeepsVerdict(p) ==
    /\ NextCandidate(p)
    /\ status' = [row \in Row |->
          IF row \in Answered(p) THEN "auto" ELSE status[row]]
    /\ prompt' = [row \in Row |->
          IF row \in Answered(p) THEN using[p] ELSE prompt[row]]
    /\ UNCHANGED matched

StoreStatements_MisspeltStatus(p) ==
    /\ NextCandidate(p)
    /\ status' = [row \in Row |-> IF row \in Answered(p)
          THEN IF Verdict(row[2], copy[p][row[1]]) = "auto"
               THEN "auto" ELSE "rejected"
          ELSE status[row]]
    /\ prompt' = [row \in Row |->
          IF row \in Answered(p) THEN using[p] ELSE prompt[row]]
    /\ UNCHANGED matched

StoreStatements_ReadsBodyAgain(p) ==
    /\ ~Clash(p)
    /\ NextCandidate(p)
    /\ status' = [row \in Row |-> IF row \in Answered(p)
          THEN Verdict(row[2], body[row[1]]) ELSE status[row]]
    /\ prompt' = [row \in Row |->
          IF row \in Answered(p) THEN using[p] ELSE prompt[row]]
    /\ UNCHANGED matched

(* The upsert on (report_id, content_hash): new rows, and old rows with    *)
(* every column but org_id renewed.  The gate reads the body this run      *)
(* selected, not the one the row holds by now.                             *)
StoreStatements(p) ==
    /\ ~Clash(p)
    /\ NextCandidate(p)
    /\ status' = [row \in Row |-> IF row \in Answered(p)
          THEN Verdict(row[2], copy[p][row[1]]) ELSE status[row]]
    /\ prompt' = [row \in Row |->
          IF row \in Answered(p) THEN using[p] ELSE prompt[row]]
    /\ UNCHANGED matched

(* The database refuses the batch (one row twice in one upsert, or another *)
(* constraint): rolled back with every claim of the answer, counted as     *)
(* rejected, and on to the next report.                                    *)
WriteRefused(p) ==
    /\ answer[p] # {}
    /\ NextCandidate(p)
    /\ UNCHANGED statements

ExtractOver(p) ==
    /\ Goto(p, "off")
    /\ Finished(p)
    /\ using' = [using EXCEPT ![p] = None]
    /\ spent' = [spent EXCEPT ![p] = 0]
    /\ answer' = [answer EXCEPT ![p] = {}]
    /\ UNCHANGED <<reports, statements, version, fetching, tries, held, undone>>

(* Out of candidates, or the cost cap is reached.                          *)
ExtractEnds(p) ==
    /\ pc[p] = "extracting"
    /\ batch[p] = {} \/ spent[p] >= CostCap
    /\ ExtractOver(p)
    /\ UNCHANGED <<calls, faults>>

(* The model call raises: the exception ends the run.                      *)
CallRaises(p) ==
    /\ Fault
    /\ Called(p)
    /\ ExtractOver(p)

ExtractorKilled(p) ==
    /\ Fault
    /\ pc[p] # "off"
    /\ ExtractOver(p)
    /\ UNCHANGED calls

-----------------------------------------------------------------------------
FetchStep(p) ==
    \/ SelectUnfetched(p)
    \/ \E text \in Text \cup {None} : FetchOne(p, text)
    \/ CommitFetch(p)

ExtractStep(p) ==
    \/ SelectCandidates(p)
    \/ CountAttempt(p)
    \/ \E claims \in SUBSET Claim, cost \in Cost : ModelAnswers(p, claims, cost)
    \/ StoreStatements(p)
    \/ WriteRefused(p)
    \/ ExtractEnds(p)

Next ==
    \/ Listing
    \/ Research
    \/ MatchOrgs
    \/ Deploy
    \/ \E p \in Fetchers : FetchStep(p) \/ FetchRaises(p) \/ FetcherKilled(p)
    \/ \E p \in Extractors :
          ExtractStep(p) \/ CallRaises(p) \/ ExtractorKilled(p)

Spec == Init /\ [][Next]_vars

(* Every tick runs both jobs, requests and calls have a timeout, and a run *)
(* that is not killed goes on.  What the outside world has to do is not    *)
(* assumed to happen.                                                      *)
FairSpec ==
    /\ Spec
    /\ \A p \in Fetchers : WF_vars(FetchStep(p))
    /\ \A p \in Extractors : WF_vars(ExtractStep(p))

-----------------------------------------------------------------------------
(* Safety, whatever overlaps *)

(* Every step is one of what is promised to whoever checks a statement: an *)
(* answer is stored at once with the verdicts of one text its report has   *)
(* held, whichever fetches, runs, prompts, refusals and kills are behind   *)
(* it, and although a later fetch may have put another text in its place.  *)
Record == INSTANCE Evidence WITH texts <- held

ImplementsEvidence == Record!EvidenceSpec

(* What the API serves as verbatim was in a text stored for its report, and *)
(* so was its amount ("an invented number is worse than a missing one").    *)
PublishedIsVerbatim ==
    \A row \in Row :
        status[row] = "auto" =>
            /\ held[row[1]] \cap QuotedIn[row[2]] # {}
            /\ row[2] \notin Unsupported

(* One claim of the model has one row, renewed and not duplicated, although *)
(* the gate changes what is hashed: unless its report has held one text    *)
(* with the quote and one without, by overlapping fetches.                 *)
OneRowUnlessRewritten ==
    \A r \in ReportId, c \in Unsupported :
        status[<<r, c>>] # "absent" /\ status[<<r, Gated[c]>>] = "auto" =>
            held[r] \cap QuotedIn[c] # {} /\ ~(held[r] \subseteq QuotedIn[c])

(* Every call of the model has been put on the counter, whatever raises or *)
(* is killed around it (the reason extract_statements counts before it     *)
(* calls), and only a fetch that overlaps takes attempts off it again.     *)
CallsAreCounted == \A r \in ReportId : calls[r] <= attempts[r] + undone[r]

(* How many calls a report can cost.  A fetch leaves MaxAttempts - 1       *)
(* attempts, and each other extraction that has selected the report before *)
(* they are used up may make one more call; only a fetch that selected it  *)
(* while it had no body can set the counter back.                          *)
CallsAreBounded ==
    \A r \in ReportId :
        calls[r] <= Cardinality(Fetchers)
                       * ((MaxAttempts - 1) + (Cardinality(Extractors) - 1))

(* A call is only ever started below the cost cap, so that a run overshoots *)
(* it by less than one call.                                               *)
OvershootIsOneCall ==
    \A p \in Extractors :
        spent[p] > 0 => \E c \in Cost : spent[p] < CostCap + c

(* A re-extraction, under a new prompt or by an overlapping run, never     *)
(* takes away the organisation match_orgs found (_UPSERT_COLUMNS).         *)
MatchSurvives == [][matched \subseteq matched']_vars

-----------------------------------------------------------------------------
(* Liveness *)

(* Every report at an allowed host is fetched or given up, however many    *)
(* rows of other hosts are in front of it.                                 *)
EveryReportFetched ==
    \A r \in ReportId \ Foreign :
        r <= known ~> body[r] # None \/ attempts[r] >= MaxAttempts

(* Every fetched report is read out or given up, however little the model  *)
(* finds in it and in the reports before it.                               *)
EveryBodyReadOut ==
    \A r \in ReportId \ Foreign :
        body[r] # None ~>
            \/ \E c \in Claim : prompt[<<r, c>>] # None
            \/ attempts[r] >= MaxAttempts

-----------------------------------------------------------------------------
(* What comments of the code say, and what the code does not do *)

(* "A report that has failed extraction this many times is excluded        *)
(* permanently" (extract.py): a fetched report is excluded for failures of *)
(* extraction, not of fetching.                                            *)
ExcludedForFailedExtraction ==
    \A r \in ReportId :
        /\ body[r] # None
        /\ attempts[r] >= MaxAttempts
        /\ \A c \in Claim : prompt[<<r, c>>] = None
        => calls[r] >= MaxAttempts

(* "MAX_ATTEMPTS ... caps how often a single report is retried across      *)
(* ticks" (pipeline/railway.toml).                                         *)
RetriesAreCapped == \A r \in ReportId : tries[r] <= MaxAttempts
=============================================================================

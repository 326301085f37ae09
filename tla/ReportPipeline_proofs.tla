------------------------ MODULE ReportPipeline_proofs ------------------------
(***************************************************************************)
(* Proofs about ReportPipeline for any number of reports, texts, claims,   *)
(* prompts, overlapping fetches and overlapping extractions.               *)
(*                                                                         *)
(* Nothing is assumed of how runs overlap: a fetch may write another body  *)
(* over the one an extraction has read, and take attempts off the counter. *)
(* What survives is that a run only works with texts its report has held   *)
(* (Reading), and that a fetch that can set the counter back has selected  *)
(* the report below the cap while it had no body (FetchBelowCap, PaidFor). *)
(***************************************************************************)
EXTENDS ReportPipeline, FiniteSetTheorems, TLAPS

USE DEF None

-----------------------------------------------------------------------------
(* Type correctness *)

(* A selection is a set of reports that satisfy its condition.             *)
LEMMA CandidatesAreReports ==
    ASSUME TypeOK
    PROVE  /\ FirstOf(Fetchable, RunLimit) \subseteq Fetchable
           /\ Fetchable \subseteq ReportId
           /\ \A v : /\ FirstOf(Extractable(v), RunLimit) \subseteq Extractable(v)
                    /\ Extractable(v) \subseteq ReportId
<1>1. Rows \subseteq ReportId
  BY ConstantsAssumption DEF Rows, ReportId, TypeOK
<1> QED
  BY <1>1 DEF FirstOf, Fetchable, Extractable

LEMMA FinishedType ==
    ASSUME TypeOK, NEW p \in Run, Finished(p)
    PROVE  /\ batch' \in [Run -> SUBSET ReportId]
           /\ copy' \in [Run -> [ReportId -> Text \cup {None}]]
    BY DEF TypeOK, Finished, Nothing

LEMMA FetchEndsType ==
    ASSUME TypeOK, NEW p \in Fetchers, FetchEnds(p),
           tries' \in [ReportId -> Nat], faults' \in Nat
    PROVE  TypeOK'
<1> p \in Run
  BY DEF Run
<1>1. pc' \in [Run -> Location]
  BY DEF FetchEnds, Goto, TypeOK, Location
<1>2. /\ visited' \in [Fetchers -> SUBSET ReportId]
      /\ snapshot' \in [Fetchers -> [ReportId -> Nat]]
  BY DEF FetchEnds, TypeOK, Zeros
<1>3. /\ batch' \in [Run -> SUBSET ReportId]
      /\ copy' \in [Run -> [ReportId -> Text \cup {None}]]
  BY FinishedType DEF FetchEnds
<1> QED
  BY <1>1, <1>2, <1>3 DEF FetchEnds, TypeOK, reports, statements, extracting

LEMMA ExtractOverType ==
    ASSUME TypeOK, NEW p \in Extractors, ExtractOver(p),
           calls' \in [ReportId -> Nat], faults' \in Nat
    PROVE  TypeOK'
<1> p \in Run
  BY DEF Run
<1>1. pc' \in [Run -> Location]
  BY DEF ExtractOver, Goto, TypeOK, Location
<1>2. /\ using' \in [Extractors -> Prompt \cup {None}]
      /\ spent' \in [Extractors -> Nat]
      /\ answer' \in [Extractors -> SUBSET Claim]
  BY DEF ExtractOver, TypeOK
<1>3. /\ batch' \in [Run -> SUBSET ReportId]
      /\ copy' \in [Run -> [ReportId -> Text \cup {None}]]
  BY FinishedType DEF ExtractOver
<1> QED
  BY <1>1, <1>2, <1>3 DEF ExtractOver, TypeOK, reports, statements, fetching

LEMMA FetchStepType ==
    ASSUME TypeOK, NEW p \in Fetchers,
           FetchStep(p) \/ FetchRaises(p) \/ FetcherKilled(p)
    PROVE  TypeOK'
<1> p \in Run
  BY DEF Run
<1>1. CASE SelectUnfetched(p)
  <2>1. FirstOf(Fetchable, RunLimit) \subseteq ReportId
    BY CandidatesAreReports
  <2>2. pc' \in [Run -> Location]
    BY <1>1 DEF SelectUnfetched, Goto, TypeOK, Location
  <2>3. /\ batch' \in [Run -> SUBSET ReportId]
        /\ snapshot' \in [Fetchers -> [ReportId -> Nat]]
    BY <1>1, <2>1 DEF SelectUnfetched, TypeOK
  <2> QED
    BY <1>1, <2>2, <2>3 DEF SelectUnfetched, TypeOK, reports, statements,
       extracting, history
<1>2. ASSUME NEW text \in Text \cup {None}, FetchOne(p, text) PROVE TypeOK'
  <2>1. PICK r \in ReportId :
          /\ Requested(p, r)
          /\ batch' = [batch EXCEPT ![p] = @ \ {r}]
          /\ visited' = [visited EXCEPT ![p] = @ \cup {r}]
          /\ copy' = [copy EXCEPT ![p][r] = text]
    BY <1>2 DEF FetchOne
  <2> UNCHANGED <<reports, statements, version, pc, snapshot, extracting,
                  calls, held, undone, faults>>
    BY <1>2 DEF FetchOne
  <2>2. /\ batch' \in [Run -> SUBSET ReportId]
        /\ visited' \in [Fetchers -> SUBSET ReportId]
        /\ tries' \in [ReportId -> Nat]
    BY <2>1 DEF Requested, TypeOK
  <2>3. copy' \in [Run -> [ReportId -> Text \cup {None}]]
    BY <2>1 DEF TypeOK
  <2> QED
    BY <2>1, <2>2, <2>3 DEF TypeOK, reports, statements, extracting
<1>3. CASE CommitFetch(p)
  <2>1. /\ attempts' \in [ReportId -> Nat]
        /\ body' \in [ReportId -> Text \cup {None}]
        /\ held' \in [ReportId -> SUBSET Text]
    <3>1. \A r \in ReportId : copy[p][r] \in Text \cup {None}
      BY DEF TypeOK
    <3> QED
      BY <1>3, <3>1 DEF CommitFetch, TypeOK
  <2>5. undone' \in [ReportId -> Nat]
    <3>1. \A r \in ReportId :
             attempts[r] > attempts'[r] =>
                undone[r] + (attempts[r] - attempts'[r]) \in Nat
      BY <2>1 DEF TypeOK
    <3> QED
      BY <1>3, <3>1 DEF CommitFetch, TypeOK
  <2>2. pc' \in [Run -> Location]
    BY <1>3 DEF CommitFetch, Goto, TypeOK, Location
  <2>3. /\ visited' \in [Fetchers -> SUBSET ReportId]
        /\ snapshot' \in [Fetchers -> [ReportId -> Nat]]
    BY <1>3 DEF CommitFetch, TypeOK, Zeros
  <2>4. /\ batch' \in [Run -> SUBSET ReportId]
        /\ copy' \in [Run -> [ReportId -> Text \cup {None}]]
    BY <1>3, FinishedType DEF CommitFetch
  <2> QED
    BY <1>3, <2>1, <2>2, <2>3, <2>4, <2>5 DEF CommitFetch, TypeOK,
       statements, extracting
<1>4. CASE FetchRaises(p)
  <2>1. tries' \in [ReportId -> Nat] /\ faults' \in Nat
    BY <1>4 DEF FetchRaises, Requested, Fault, TypeOK
  <2> QED
    BY <1>4, <2>1, FetchEndsType DEF FetchRaises
<1>5. CASE FetcherKilled(p)
  <2>1. tries' \in [ReportId -> Nat] /\ faults' \in Nat
    BY <1>5 DEF FetcherKilled, Fault, TypeOK
  <2> QED
    BY <1>5, <2>1, FetchEndsType DEF FetcherKilled
<1> QED
  BY <1>1, <1>2, <1>3, <1>4, <1>5 DEF FetchStep

LEMMA ExtractStepType ==
    ASSUME TypeOK, NEW p \in Extractors,
           ExtractStep(p) \/ CallRaises(p) \/ ExtractorKilled(p)
    PROVE  TypeOK'
<1> p \in Run
  BY DEF Run
<1>1. CASE SelectCandidates(p)
  <2> DEFINE chosen == FirstOf(Extractable(version), RunLimit)
  <2>1. chosen \subseteq ReportId
    BY CandidatesAreReports
  <2>2. pc' \in [Run -> Location]
    BY <1>1 DEF SelectCandidates, Goto, TypeOK, Location
  <2>3. batch' = [batch EXCEPT ![p] = chosen]
    BY <1>1 DEF SelectCandidates
  <2>4. copy' = [copy EXCEPT ![p] =
                    [r \in ReportId |-> IF r \in chosen THEN body[r] ELSE None]]
    BY <1>1 DEF SelectCandidates
  <2> HIDE DEF chosen
  <2>5. /\ batch' \in [Run -> SUBSET ReportId]
        /\ copy' \in [Run -> [ReportId -> Text \cup {None}]]
    BY <2>1, <2>3, <2>4 DEF TypeOK
  <2>6. using' \in [Extractors -> Prompt \cup {None}]
    BY <1>1 DEF SelectCandidates, TypeOK
  <2> QED
    BY <1>1, <2>2, <2>5, <2>6 DEF SelectCandidates, TypeOK, reports,
       statements, fetching, history
<1>2. CASE CountAttempt(p)
  <2>1. attempts' \in [ReportId -> Nat]
    BY <1>2 DEF CountAttempt, TypeOK
  <2>2. pc' \in [Run -> Location]
    BY <1>2 DEF CountAttempt, Goto, TypeOK, Location
  <2> QED
    BY <1>2, <2>1, <2>2 DEF CountAttempt, TypeOK, statements, fetching,
       extracting, history
<1>3. ASSUME NEW claims \in SUBSET Claim, NEW cost \in Cost,
             ModelAnswers(p, claims, cost)
      PROVE  TypeOK'
  <2>1. calls' \in [ReportId -> Nat]
    BY <1>3 DEF ModelAnswers, Called, TypeOK
  <2>2. pc' \in [Run -> Location]
    BY <1>3 DEF ModelAnswers, Goto, TypeOK, Location
  <2>3. /\ answer' \in [Extractors -> SUBSET Claim]
        /\ spent' \in [Extractors -> Nat]
    BY <1>3, ConstantsAssumption DEF ModelAnswers, TypeOK
  <2> QED
    BY <1>3, <2>1, <2>2, <2>3 DEF ModelAnswers, TypeOK, reports, statements,
       fetching
<1>4. ASSUME NextCandidate(p), status' \in [Row -> Status],
             prompt' \in [Row -> Prompt \cup {None}], UNCHANGED matched,
             UNCHANGED faults
      PROVE  TypeOK'
  <2>1. pc' \in [Run -> Location]
    BY <1>4 DEF NextCandidate, Goto, TypeOK, Location
  <2>2. /\ batch' \in [Run -> SUBSET ReportId]
        /\ answer' \in [Extractors -> SUBSET Claim]
    BY <1>4 DEF NextCandidate, TypeOK
  <2> QED
    BY <1>4, <2>1, <2>2 DEF NextCandidate, TypeOK, reports, fetching, history
<1>5. CASE StoreStatements(p)
  <2>1. status' \in [Row -> Status]
    BY <1>5 DEF StoreStatements, Verdict, Status, TypeOK
  <2>2. prompt' \in [Row -> Prompt \cup {None}]
    BY <1>5 DEF StoreStatements, TypeOK
  <2> QED
    BY <1>4, <1>5, <2>1, <2>2 DEF StoreStatements, NextCandidate
<1>6. CASE WriteRefused(p)
  BY <1>4, <1>6 DEF WriteRefused, NextCandidate, statements, TypeOK
<1>7. CASE ExtractEnds(p)
  BY <1>7, ExtractOverType DEF ExtractEnds, TypeOK
<1>8. CASE CallRaises(p)
  <2>1. calls' \in [ReportId -> Nat] /\ faults' \in Nat
    BY <1>8 DEF CallRaises, Called, Fault, TypeOK
  <2> QED
    BY <1>8, <2>1, ExtractOverType DEF CallRaises
<1>9. CASE ExtractorKilled(p)
  <2>1. calls' \in [ReportId -> Nat] /\ faults' \in Nat
    BY <1>9 DEF ExtractorKilled, Fault, TypeOK
  <2> QED
    BY <1>9, <2>1, ExtractOverType DEF ExtractorKilled
<1> QED
  BY <1>1, <1>2, <1>3, <1>5, <1>6, <1>7, <1>8, <1>9 DEF ExtractStep

(* Every action of fetching, extracting and their surroundings keeps the   *)
(* types.                                                                  *)
THEOREM TypeStep == TypeOK /\ [Next]_vars => TypeOK'
<1> SUFFICES ASSUME TypeOK, [Next]_vars PROVE TypeOK'
  OBVIOUS
<1>1. CASE Listing
  BY <1>1, ConstantsAssumption DEF Listing, TypeOK, statements, fetching,
     extracting, history
<1>2. CASE Research
  <2>1. known' \in 0..MaxReports
    BY <1>2, ConstantsAssumption DEF Research, ReportId, TypeOK
  <2> QED
    BY <1>2, <2>1 DEF Research, TypeOK, statements, fetching, extracting,
       history
<1>3. CASE MatchOrgs
  BY <1>3 DEF MatchOrgs, TypeOK, reports, fetching, extracting, history
<1>4. CASE Deploy
  BY <1>4 DEF Deploy, TypeOK, reports, statements, fetching, extracting,
     history
<1>5. CASE UNCHANGED vars
  BY <1>5 DEF vars, TypeOK, reports, statements, fetching, extracting,
     history
<1> QED
  BY <1>1, <1>2, <1>3, <1>4, <1>5, FetchStepType, ExtractStepType DEF Next

(* Every variable keeps its type (columns of report and of                 *)
(* response_statement, local variables of the two jobs).                   *)
THEOREM TypeCorrect == Spec => []TypeOK
<1>1. Init => TypeOK
  BY ConstantsAssumption DEF Init, TypeOK, Zeros, Nothing, Status, Location
<1> QED
  BY <1>1, TypeStep, PTL DEF Spec
-----------------------------------------------------------------------------
(* Whatever overlaps *)

(* Nothing but a store touches statements beside match_orgs, and a store   *)
(* leaves the organisation alone, whatever it re-extracts.                 *)
THEOREM MatchHolds == Spec => MatchSurvives
<1>1. [Next]_vars => [matched \subseteq matched']_vars
  <2> SUFFICES ASSUME Next PROVE matched \subseteq matched'
    OBVIOUS
  <2>1. ASSUME NEW p \in Fetchers,
               FetchStep(p) \/ FetchRaises(p) \/ FetcherKilled(p)
        PROVE  matched' = matched
    BY <2>1 DEF FetchStep, SelectUnfetched, FetchOne, CommitFetch,
       FetchRaises, FetcherKilled, FetchEnds, statements
  <2>2. ASSUME NEW p \in Extractors,
               ExtractStep(p) \/ CallRaises(p) \/ ExtractorKilled(p)
        PROVE  matched' = matched
    BY <2>2 DEF ExtractStep, SelectCandidates, CountAttempt, ModelAnswers,
       StoreStatements, WriteRefused, ExtractEnds, CallRaises,
       ExtractorKilled, ExtractOver, statements
  <2> QED
    BY <2>1, <2>2 DEF Next, Listing, Research, MatchOrgs, Deploy, statements
<1> QED
  BY <1>1, PTL DEF Spec, MatchSurvives

(* Why the overshoot is bounded: the cap is compared again before every    *)
(* call.                                                                   *)
Spending ==
    /\ OvershootIsOneCall
    /\ \A p \in Extractors : pc[p] = "calling" => spent[p] < CostCap

LEMMA SpendingStep == TypeOK /\ Spending /\ [Next]_vars => Spending'
<1> SUFFICES ASSUME TypeOK, Spending, [Next]_vars PROVE Spending'
  OBVIOUS
<1>1. ASSUME UNCHANGED spent, \A q \in Extractors : pc'[q] = pc[q]
      PROVE  Spending'
  BY <1>1 DEF Spending, OvershootIsOneCall
<1>2. ASSUME NEW p \in Fetchers,
             FetchStep(p) \/ FetchRaises(p) \/ FetcherKilled(p)
      PROVE  Spending'
  <2>1. /\ UNCHANGED spent
        /\ \/ UNCHANGED pc
           \/ \E loc : Goto(p, loc)
    BY <1>2 DEF FetchStep, SelectUnfetched, FetchOne, CommitFetch,
       FetchRaises, FetcherKilled, FetchEnds, extracting
  <2> QED
    BY <1>1, <2>1, ConstantsAssumption DEF Goto, TypeOK, Run
<1>3. ASSUME NEW p \in Extractors, NEW loc, Goto(p, loc),
             UNCHANGED spent, loc # "calling" \/ spent[p] < CostCap
      PROVE  Spending'
  BY <1>3 DEF Goto, TypeOK, Run, Spending, OvershootIsOneCall
<1>4. ASSUME NEW p \in Extractors, ExtractOver(p) PROVE Spending'
  BY <1>4 DEF ExtractOver, Goto, TypeOK, Run, Spending, OvershootIsOneCall
<1>5. ASSUME NEW p \in Extractors, ExtractStep(p) PROVE Spending'
  <2>1. CASE SelectCandidates(p)
    BY <1>3, <2>1 DEF SelectCandidates
  <2>2. CASE CountAttempt(p)
    BY <1>3, <2>2 DEF CountAttempt, extracting
  <2>3. ASSUME NEW claims \in SUBSET Claim, NEW cost \in Cost,
               ModelAnswers(p, claims, cost)
        PROVE  Spending'
    <3>1. spent[p] < CostCap
      BY <2>3 DEF ModelAnswers, Called, Spending
    <3>2. spent' = [spent EXCEPT ![p] = @ + cost] /\ Goto(p, "writing")
      BY <2>3 DEF ModelAnswers
    <3>3. spent[p] \in Nat /\ cost \in Nat /\ CostCap \in Nat
      BY ConstantsAssumption DEF TypeOK
    <3>4. spent'[p] = spent[p] + cost /\ spent'[p] < CostCap + cost
      BY <3>1, <3>2, <3>3 DEF TypeOK
    <3>5. \A q \in Extractors \ {p} : spent'[q] = spent[q] /\ pc'[q] = pc[q]
      BY <3>2 DEF Goto, TypeOK, Run
    <3>6. pc'[p] = "writing"
      BY <3>2 DEF Goto, TypeOK, Run
    <3> QED
      BY <3>4, <3>5, <3>6 DEF Spending, OvershootIsOneCall
  <2>4. CASE StoreStatements(p)
    BY <1>3, <2>4 DEF StoreStatements, NextCandidate
  <2>5. CASE WriteRefused(p)
    BY <1>3, <2>5 DEF WriteRefused, NextCandidate
  <2>6. CASE ExtractEnds(p)
    BY <1>4, <2>6 DEF ExtractEnds
  <2> QED
    BY <1>5, <2>1, <2>2, <2>3, <2>4, <2>5, <2>6 DEF ExtractStep
<1>6. ASSUME NEW p \in Extractors, CallRaises(p) \/ ExtractorKilled(p)
      PROVE  Spending'
  BY <1>4, <1>6 DEF CallRaises, ExtractorKilled
<1>7. CASE Listing \/ Research \/ MatchOrgs \/ Deploy \/ UNCHANGED vars
  BY <1>1, <1>7 DEF Listing, Research, MatchOrgs, Deploy, vars, extracting
<1> QED
  BY <1>2, <1>5, <1>6, <1>7 DEF Next

(* The cost cap of extract_statements is overshot by less than one call.   *)
THEOREM OvershootHolds == Spec => []OvershootIsOneCall
<1>1. Init => Spending
  BY DEF Init, Spending, OvershootIsOneCall, Run
<1>2. Spending => OvershootIsOneCall
  BY DEF Spending
<1> QED
  BY <1>1, <1>2, SpendingStep, TypeCorrect, PTL DEF Spec
-----------------------------------------------------------------------------
(* What the two jobs have read *)

(* A row and a run of extract_statements only ever have texts that the     *)
(* report has held, whatever a later fetch has put in their place.         *)
BodiesAreHeld == \A r \in ReportId : body[r] # None => body[r] \in held[r]

CopiesAreHeld ==
    \A p \in Extractors, r \in ReportId :
        /\ copy[p][r] # None => copy[p][r] \in held[r]
        /\ r \in batch[p] => body[r] # None /\ copy[p][r] # None

Reading == BodiesAreHeld /\ CopiesAreHeld

(* Overlapping fetches replace a text; none of them takes one away.        *)
LEMMA CommitFetchRows ==
    ASSUME TypeOK, NEW p \in Fetchers, CommitFetch(p)
    PROVE  \A r \in ReportId :
             /\ held[r] \subseteq held'[r]
             /\ body[r] # None => body'[r] # None
             /\ body'[r] # body[r] => body'[r] \in held'[r]
    BY DEF CommitFetch, TypeOK

LEMMA RowsAlone ==
    ASSUME [Next]_vars, \A p \in Fetchers : ~CommitFetch(p)
    PROVE  UNCHANGED <<body, held, undone>>
<1>1. ASSUME NEW p \in Fetchers,
             FetchStep(p) \/ FetchRaises(p) \/ FetcherKilled(p)
      PROVE  UNCHANGED <<body, held, undone>>
  BY <1>1 DEF FetchStep, SelectUnfetched, FetchOne, FetchRaises,
     FetcherKilled, FetchEnds, reports, history
<1>2. ASSUME NEW p \in Extractors,
             ExtractStep(p) \/ CallRaises(p) \/ ExtractorKilled(p)
      PROVE  UNCHANGED <<body, held, undone>>
  BY <1>2 DEF ExtractStep, SelectCandidates, CountAttempt, ModelAnswers,
     StoreStatements, WriteRefused, NextCandidate, ExtractEnds, CallRaises,
     ExtractorKilled, ExtractOver, reports, history
<1>3. CASE Listing \/ Research \/ MatchOrgs \/ Deploy \/ UNCHANGED vars
  BY <1>3 DEF Listing, Research, MatchOrgs, Deploy, vars, reports, history
<1> QED
  BY <1>1, <1>2, <1>3 DEF Next

LEMMA RowsGrow ==
    ASSUME TypeOK, [Next]_vars
    PROVE  \A r \in ReportId :
             /\ held[r] \subseteq held'[r]
             /\ body[r] # None => body'[r] # None
             /\ body'[r] # body[r] => body'[r] \in held'[r]
    BY CommitFetchRows, RowsAlone

(* Extractors that at most drop candidates.                                *)
LEMMA ReadingKept ==
    ASSUME TypeOK, TypeOK', Reading, [Next]_vars,
           \A q \in Extractors :
              /\ batch'[q] \subseteq batch[q]
              /\ copy'[q] = copy[q] \/ (copy'[q] = Nothing /\ batch'[q] = {})
    PROVE  Reading'
<1>1. BodiesAreHeld'
  BY RowsGrow DEF Reading, BodiesAreHeld
<1>2. CopiesAreHeld'
  <2> SUFFICES ASSUME NEW q \in Extractors, NEW r \in ReportId
               PROVE  /\ copy'[q][r] # None => copy'[q][r] \in held'[r]
                      /\ r \in batch'[q] => body'[r] # None /\ copy'[q][r] # None
    BY DEF CopiesAreHeld
  <2>1. CASE copy'[q] = copy[q]
    BY <2>1, RowsGrow DEF Reading, CopiesAreHeld
  <2>2. CASE copy'[q] = Nothing /\ batch'[q] = {}
    BY <2>2 DEF Nothing
  <2> QED
    BY <2>1, <2>2
<1> QED
  BY <1>1, <1>2 DEF Reading

LEMMA SelectCandidatesReading ==
    ASSUME TypeOK, Reading, NEW p \in Extractors, SelectCandidates(p)
    PROVE  Reading'
<1> DEFINE chosen == FirstOf(Extractable(version), RunLimit)
<1>1. /\ batch' = [batch EXCEPT ![p] = chosen]
      /\ copy' = [copy EXCEPT ![p] =
                     [r \in ReportId |-> IF r \in chosen THEN body[r] ELSE None]]
      /\ UNCHANGED <<body, held>> /\ p \in Run
  BY DEF SelectCandidates, reports, history, Run
<1>2. \A r \in chosen : r \in ReportId /\ body[r] # None
  BY CandidatesAreReports DEF Extractable
<1> HIDE DEF chosen
<1>3. CopiesAreHeld'
  <2> SUFFICES ASSUME NEW q \in Extractors, NEW r \in ReportId
               PROVE  /\ copy'[q][r] # None => copy'[q][r] \in held[r]
                      /\ r \in batch'[q] => body[r] # None /\ copy'[q][r] # None
    BY <1>1 DEF CopiesAreHeld
  <2>1. CASE q = p
    <3>1. /\ batch'[p] = chosen
          /\ copy'[p][r] = IF r \in chosen THEN body[r] ELSE None
      BY <1>1 DEF TypeOK
    <3> QED
      BY <1>2, <2>1, <3>1 DEF Reading, BodiesAreHeld
  <2>2. CASE q # p
    BY <1>1, <2>2 DEF Reading, CopiesAreHeld, TypeOK, Run
  <2> QED
    BY <2>1, <2>2
<1> QED
  BY <1>1, <1>3 DEF Reading, BodiesAreHeld

(* What the other steps do to the lists and copies of the extractions.     *)
LEMMA ExtractorsMove ==
    ASSUME TypeOK, [Next]_vars, \A p \in Extractors : ~SelectCandidates(p)
    PROVE  \A q \in Extractors :
              /\ batch'[q] \subseteq batch[q]
              /\ copy'[q] = copy[q] \/ (copy'[q] = Nothing /\ batch'[q] = {})
<1>1. ASSUME NEW p \in Fetchers,
             FetchStep(p) \/ FetchRaises(p) \/ FetcherKilled(p)
      PROVE  \A q \in Extractors : batch'[q] = batch[q] /\ copy'[q] = copy[q]
  BY <1>1, ConstantsAssumption
     DEF FetchStep, SelectUnfetched, FetchOne, CommitFetch, FetchRaises,
         FetcherKilled, FetchEnds, Finished, TypeOK, Run
<1>2. ASSUME NEW p \in Extractors, NextCandidate(p)
      PROVE  \A q \in Extractors : batch'[q] \subseteq batch[q] /\ copy'[q] = copy[q]
  BY <1>2 DEF NextCandidate, TypeOK, Run
<1>3. ASSUME NEW p \in Extractors, ExtractOver(p), NEW q \in Extractors
      PROVE  /\ batch'[q] \subseteq batch[q]
             /\ copy'[q] = copy[q] \/ (copy'[q] = Nothing /\ batch'[q] = {})
  BY <1>3 DEF ExtractOver, Finished, TypeOK, Run
<1>4. ASSUME NEW p \in Extractors,
             ExtractStep(p) \/ CallRaises(p) \/ ExtractorKilled(p)
      PROVE  UNCHANGED <<batch, copy>> \/ NextCandidate(p) \/ ExtractOver(p)
  BY <1>4 DEF ExtractStep, CountAttempt, ModelAnswers, StoreStatements,
     WriteRefused, ExtractEnds, CallRaises, ExtractorKilled
<1>5. CASE Listing \/ Research \/ MatchOrgs \/ Deploy \/ UNCHANGED vars
  BY <1>5 DEF Listing, Research, MatchOrgs, Deploy, vars
<1> QED
  BY <1>1, <1>2, <1>3, <1>4, <1>5 DEF Next

(* Whatever overlaps, a run that has still to process a report holds a     *)
(* text of it, and the report has one.                                     *)
LEMMA ReadingStep == TypeOK /\ Reading /\ [Next]_vars => Reading'
    BY TypeStep, SelectCandidatesReading, ExtractorsMove, ReadingKept

LEMMA ReadingInit == Init => Reading
    BY DEF Init, Reading, BodiesAreHeld, CopiesAreHeld, Nothing, Run
-----------------------------------------------------------------------------
(* What is published *)

(* Every stored verdict is one the gate gives of a text the report has     *)
(* held, and what it publishes went through the gate.                      *)
Judged ==
    \A row \in Row :
        /\ status[row] = "auto" =>
              /\ held[row[1]] \cap QuotedIn[row[2]] # {}
              /\ row[2] \notin Unsupported
        /\ status[row] = "rejected_unverbatim" =>
              ~(held[row[1]] \subseteq QuotedIn[row[2]])

(* The gate does not change the quote, so that its verdict of a claim is   *)
(* its verdict of the row; what it lets through has no unsupported amount. *)
LEMMA GateKeepsVerdict ==
    ASSUME NEW c \in Claim, NEW text
    PROVE  /\ AfterGate(c, text) \in Claim
           /\ Verdict(AfterGate(c, text), text) = "auto" =>
                  AfterGate(c, text) \notin Unsupported
  BY ConstantsAssumption DEF AfterGate, Verdict

(* A verdict that was true of a text the report has held stays true, and a *)
(* new one is about the text this run has selected.                        *)
LEMMA JudgedStep == TypeOK /\ Reading /\ Judged /\ [Next]_vars => Judged'
<1> SUFFICES ASSUME TypeOK, Reading, Judged, [Next]_vars PROVE Judged'
  OBVIOUS
<1>1. \A row \in Row : row[1] \in ReportId /\ held[row[1]] \subseteq held'[row[1]]
  BY RowsGrow DEF Row
<1>2. CASE UNCHANGED status
  BY <1>1, <1>2 DEF Judged
<1>3. ASSUME NEW p \in Extractors, StoreStatements(p) PROVE Judged'
  <2> SUFFICES ASSUME NEW row \in Row, row \in Answered(p)
               PROVE  /\ status'[row] = "auto" =>
                            /\ held'[row[1]] \cap QuotedIn[row[2]] # {}
                            /\ row[2] \notin Unsupported
                      /\ status'[row] = "rejected_unverbatim" =>
                            ~(held'[row[1]] \subseteq QuotedIn[row[2]])
    BY <1>1, <1>3 DEF Judged, StoreStatements
  <2>1. status'[row] = Verdict(row[2], copy[p][row[1]])
    BY <1>3 DEF StoreStatements
  <2>2. copy[p][row[1]] \in held[row[1]]
    BY <1>1 DEF Answered, First, Reading, CopiesAreHeld
  <2>3. PICK c \in answer[p] : row[2] = AfterGate(c, copy[p][row[1]])
    BY DEF Answered
  <2>4. status'[row] = "auto" => row[2] \notin Unsupported
    BY <2>1, <2>3, GateKeepsVerdict DEF TypeOK
  <2> QED
    BY <1>1, <2>1, <2>2, <2>4 DEF Verdict
<1>4. ASSUME NEW p \in Fetchers,
             FetchStep(p) \/ FetchRaises(p) \/ FetcherKilled(p)
      PROVE  UNCHANGED status
  BY <1>4 DEF FetchStep, SelectUnfetched, FetchOne, CommitFetch,
     FetchRaises, FetcherKilled, FetchEnds, statements
<1>5. ASSUME NEW p \in Extractors,
             ExtractStep(p) \/ CallRaises(p) \/ ExtractorKilled(p),
             ~StoreStatements(p)
      PROVE  UNCHANGED status
  BY <1>5 DEF ExtractStep, SelectCandidates, CountAttempt, ModelAnswers,
     WriteRefused, ExtractEnds, CallRaises, ExtractorKilled, ExtractOver,
     statements
<1>6. CASE Listing \/ Research \/ MatchOrgs \/ Deploy \/ UNCHANGED vars
  BY <1>2, <1>6 DEF Listing, Research, MatchOrgs, Deploy, vars, statements
<1> QED
  BY <1>2, <1>3, <1>4, <1>5, <1>6 DEF Next

LEMMA JudgedHolds == Spec => []Judged
<1>1. Init => Judged
  BY DEF Init, Judged
<1> QED
  BY <1>1, JudgedStep, TypeCorrect, ReadingInit, ReadingStep, PTL DEF Spec

(* Every statement that is not rejected quotes a text its report has held, *)
(* with an amount that is in the quote, however many fetches and           *)
(* extractions overlap and whichever prompt they run with.                 *)
THEOREM PublishedHolds == Spec => []PublishedIsVerbatim
<1>1. Judged => PublishedIsVerbatim
  BY DEF Judged, PublishedIsVerbatim
<1> QED
  BY <1>1, JudgedHolds, PTL

(* A claim stored both with its amount and without it: the report has held *)
(* a text that has the quote and one that lacks it.                        *)
THEOREM OneRowHolds == Spec => []OneRowUnlessRewritten
<1>1. ASSUME TypeOK, Judged PROVE OneRowUnlessRewritten
  <2> SUFFICES ASSUME NEW r \in ReportId, NEW c \in Unsupported,
                      status[<<r, c>>] # "absent",
                      status[<<r, Gated[c]>>] = "auto"
               PROVE  /\ held[r] \cap QuotedIn[c] # {}
                      /\ ~(held[r] \subseteq QuotedIn[c])
    BY DEF OneRowUnlessRewritten
  <2>1. c \in Claim /\ Gated[c] \in Claim /\ QuotedIn[Gated[c]] = QuotedIn[c]
    BY ConstantsAssumption
  <2>2. ASSUME NEW d \in Claim, status[<<r, d>>] # "absent"
        PROVE  /\ status[<<r, d>>] = "auto" =>
                     held[r] \cap QuotedIn[d] # {} /\ d \notin Unsupported
               /\ status[<<r, d>>] # "auto" => ~(held[r] \subseteq QuotedIn[d])
    <3>1. PICK row \in Row : row = <<r, d>>
      BY DEF Row
    <3>2. row[1] = r /\ row[2] = d /\ status[row] # "absent"
      BY <2>2, <3>1
    <3>3. status[row] \in Status
      BY <1>1 DEF TypeOK
    <3>4. /\ status[row] = "auto" =>
                held[r] \cap QuotedIn[d] # {} /\ d \notin Unsupported
          /\ status[row] # "auto" => ~(held[r] \subseteq QuotedIn[d])
      BY <1>1, <3>2, <3>3 DEF Judged, Status
    <3> QED
      BY <3>1, <3>4
  <2>3. ~(held[r] \subseteq QuotedIn[c])
    BY <2>1, <2>2
  <2>4. held[r] \cap QuotedIn[Gated[c]] # {}
    BY <2>1, <2>2
  <2> QED
    BY <2>1, <2>3, <2>4
<1> QED
  BY <1>1, JudgedHolds, TypeCorrect, PTL
-----------------------------------------------------------------------------
(* What is paid for *)

(* The extractions that have counted an attempt at r and not yet called.   *)
Pending(r) == {p \in Extractors : pc[p] = "calling" /\ First(p, r)}

(* The calls of r, made and about to be made.                              *)
Owed(r) == calls[r] + Cardinality(Pending(r))

CallsAreCovered ==
    \A r \in ReportId : Owed(r) <= attempts[r] + undone[r]

LEMMA PendingFinite ==
    ASSUME IsFiniteSet(Extractors)
    PROVE  \A r : /\ IsFiniteSet(Pending(r))
                  /\ Cardinality(Pending(r)) \in Nat
<1> SUFFICES ASSUME NEW r
             PROVE  IsFiniteSet(Pending(r)) /\ Cardinality(Pending(r)) \in Nat
  OBVIOUS
<1>1. Pending(r) \subseteq Extractors
  BY DEF Pending
<1> QED
  BY <1>1, FS_Subset, FS_CardinalityType

LEMMA OwedIsNat ==
    ASSUME IsFiniteSet(Extractors), TypeOK
    PROVE  \A r \in ReportId : Owed(r) \in Nat
<1> SUFFICES ASSUME NEW r \in ReportId PROVE Owed(r) \in Nat
  OBVIOUS
<1>1. calls[r] \in Nat /\ Cardinality(Pending(r)) \in Nat
  BY PendingFinite DEF TypeOK
<1> HIDE DEF Pending
<1> QED
  BY <1>1 DEF Owed

(* Only p moves, so that at most p joins or leaves the pending ones.       *)
LEMMA PendingOfOthers ==
    ASSUME NEW p \in Run,
           \A q \in Run \ {p} : pc'[q] = pc[q] /\ batch'[q] = batch[q]
    PROVE  \A r : /\ Pending(r)' \ {p} = Pending(r) \ {p}
                  /\ pc'[p] # "calling" => Pending(r)' \subseteq Pending(r)
    BY DEF Pending, First, Run

LEMMA FirstIsOne ==
    ASSUME TypeOK, NEW p \in Run, NEW q, NEW r, First(p, q), First(p, r)
    PROVE  q = r
<1>1. /\ q \in Nat /\ r \in Nat
      /\ q <= r /\ r <= q
  BY ConstantsAssumption DEF First, TypeOK, ReportId
<1> QED
  BY <1>1

(* Nobody starts pending and nothing is called.                            *)
LEMMA OwedFalls ==
    ASSUME IsFiniteSet(Extractors), TypeOK, UNCHANGED calls,
           NEW r \in ReportId, Pending(r)' \subseteq Pending(r)
    PROVE  Owed(r)' <= Owed(r)
<1>1. /\ Cardinality(Pending(r)') <= Cardinality(Pending(r))
      /\ Cardinality(Pending(r)') \in Nat
      /\ Cardinality(Pending(r)) \in Nat
  <2>1. IsFiniteSet(Pending(r)) /\ Pending(r)' \subseteq Pending(r)
    BY PendingFinite
  <2> QED
    BY <2>1, PendingFinite, FS_Subset, FS_CardinalityType
<1>2. calls[r] \in Nat
  BY DEF TypeOK
<1> HIDE DEF Pending
<1> QED
  BY <1>1, <1>2 DEF Owed

LEMMA CountAttemptOwes ==
    ASSUME IsFiniteSet(Extractors), TypeOK,
           NEW p \in Extractors, CountAttempt(p), NEW x \in ReportId
    PROVE  Owed(x)' = IF First(p, x) THEN Owed(x) + 1 ELSE Owed(x)
<1>1. PICK r \in ReportId : First(p, r)
  BY DEF CountAttempt
<1>2. /\ p \in Run /\ pc[p] = "extracting" /\ UNCHANGED <<batch, calls>>
      /\ pc' = [pc EXCEPT ![p] = "calling"]
  BY DEF CountAttempt, Goto, Run, history
<1>3. p \notin Pending(x)
  BY <1>2 DEF Pending
<1>4. p \in Pending(x)' <=> First(p, x)
  BY <1>2 DEF Pending, First, TypeOK
<1>5. Pending(x)' \ {p} = Pending(x) \ {p}
  BY <1>2, PendingOfOthers DEF TypeOK
<1>6. calls[x] \in Nat /\ Cardinality(Pending(x)) \in Nat
  BY PendingFinite DEF TypeOK
<1>7. CASE First(p, x)
  <2>1. Pending(x)' = Pending(x) \cup {p}
    BY <1>3, <1>4, <1>5, <1>7
  <2>2. Cardinality(Pending(x)') = Cardinality(Pending(x)) + 1
    BY <1>3, <2>1, PendingFinite, FS_AddElement
  <2> HIDE DEF Pending
  <2> QED
    BY <1>2, <1>6, <1>7, <2>2 DEF Owed
<1>8. CASE ~First(p, x)
  <2>1. Pending(x)' = Pending(x)
    BY <1>3, <1>4, <1>5, <1>8
  <2> QED
    BY <1>2, <1>8, <2>1 DEF Owed
<1> QED
  BY <1>7, <1>8

LEMMA CalledOwes ==
    ASSUME IsFiniteSet(Extractors), TypeOK,
           NEW p \in Extractors, Called(p), pc'[p] # "calling",
           \A q \in Run \ {p} : pc'[q] = pc[q] /\ batch'[q] = batch[q],
           NEW x \in ReportId
    PROVE  Owed(x)' = Owed(x)
<1>1. PICK r \in ReportId :
        First(p, r) /\ calls' = [calls EXCEPT ![r] = @ + 1]
  BY DEF Called
<1>2. p \in Run /\ pc[p] = "calling"
  BY DEF Called, Run
<1>3. p \in Pending(x) <=> x = r
  BY <1>1, <1>2, FirstIsOne DEF Pending
<1>4. Pending(x)' = Pending(x) \ {p}
  <2>1. p \notin Pending(x)'
    BY DEF Pending
  <2>2. Pending(x)' \ {p} = Pending(x) \ {p}
    BY <1>2, PendingOfOthers
  <2> QED
    BY <2>1, <2>2
<1>5. calls[x] \in Nat /\ Cardinality(Pending(x)) \in Nat
  BY PendingFinite DEF TypeOK
<1>6. CASE x = r
  <2>1. Cardinality(Pending(x)') = Cardinality(Pending(x)) - 1
    BY <1>3, <1>4, <1>6, PendingFinite, FS_RemoveElement
  <2>2. calls'[x] = calls[x] + 1
    BY <1>1, <1>6 DEF TypeOK
  <2> HIDE DEF Pending
  <2> QED
    BY <1>5, <2>1, <2>2 DEF Owed
<1>7. CASE x # r
  <2>1. calls'[x] = calls[x] /\ Pending(x)' = Pending(x)
    BY <1>1, <1>3, <1>4, <1>7 DEF TypeOK
  <2> QED
    BY <2>1 DEF Owed
<1> QED
  BY <1>6, <1>7

(* Only the commit of an attempt lets a report owe more.                   *)
LEMMA OwedStep ==
    ASSUME IsFiniteSet(Extractors), TypeOK, [Next]_vars,
           \A p \in Extractors : ~CountAttempt(p),
           NEW x \in ReportId
    PROVE  Owed(x)' <= Owed(x)
<1>1. ASSUME NEW p \in Run, UNCHANGED calls, pc'[p] # "calling",
             \A q \in Run \ {p} : pc'[q] = pc[q] /\ batch'[q] = batch[q]
      PROVE  Owed(x)' <= Owed(x)
  BY <1>1, PendingOfOthers, OwedFalls
<1>2. ASSUME NEW p \in Fetchers,
             FetchStep(p) \/ FetchRaises(p) \/ FetcherKilled(p)
      PROVE  Owed(x)' <= Owed(x)
  <2>1. p \in Run
    BY DEF Run
  <2>2. ASSUME NEW loc \in {"off", "fetching"}, NEW S, UNCHANGED calls,
               pc' = [pc EXCEPT ![p] = loc], batch' = [batch EXCEPT ![p] = S]
        PROVE  Owed(x)' <= Owed(x)
    BY <1>1, <2>1, <2>2 DEF TypeOK
  <2>3. CASE SelectUnfetched(p)
    BY <2>2, <2>3 DEF SelectUnfetched, Goto, history
  <2>4. ASSUME NEW text \in Text \cup {None}, FetchOne(p, text)
        PROVE  Owed(x)' <= Owed(x)
    <3>1. PICK r \in ReportId : /\ pc[p] = "fetching"
                                /\ batch' = [batch EXCEPT ![p] = @ \ {r}]
      BY <2>4 DEF FetchOne, Requested
    <3>2. pc' = [pc EXCEPT ![p] = "fetching"] /\ UNCHANGED calls
      BY <2>4, <3>1 DEF FetchOne, TypeOK
    <3> QED
      BY <2>2, <3>1, <3>2
  <2>5. CASE CommitFetch(p)
    BY <2>2, <2>5 DEF CommitFetch, Finished, Goto
  <2>6. CASE FetchRaises(p) \/ FetcherKilled(p)
    BY <2>2, <2>6 DEF FetchRaises, FetcherKilled, FetchEnds, Finished, Goto
  <2> QED
    BY <1>2, <2>3, <2>4, <2>5, <2>6 DEF FetchStep
<1>3. \A n \in Nat : n <= n
  OBVIOUS
<1>4. ASSUME NEW p \in Extractors, NEW claims \in SUBSET Claim,
             NEW cost \in Cost, ModelAnswers(p, claims, cost)
      PROVE  Owed(x)' <= Owed(x)
  <2>1. /\ pc'[p] # "calling" /\ Called(p)
        /\ \A q \in Run \ {p} : pc'[q] = pc[q] /\ batch'[q] = batch[q]
    BY <1>4 DEF ModelAnswers, Goto, TypeOK, Run
  <2> QED
    BY <1>3, <2>1, CalledOwes, OwedIsNat
<1>5. ASSUME NEW p \in Extractors, ExtractOver(p)
      PROVE  /\ p \in Run /\ pc'[p] # "calling"
             /\ \A q \in Run \ {p} : pc'[q] = pc[q] /\ batch'[q] = batch[q]
  BY <1>5 DEF ExtractOver, Finished, Goto, TypeOK, Run
<1>6. ASSUME NEW p \in Extractors, CallRaises(p) PROVE Owed(x)' <= Owed(x)
  BY <1>3, <1>5, <1>6, CalledOwes, OwedIsNat DEF CallRaises
<1>7. ASSUME NEW p \in Extractors, ExtractEnds(p) \/ ExtractorKilled(p)
      PROVE  Owed(x)' <= Owed(x)
  BY <1>1, <1>5, <1>7 DEF ExtractEnds, ExtractorKilled
<1>8. ASSUME NEW p \in Extractors,
             SelectCandidates(p) \/ StoreStatements(p) \/ WriteRefused(p)
      PROVE  Owed(x)' <= Owed(x)
  <2>1. /\ p \in Run /\ UNCHANGED calls
        /\ pc' = [pc EXCEPT ![p] = "extracting"]
        /\ \E S : batch' = [batch EXCEPT ![p] = S]
    BY <1>8 DEF SelectCandidates, StoreStatements, WriteRefused,
       NextCandidate, Goto, Run, history
  <2> QED
    BY <1>1, <2>1 DEF TypeOK
<1>9. CASE Listing \/ Research \/ MatchOrgs \/ Deploy \/ UNCHANGED vars
  <2>1. UNCHANGED <<pc, batch, calls>>
    BY <1>9 DEF Listing, Research, MatchOrgs, Deploy, vars, history
  <2>2. Pending(x)' = Pending(x)
    BY <2>1 DEF Pending, First
  <2> QED
    BY <2>1, <2>2, OwedFalls
<1> QED
  BY <1>2, <1>4, <1>6, <1>7, <1>8, <1>9 DEF Next, ExtractStep

(* What fetches take off the counter is remembered, and nothing else takes *)
(* anything off it.                                                        *)
LEMMA CounterGrows ==
    ASSUME TypeOK, [Next]_vars, NEW r \in ReportId
    PROVE  attempts[r] + undone[r] <= attempts'[r] + undone'[r]
<1>1. attempts[r] \in Nat /\ undone[r] \in Nat
      /\ attempts'[r] \in Nat /\ undone'[r] \in Nat
  BY TypeStep DEF TypeOK
<1>2. ASSUME NEW p \in Fetchers, CommitFetch(p)
      PROVE  undone'[r] = IF attempts[r] > attempts'[r]
                          THEN undone[r] + (attempts[r] - attempts'[r])
                          ELSE undone[r]
  BY <1>2 DEF CommitFetch
<1>3. ASSUME \A p \in Fetchers : ~CommitFetch(p)
      PROVE  undone' = undone /\ attempts'[r] >= attempts[r]
  <2>1. ASSUME NEW p \in Fetchers,
               FetchStep(p) \/ FetchRaises(p) \/ FetcherKilled(p)
        PROVE  UNCHANGED attempts
    BY <1>3, <2>1 DEF FetchStep, SelectUnfetched, FetchOne, FetchRaises,
       FetcherKilled, FetchEnds, reports
  <2>2. ASSUME NEW p \in Extractors, CountAttempt(p)
        PROVE  attempts'[r] \in {attempts[r], attempts[r] + 1}
    BY <2>2 DEF CountAttempt, TypeOK
  <2>3. ASSUME NEW p \in Extractors,
               ExtractStep(p) \/ CallRaises(p) \/ ExtractorKilled(p),
               ~CountAttempt(p)
        PROVE  UNCHANGED attempts
    BY <2>3 DEF ExtractStep, SelectCandidates, ModelAnswers,
       StoreStatements, WriteRefused, NextCandidate, ExtractEnds, CallRaises,
       ExtractorKilled, ExtractOver, reports
  <2>4. ASSUME Listing \/ Research \/ MatchOrgs \/ Deploy \/ UNCHANGED vars
        PROVE  UNCHANGED attempts
    BY <2>4 DEF Listing, Research, MatchOrgs, Deploy, vars, reports
  <2>5. attempts'[r] \in {attempts[r], attempts[r] + 1}
    BY <2>1, <2>2, <2>3, <2>4 DEF Next
  <2> QED
    BY <1>1, <1>3, <2>5, RowsAlone
<1> QED
  BY <1>1, <1>2, <1>3

LEMMA CoveredStep ==
    ASSUME IsFiniteSet(Extractors), TypeOK, CallsAreCovered, [Next]_vars
    PROVE  CallsAreCovered'
<1> SUFFICES ASSUME NEW x \in ReportId
             PROVE  Owed(x)' <= attempts'[x] + undone'[x]
  BY DEF CallsAreCovered
<1>1. /\ Owed(x) <= attempts[x] + undone[x]
      /\ attempts[x] + undone[x] <= attempts'[x] + undone'[x]
      /\ Owed(x) \in Nat /\ Owed(x)' \in Nat
      /\ attempts[x] \in Nat /\ undone[x] \in Nat
      /\ attempts'[x] \in Nat /\ undone'[x] \in Nat
  <2>1. Owed(x) \in Nat
    BY OwedIsNat
  <2>2. TypeOK'
    BY TypeStep
  <2>3. Owed(x)' \in Nat
    <3>1. calls'[x] \in Nat
      BY <2>2 DEF TypeOK
    <3>2. Cardinality(Pending(x)') \in Nat
      <4>1. Pending(x)' \subseteq Extractors
        BY DEF Pending
      <4> QED
        BY <4>1, FS_Subset, FS_CardinalityType
    <3> HIDE DEF Pending
    <3> QED
      BY <3>1, <3>2 DEF Owed
  <2> QED
    BY <2>1, <2>2, <2>3, CounterGrows DEF CallsAreCovered, TypeOK
<1>2. ASSUME NEW p \in Extractors, CountAttempt(p)
      PROVE  Owed(x)' <= attempts'[x] + undone'[x]
  <2>1. PICK r \in ReportId :
          First(p, r) /\ attempts' = [attempts EXCEPT ![r] = @ + 1]
    BY <1>2 DEF CountAttempt
  <2>2. UNCHANGED undone /\ p \in Run
    BY <1>2 DEF CountAttempt, history, Run
  <2>3. Owed(x)' = IF First(p, x) THEN Owed(x) + 1 ELSE Owed(x)
    BY <1>2, CountAttemptOwes
  <2>4. CASE First(p, x)
    <3>1. attempts'[x] = attempts[x] + 1
      BY <2>1, <2>2, <2>4, FirstIsOne DEF TypeOK
    <3> QED
      BY <1>1, <2>2, <2>3, <2>4, <3>1
  <2>5. CASE ~First(p, x)
    BY <1>1, <2>3, <2>5
  <2> QED
    BY <2>4, <2>5
<1>3. CASE \A p \in Extractors : ~CountAttempt(p)
  <2>1. Owed(x)' <= Owed(x)
    BY <1>3, OwedStep
  <2> QED
    BY <1>1, <2>1
<1> QED
  BY <1>2, <1>3

LEMMA OwedInit == ASSUME Init PROVE \A r \in ReportId : Owed(r) = 0
<1> SUFFICES ASSUME NEW r \in ReportId PROVE Owed(r) = 0
  OBVIOUS
<1>1. Pending(r) = {} /\ calls[r] = 0
  BY DEF Init, Pending, Run, Zeros
<1>2. Cardinality(Pending(r)) = 0
  BY <1>1, FS_EmptySet
<1> HIDE DEF Pending
<1> QED
  BY <1>1, <1>2 DEF Owed

(* Every call of the model is on the counter of its report, or was put on  *)
(* it and taken off by a fetch that overlaps, whatever is killed or raises *)
(* between the commit of the attempt and the call.                         *)
THEOREM CountedHolds ==
    ASSUME IsFiniteSet(Extractors)
    PROVE  Spec => []CallsAreCounted
<1>1. Init => CallsAreCovered
  BY OwedInit DEF Init, Zeros, CallsAreCovered
<1>2. TypeOK /\ CallsAreCovered => CallsAreCounted
  <2> SUFFICES ASSUME TypeOK, CallsAreCovered, NEW r \in ReportId
               PROVE  calls[r] <= attempts[r] + undone[r]
    BY DEF CallsAreCounted
  <2>1. /\ calls[r] + Cardinality(Pending(r)) <= attempts[r] + undone[r]
        /\ calls[r] \in Nat /\ attempts[r] \in Nat /\ undone[r] \in Nat
        /\ Cardinality(Pending(r)) \in Nat
    BY PendingFinite DEF CallsAreCovered, TypeOK, Owed
  <2> HIDE DEF Pending
  <2> QED
    BY <2>1
<1> QED
  BY <1>1, <1>2, CoveredStep, TypeCorrect, PTL DEF Spec
-----------------------------------------------------------------------------
(* What a report can cost *)

(* The extractions that have selected r and not yet counted an attempt.    *)
Waiting(r) ==
    {p \in Extractors : r \in batch[p] /\ (pc[p] = "extracting" \/ ~First(p, r))}

(* The fetches that have selected r and not yet committed.                 *)
Fetching(r) == {p \in Fetchers : r \in batch[p] \cup visited[p]}

(* The calls that may still follow one commit of a fetch, and those that   *)
(* may follow as the counter stands: while it is below the cap, everybody  *)
(* may select the report once more.                                        *)
PerFetch == MaxAttempts - 2 + Cardinality(Extractors)

Allowed(r) ==
    IF attempts[r] >= MaxAttempts
    THEN Cardinality(Waiting(r))
    ELSE MaxAttempts - 1 + Cardinality(Extractors) - attempts[r]

(* A report without a body costs nothing.  From its first body on, what it *)
(* owes, what its counter still allows and what the fetches that selected  *)
(* it before then may allow once more stay within one share per fetcher.   *)
PaidFor(r) ==
    IF body[r] = None
    THEN calls[r] = 0
    ELSE Owed(r) + Allowed(r) + Cardinality(Fetching(r)) * PerFetch
            <= Cardinality(Fetchers) * PerFetch

(* A fetch has selected its reports below the cap, and has a text only for *)
(* those it has requested.                                                 *)
FetchBelowCap ==
    \A p \in Fetchers :
        /\ pc[p] = "off" => batch[p] = {} /\ visited[p] = {}
        /\ \A r \in ReportId :
              /\ copy[p][r] # None => r \in visited[p]
              /\ r \in batch[p] \cup visited[p] => snapshot[p][r] < MaxAttempts

LEMMA FetchBelowCapStep == TypeOK /\ FetchBelowCap /\ [Next]_vars => FetchBelowCap'
<1> SUFFICES ASSUME TypeOK, FetchBelowCap, [Next]_vars PROVE FetchBelowCap'
  OBVIOUS
<1> DEFINE Kept(q) == /\ pc[q] = "off" => batch[q] = {} /\ visited[q] = {}
                      /\ \A r \in ReportId :
                            /\ copy[q][r] # None => r \in visited[q]
                            /\ r \in batch[q] \cup visited[q] =>
                                  snapshot[q][r] < MaxAttempts
<1>1. ASSUME NEW q \in Fetchers, pc'[q] = pc[q], batch'[q] = batch[q],
             copy'[q] = copy[q], visited'[q] = visited[q],
             snapshot'[q] = snapshot[q]
      PROVE  Kept(q)'
  BY <1>1 DEF FetchBelowCap
<1>2. ASSUME NEW p \in Fetchers, NEW q \in Fetchers \ {p},
             FetchStep(p) \/ FetchRaises(p) \/ FetcherKilled(p)
      PROVE  Kept(q)'
  <2>1. /\ pc'[q] = pc[q] /\ batch'[q] = batch[q] /\ copy'[q] = copy[q]
        /\ visited'[q] = visited[q] /\ snapshot'[q] = snapshot[q]
    BY <1>2 DEF FetchStep, SelectUnfetched, FetchOne, CommitFetch,
       FetchRaises, FetcherKilled, FetchEnds, Finished, Goto, TypeOK, Run
  <2> QED
    BY <1>1, <2>1
<1>3. ASSUME NEW p \in Fetchers, SelectUnfetched(p) PROVE Kept(p)'
  <2>1. /\ p \in Run /\ pc[p] = "off" /\ pc'[p] # "off"
        /\ batch'[p] = FirstOf(Fetchable, RunLimit)
        /\ snapshot'[p] = attempts
        /\ UNCHANGED <<copy, visited>>
    BY <1>3 DEF SelectUnfetched, Goto, TypeOK, Run
  <2>2. \A r \in FirstOf(Fetchable, RunLimit) : attempts[r] < MaxAttempts
    BY CandidatesAreReports DEF Fetchable
  <2> QED
    BY <2>1, <2>2 DEF FetchBelowCap
<1>4. ASSUME NEW p \in Fetchers, NEW text \in Text \cup {None}, FetchOne(p, text)
      PROVE  Kept(p)'
  <2>1. PICK r \in ReportId :
          /\ r \in batch[p] /\ pc[p] = "fetching"
          /\ batch' = [batch EXCEPT ![p] = @ \ {r}]
          /\ visited' = [visited EXCEPT ![p] = @ \cup {r}]
          /\ copy' = [copy EXCEPT ![p][r] = text]
    BY <1>4 DEF FetchOne, Requested, First
  <2>2. UNCHANGED <<pc, snapshot>> /\ p \in Run
    BY <1>4 DEF FetchOne, Run
  <2>3. batch'[p] = batch[p] \ {r} /\ visited'[p] = visited[p] \cup {r}
    BY <2>1, <2>2 DEF TypeOK
  <2>4. \A x \in ReportId : x # r => copy'[p][x] = copy[p][x]
    BY <2>1, <2>2 DEF TypeOK
  <2> QED
    BY <2>1, <2>2, <2>3, <2>4 DEF FetchBelowCap
<1>5. ASSUME NEW p \in Fetchers,
             CommitFetch(p) \/ FetchRaises(p) \/ FetcherKilled(p)
      PROVE  Kept(p)'
  <2>1. batch'[p] = {} /\ visited'[p] = {} /\ copy'[p] = Nothing
    BY <1>5 DEF CommitFetch, FetchRaises, FetcherKilled, FetchEnds, Finished,
       TypeOK, Run
  <2> QED
    BY <2>1 DEF Nothing
<1>6. ASSUME NEW p \in Extractors,
             ExtractStep(p) \/ CallRaises(p) \/ ExtractorKilled(p),
             NEW q \in Fetchers
      PROVE  Kept(q)'
  <2>1. /\ p \in Run /\ q \in Run /\ q # p /\ UNCHANGED <<visited, snapshot>>
    BY <1>6, ConstantsAssumption DEF ExtractStep, SelectCandidates,
       CountAttempt, ModelAnswers, StoreStatements, WriteRefused,
       NextCandidate, ExtractEnds, CallRaises, ExtractorKilled, ExtractOver,
       fetching, Run
  <2>2. pc'[q] = pc[q] /\ batch'[q] = batch[q] /\ copy'[q] = copy[q]
    BY <1>6, <2>1 DEF ExtractStep, SelectCandidates, CountAttempt,
       ModelAnswers, StoreStatements, WriteRefused, NextCandidate,
       ExtractEnds, CallRaises, ExtractorKilled, ExtractOver, Finished, Goto,
       TypeOK
  <2> QED
    BY <1>1, <2>1, <2>2
<1>7. ASSUME Listing \/ Research \/ MatchOrgs \/ Deploy \/ UNCHANGED vars,
             NEW q \in Fetchers
      PROVE  Kept(q)'
  BY <1>1, <1>7 DEF Listing, Research, MatchOrgs, Deploy, vars, fetching
<1>8. \A q \in Fetchers : Kept(q)'
  BY <1>2, <1>3, <1>4, <1>5, <1>6, <1>7 DEF Next, FetchStep
<1> QED
  BY <1>8 DEF FetchBelowCap

LEMMA CountsAreNat ==
    ASSUME IsFiniteSet(Fetchers), IsFiniteSet(Extractors), Extractors # {},
           MaxAttempts >= 2
    PROVE  /\ MaxAttempts \in Nat /\ PerFetch \in Nat
           /\ Cardinality(Extractors) \in Nat /\ Cardinality(Extractors) >= 1
           /\ Cardinality(Fetchers) \in Nat
           /\ \A r : /\ IsFiniteSet(Waiting(r)) /\ IsFiniteSet(Fetching(r))
                     /\ Cardinality(Waiting(r)) \in Nat
                     /\ Cardinality(Waiting(r)) <= Cardinality(Extractors)
                     /\ Cardinality(Fetching(r)) \in Nat
                     /\ Cardinality(Fetching(r)) <= Cardinality(Fetchers)
<1>1. /\ Cardinality(Extractors) \in Nat /\ Cardinality(Extractors) >= 1
      /\ Cardinality(Fetchers) \in Nat
  BY FS_CardinalityType, FS_EmptySet
<1>2. MaxAttempts \in Nat /\ PerFetch \in Nat
  BY <1>1, ConstantsAssumption DEF PerFetch
<1>3. ASSUME NEW r
      PROVE  /\ IsFiniteSet(Waiting(r)) /\ IsFiniteSet(Fetching(r))
             /\ Cardinality(Waiting(r)) \in Nat
             /\ Cardinality(Waiting(r)) <= Cardinality(Extractors)
             /\ Cardinality(Fetching(r)) \in Nat
             /\ Cardinality(Fetching(r)) <= Cardinality(Fetchers)
  <2>1. Waiting(r) \subseteq Extractors /\ Fetching(r) \subseteq Fetchers
    BY DEF Waiting, Fetching
  <2> QED
    BY <2>1, FS_Subset, FS_CardinalityType
<1> QED
  BY <1>1, <1>2, <1>3

LEMMA AllowedIsNat ==
    ASSUME IsFiniteSet(Fetchers), IsFiniteSet(Extractors), Extractors # {},
           MaxAttempts >= 2, TypeOK, NEW r \in ReportId
    PROVE  Allowed(r) \in Nat
<1>1. /\ MaxAttempts \in Nat /\ Cardinality(Extractors) \in Nat
      /\ Cardinality(Extractors) >= 1
      /\ Cardinality(Waiting(r)) \in Nat /\ attempts[r] \in Nat
  BY CountsAreNat DEF TypeOK
<1> HIDE DEF Waiting
<1> QED
  BY <1>1 DEF Allowed

LEMMA ShareIsMonotone ==
    ASSUME NEW a \in Nat, NEW b \in Nat, NEW n \in Nat, a <= b
    PROVE  a * n <= b * n
<1>1. PICK d \in Nat : b = a + d
  <2>1. b - a \in Nat /\ b = a + (b - a)
    OBVIOUS
  <2> QED
    BY <2>1
<1>2. b * n = a * n + d * n /\ d * n \in Nat /\ a * n \in Nat
  BY <1>1
<1> QED
  BY <1>2

(* The step does not move the counter of r, and nobody joins anything.     *)
LEMMA PaidForKept ==
    ASSUME IsFiniteSet(Fetchers), IsFiniteSet(Extractors), Extractors # {},
           MaxAttempts >= 2, TypeOK, TypeOK', NEW r \in ReportId, PaidFor(r),
           body'[r] = body[r], attempts'[r] = attempts[r],
           body[r] = None => calls'[r] = calls[r],
           Owed(r)' <= Owed(r),
           body[r] # None => Fetching(r)' \subseteq Fetching(r),
           Waiting(r)' \subseteq Waiting(r) \/ attempts[r] < MaxAttempts
    PROVE  PaidFor(r)'
<1>1. CASE body[r] = None
  BY <1>1 DEF PaidFor
<1>2. CASE body[r] # None
  <2>1. Allowed(r) \in Nat
    BY AllowedIsNat
  <2>2. Allowed(r)' <= Allowed(r) /\ Allowed(r)' \in Nat
    <3>1. CASE attempts[r] >= MaxAttempts
      <4>1. attempts[r] \in Nat /\ MaxAttempts \in Nat
        BY ConstantsAssumption DEF TypeOK
      <4>2. Waiting(r)' \subseteq Waiting(r)
        BY <3>1, <4>1
      <4>3. IsFiniteSet(Waiting(r))
        BY CountsAreNat
      <4>4. /\ Cardinality(Waiting(r)') <= Cardinality(Waiting(r))
            /\ Cardinality(Waiting(r)') \in Nat
        BY <4>2, <4>3, FS_Subset, FS_CardinalityType
      <4> HIDE DEF Waiting
      <4> QED
        BY <3>1, <4>4 DEF Allowed
    <3>2. CASE ~(attempts[r] >= MaxAttempts)
      <4>1. Allowed(r)' = Allowed(r)
        BY <3>2 DEF Allowed
      <4>2. \A n \in Nat : n <= n
        OBVIOUS
      <4> QED
        BY <2>1, <4>1, <4>2
    <3> QED
      BY <3>1, <3>2
  <2>3. /\ Cardinality(Fetching(r)') \in Nat /\ Cardinality(Fetching(r)) \in Nat
        /\ Cardinality(Fetching(r)') <= Cardinality(Fetching(r))
    <3>1. IsFiniteSet(Fetching(r)) /\ Fetching(r)' \subseteq Fetching(r)
      BY <1>2, CountsAreNat
    <3> QED
      BY <3>1, FS_Subset, FS_CardinalityType
  <2>4. PerFetch \in Nat /\ Cardinality(Fetchers) \in Nat
    BY CountsAreNat
  <2>5. Cardinality(Fetching(r)') * PerFetch <= Cardinality(Fetching(r)) * PerFetch
    BY <2>3, <2>4, ShareIsMonotone
  <2>6. Owed(r) + Allowed(r) + Cardinality(Fetching(r)) * PerFetch
           <= Cardinality(Fetchers) * PerFetch
    BY <1>2 DEF PaidFor
  <2>7. /\ Owed(r) \in Nat /\ Owed(r)' \in Nat
        /\ Cardinality(Fetching(r)') * PerFetch \in Nat
        /\ Cardinality(Fetching(r)) * PerFetch \in Nat
        /\ Cardinality(Fetchers) * PerFetch \in Nat
    <3>1. Owed(r) \in Nat
      BY OwedIsNat
    <3>2. Owed(r)' \in Nat
      <4>1. calls'[r] \in Nat
        BY DEF TypeOK
      <4>2. Cardinality(Pending(r)') \in Nat
        <5>1. Pending(r)' \subseteq Extractors
          BY DEF Pending
        <5> QED
          BY <5>1, FS_Subset, FS_CardinalityType
      <4> HIDE DEF Pending
      <4> QED
        BY <4>1, <4>2 DEF Owed
    <3>3. \A a, b \in Nat : a * b \in Nat
      OBVIOUS
    <3> QED
      BY <2>3, <2>4, <3>1, <3>2, <3>3
  <2>8. Owed(r)' + Allowed(r)' + Cardinality(Fetching(r)') * PerFetch
           <= Cardinality(Fetchers) * PerFetch
    <3> DEFINE a == Cardinality(Fetching(r)') * PerFetch
               b == Cardinality(Fetching(r)) * PerFetch
               n == Cardinality(Fetchers) * PerFetch
               o == Owed(r)
               oo == Owed(r)'
               l == Allowed(r)
               ll == Allowed(r)'
    <3>1. /\ a \in Nat /\ b \in Nat /\ n \in Nat /\ o \in Nat /\ oo \in Nat
          /\ l \in Nat /\ ll \in Nat
          /\ a <= b /\ oo <= o /\ ll <= l /\ o + l + b <= n
      BY <2>1, <2>2, <2>5, <2>6, <2>7
    <3> HIDE DEF a, b, n, o, oo, l, ll
    <3>2. oo + ll + a <= n
      BY <3>1
    <3> QED
      BY <3>2 DEF a, n, oo, ll
  <2> QED
    BY <1>2, <2>8 DEF PaidFor
<1> QED
  BY <1>1, <1>2

(* One commit of a fetch gives away its share, however far it sets the     *)
(* counter back: it was read below the cap, and comes back as at least 1.  *)
LEMMA CommitFetchPaid ==
    ASSUME IsFiniteSet(Fetchers), IsFiniteSet(Extractors), Extractors # {},
           MaxAttempts >= 2, TypeOK, TypeOK', Reading, FetchBelowCap,
           NEW r \in ReportId, PaidFor(r), NEW p \in Fetchers, CommitFetch(p)
    PROVE  PaidFor(r)'
<1>1. /\ p \in Run /\ pc[p] = "fetching" /\ batch[p] = {} /\ UNCHANGED calls
      /\ batch'[p] = {} /\ visited'[p] = {}
      /\ \A q \in Run \ {p} : pc'[q] = pc[q] /\ batch'[q] = batch[q]
      /\ \A q \in Fetchers \ {p} : visited'[q] = visited[q]
  BY DEF CommitFetch, Finished, Goto, TypeOK, Run
<1>2. \A q \in Extractors : pc'[q] = pc[q] /\ batch'[q] = batch[q]
  BY <1>1, ConstantsAssumption DEF Run
<1>3. Waiting(r)' = Waiting(r) /\ Pending(r)' = Pending(r)
  BY <1>2 DEF Waiting, Pending, First
<1>4. Owed(r)' = Owed(r) /\ Owed(r) \in Nat
  BY <1>1, <1>3, OwedIsNat DEF Owed
<1>5. Fetching(r)' = Fetching(r) \ {p}
  BY <1>1 DEF Fetching, Run
<1>6. /\ attempts'[r] = IF r \in visited[p] THEN snapshot[p][r] + 1
                                            ELSE attempts[r]
      /\ body'[r] = IF copy[p][r] # None THEN copy[p][r] ELSE body[r]
  BY DEF CommitFetch
<1>7. CASE r \notin visited[p]
  <2>1. body'[r] = body[r] /\ attempts'[r] = attempts[r]
    BY <1>6, <1>7 DEF FetchBelowCap
  <2>2. \A n \in Nat : n <= n
    OBVIOUS
  <2> QED
    BY <1>1, <1>3, <1>4, <1>5, <2>1, <2>2, PaidForKept
<1>8. CASE r \in visited[p]
  <2>1. /\ attempts'[r] \in Nat /\ MaxAttempts \in Nat
        /\ attempts'[r] >= 1 /\ attempts'[r] <= MaxAttempts
    BY <1>6, <1>8, ConstantsAssumption DEF FetchBelowCap, TypeOK
  <2>2. CASE body'[r] = None
    BY <1>1, <2>2, CommitFetchRows DEF PaidFor
  <2>3. CASE body'[r] # None
    <3> DEFINE all == Cardinality(Fetchers)
               some == Cardinality(Fetching(r))
    <3>1. /\ all \in Nat /\ some \in Nat /\ some <= all /\ PerFetch \in Nat
          /\ Cardinality(Extractors) \in Nat /\ Cardinality(Extractors) >= 1
          /\ Cardinality(Waiting(r)) \in Nat
          /\ Cardinality(Waiting(r)) <= Cardinality(Extractors)
      BY CountsAreNat
    <3>2. Cardinality(Fetching(r)') = some - 1
      <4>1. p \in Fetching(r) /\ IsFiniteSet(Fetching(r))
        BY <1>8, CountsAreNat DEF Fetching
      <4> QED
        BY <1>5, <4>1, FS_RemoveElement
    <3>3. some * PerFetch <= all * PerFetch
      BY <3>1, ShareIsMonotone
    <3>4. some * PerFetch \in Nat /\ all * PerFetch \in Nat
      <4>1. \A a, b \in Nat : a * b \in Nat
        OBVIOUS
      <4> QED
        BY <3>1, <4>1
    <3>5. Owed(r) + some * PerFetch <= all * PerFetch
      <4>1. CASE body[r] = None
        <5>1. Pending(r) = {} /\ calls[r] = 0
          BY <4>1 DEF Pending, First, Reading, CopiesAreHeld, PaidFor
        <5>2. Cardinality(Pending(r)) = 0
          BY <5>1, FS_EmptySet
        <5>3. Owed(r) = 0
          <6> HIDE DEF Pending
          <6> QED
            BY <5>1, <5>2 DEF Owed
        <5> QED
          BY <3>3, <3>4, <5>3
      <4>2. CASE body[r] # None
        <5>1. Owed(r) + Allowed(r) + some * PerFetch <= all * PerFetch
          BY <4>2 DEF PaidFor
        <5>2. Allowed(r) \in Nat
          BY AllowedIsNat
        <5> QED
          BY <1>4, <3>4, <5>1, <5>2
      <4> QED
        BY <4>1, <4>2
    <3>6. Allowed(r)' <= PerFetch /\ Allowed(r)' \in Nat
      <4>1. Allowed(r)' = IF attempts'[r] >= MaxAttempts
              THEN Cardinality(Waiting(r))
              ELSE MaxAttempts - 1 + Cardinality(Extractors) - attempts'[r]
        BY <1>3 DEF Allowed
      <4> HIDE DEF Waiting
      <4> QED
        BY <2>1, <3>1, <4>1 DEF PerFetch
    <3>7. (some - 1) * PerFetch = some * PerFetch - PerFetch
      <4>1. \A a, b \in Nat : (a - 1) * b = a * b - b
        OBVIOUS
      <4> QED
        BY <3>1, <4>1
    <3>8. Owed(r)' + Allowed(r)' + (some - 1) * PerFetch <= all * PerFetch
      <4> DEFINE s == some * PerFetch
                 l == Allowed(r)'
                 o == Owed(r)
                 n == all * PerFetch
                 f == PerFetch
      <4>1. /\ s \in Nat /\ l \in Nat /\ o \in Nat /\ n \in Nat /\ f \in Nat
            /\ o + s <= n /\ l <= f
        BY <1>4, <3>1, <3>4, <3>5, <3>6
      <4> HIDE DEF s, l, o, n, f
      <4>2. o + l + (s - f) <= n
        BY <4>1
      <4> QED
        BY <1>4, <3>7, <4>2 DEF s, l, o, n, f
    <3> QED
      BY <2>3, <3>2, <3>8 DEF PaidFor
  <2> QED
    BY <2>2, <2>3
<1> QED
  BY <1>7, <1>8

(* An attempt is counted for a call that is owed from then on.             *)
LEMMA CountAttemptPaid ==
    ASSUME IsFiniteSet(Fetchers), IsFiniteSet(Extractors), Extractors # {},
           MaxAttempts >= 2, TypeOK, TypeOK', Reading,
           NEW r \in ReportId, PaidFor(r), NEW p \in Extractors, CountAttempt(p)
    PROVE  PaidFor(r)'
<1>1. PICK x \in ReportId :
        First(p, x) /\ attempts' = [attempts EXCEPT ![x] = @ + 1]
  BY DEF CountAttempt
<1>2. /\ p \in Run /\ pc[p] = "extracting"
      /\ pc' = [pc EXCEPT ![p] = "calling"]
      /\ UNCHANGED <<body, batch, visited, calls>>
  BY DEF CountAttempt, Goto, Run, fetching, history
<1>3. Fetching(r)' = Fetching(r)
  BY <1>2 DEF Fetching
<1>4. Owed(r)' = IF First(p, r) THEN Owed(r) + 1 ELSE Owed(r)
  BY CountAttemptOwes
<1>5. Owed(r) \in Nat
  BY OwedIsNat
<1>6. CASE ~First(p, r)
  <2>1. attempts'[r] = attempts[r]
    BY <1>1, <1>6 DEF TypeOK
  <2>2. Waiting(r)' \subseteq Waiting(r)
    BY <1>2 DEF Waiting, First, TypeOK, Run
  <2>3. Owed(r)' <= Owed(r)
    BY <1>4, <1>5, <1>6
  <2> QED
    BY <1>2, <1>3, <2>1, <2>2, <2>3, PaidForKept
<1>7. CASE First(p, r)
  <2>1. body[r] # None /\ r = x
    BY <1>1, <1>2, <1>7, FirstIsOne DEF First, Reading, CopiesAreHeld
  <2>2. attempts'[r] = attempts[r] + 1 /\ attempts[r] \in Nat
    BY <1>1, <2>1 DEF TypeOK
  <2>3. p \in Waiting(r) /\ Waiting(r)' = Waiting(r) \ {p}
    BY <1>2, <1>7 DEF Waiting, First, TypeOK, Run
  <2>4. /\ Cardinality(Waiting(r)) \in Nat /\ MaxAttempts \in Nat
        /\ Cardinality(Waiting(r)) <= Cardinality(Extractors)
        /\ Cardinality(Extractors) \in Nat /\ IsFiniteSet(Waiting(r))
    BY CountsAreNat
  <2>5. Cardinality(Waiting(r)') = Cardinality(Waiting(r)) - 1
    BY <2>3, <2>4, FS_RemoveElement
  <2>6. Allowed(r)' <= Allowed(r) - 1
    <3> HIDE DEF Waiting
    <3> QED
      BY <2>2, <2>4, <2>5 DEF Allowed
  <2>7. Owed(r) + Allowed(r) + Cardinality(Fetching(r)) * PerFetch
           <= Cardinality(Fetchers) * PerFetch
    BY <2>1 DEF PaidFor
  <2>8. /\ Cardinality(Fetching(r)) * PerFetch \in Nat
        /\ Cardinality(Fetchers) * PerFetch \in Nat
    <3>1. \A a, b \in Nat : a * b \in Nat
      OBVIOUS
    <3> QED
      BY <3>1, CountsAreNat
  <2>9. Allowed(r) \in Nat /\ Allowed(r)' \in Nat
    <3>1. Allowed(r) \in Nat
      BY AllowedIsNat
    <3>2. Allowed(r)' \in Int
      <4>1. Cardinality(Waiting(r)') \in Int
        BY <2>4, <2>5
      <4> HIDE DEF Waiting
      <4> QED
        BY <2>2, <2>4, <4>1 DEF Allowed
    <3>3. Allowed(r)' >= 0
      <4>1. Cardinality(Waiting(r)') \in Nat
        BY <2>3, <2>4, FS_RemoveElement, FS_CardinalityType
      <4>2. Cardinality(Extractors) >= 1
        BY CountsAreNat
      <4> HIDE DEF Waiting
      <4> QED
        BY <2>2, <2>4, <4>1, <4>2 DEF Allowed
    <3> QED
      BY <3>1, <3>2, <3>3
  <2>10. Owed(r)' + Allowed(r)' + Cardinality(Fetching(r)) * PerFetch
            <= Cardinality(Fetchers) * PerFetch
    <3> DEFINE s == Cardinality(Fetching(r)) * PerFetch
               n == Cardinality(Fetchers) * PerFetch
               o == Owed(r)
               l == Allowed(r)
               ll == Allowed(r)'
    <3>1. /\ s \in Nat /\ n \in Nat /\ o \in Nat /\ l \in Nat /\ ll \in Nat
          /\ ll <= l - 1 /\ o + l + s <= n
      BY <1>5, <2>6, <2>7, <2>8, <2>9
    <3> HIDE DEF s, n, o, l, ll
    <3>2. (o + 1) + ll + s <= n
      BY <3>1
    <3> QED
      BY <1>4, <1>7, <3>2 DEF s, n, o, ll
  <2> QED
    BY <1>2, <1>3, <2>1, <2>10 DEF PaidFor
<1> QED
  BY <1>6, <1>7

(* Where an extraction joins the waiting ones of a report, the counter is  *)
(* below the cap.                                                          *)
LEMMA WaitingStep ==
    ASSUME TypeOK, NEW p \in Extractors,
           ExtractStep(p) \/ CallRaises(p) \/ ExtractorKilled(p),
           ~CountAttempt(p), NEW r \in ReportId
    PROVE  Waiting(r)' \subseteq Waiting(r) \/ attempts[r] < MaxAttempts
<1> p \in Run
  BY DEF Run
<1>1. ASSUME NEW claims \in SUBSET Claim, NEW cost \in Cost,
             ModelAnswers(p, claims, cost)
      PROVE  Waiting(r)' \subseteq Waiting(r)
  <2>1. /\ UNCHANGED batch /\ pc[p] = "calling"
        /\ pc' = [pc EXCEPT ![p] = "writing"]
    BY <1>1 DEF ModelAnswers, Called, Goto
  <2> QED
    BY <2>1 DEF Waiting, First, TypeOK, Run
<1>2. CASE SelectCandidates(p)
  <2>1. /\ pc' = [pc EXCEPT ![p] = "extracting"]
        /\ batch' = [batch EXCEPT ![p] =
                        FirstOf(Extractable(version), RunLimit)]
    BY <1>2 DEF SelectCandidates, Goto
  <2>2. CASE r \in FirstOf(Extractable(version), RunLimit)
    BY <2>2 DEF FirstOf, Extractable
  <2>3. CASE r \notin FirstOf(Extractable(version), RunLimit)
    BY <2>1, <2>3 DEF Waiting, First, TypeOK, Run
  <2> QED
    BY <2>2, <2>3
<1>3. ASSUME StoreStatements(p) \/ WriteRefused(p)
      PROVE  Waiting(r)' \subseteq Waiting(r)
  <2>1. /\ pc[p] = "writing"
        /\ pc' = [pc EXCEPT ![p] = "extracting"]
        /\ batch' = [batch EXCEPT ![p] = {x \in @ : ~First(p, x)}]
    BY <1>3 DEF StoreStatements, WriteRefused, NextCandidate, Goto
  <2> QED
    BY <2>1 DEF Waiting, First, TypeOK
<1>4. ASSUME ExtractEnds(p) \/ CallRaises(p) \/ ExtractorKilled(p)
      PROVE  Waiting(r)' \subseteq Waiting(r)
  <2>1. /\ batch' = [batch EXCEPT ![p] = {}]
        /\ pc' = [pc EXCEPT ![p] = "off"]
    BY <1>4 DEF ExtractEnds, CallRaises, ExtractorKilled, ExtractOver,
       Finished, Goto
  <2> QED
    BY <2>1 DEF Waiting, First, TypeOK, Run
<1> QED
  BY <1>1, <1>2, <1>3, <1>4 DEF ExtractStep

LEMMA PaidStep ==
    ASSUME IsFiniteSet(Fetchers), IsFiniteSet(Extractors), Extractors # {},
           MaxAttempts >= 2, TypeOK, Reading, FetchBelowCap,
           \A r \in ReportId : PaidFor(r), [Next]_vars
    PROVE  \A r \in ReportId : PaidFor(r)'
<1> SUFFICES ASSUME NEW r \in ReportId PROVE PaidFor(r)'
  OBVIOUS
<1>1. TypeOK'
  BY TypeStep
<1>2. CASE \E p \in Extractors : CountAttempt(p)
  BY <1>1, <1>2, CountAttemptPaid
<1>3. CASE \A p \in Extractors : ~CountAttempt(p)
  <2>1. Owed(r)' <= Owed(r)
    BY <1>3, OwedStep
  <2>2. ASSUME NEW p \in Fetchers,
               FetchStep(p) \/ FetchRaises(p) \/ FetcherKilled(p),
               ~CommitFetch(p)
        PROVE  PaidFor(r)'
    <3>1. UNCHANGED <<body, attempts, calls>>
      BY <2>2 DEF FetchStep, SelectUnfetched, FetchOne, FetchRaises,
         FetcherKilled, FetchEnds, reports, history
    <3>2. \A q \in Extractors : pc'[q] = pc[q] /\ batch'[q] = batch[q]
      BY <2>2, ConstantsAssumption DEF FetchStep, SelectUnfetched, FetchOne,
         FetchRaises, FetcherKilled, FetchEnds, Finished, Goto, TypeOK, Run
    <3>3. Waiting(r)' = Waiting(r)
      BY <3>2 DEF Waiting, First
    <3>4. \A q \in Fetchers \ {p} :
             batch'[q] = batch[q] /\ visited'[q] = visited[q]
      BY <2>2 DEF FetchStep, SelectUnfetched, FetchOne, FetchRaises,
         FetcherKilled, FetchEnds, Finished, TypeOK, Run
    <3>5. body[r] # None /\ r \in batch'[p] \cup visited'[p]
             => r \in batch[p] \cup visited[p]
      <4>1. CASE SelectUnfetched(p)
        <5>1. /\ batch'[p] = FirstOf(Fetchable, RunLimit)
              /\ UNCHANGED visited
          BY <4>1 DEF SelectUnfetched, TypeOK, Run
        <5>2. \A x \in FirstOf(Fetchable, RunLimit) : body[x] = None
          BY CandidatesAreReports DEF Fetchable
        <5> QED
          BY <5>1, <5>2
      <4>2. ASSUME NEW text \in Text \cup {None}, FetchOne(p, text)
            PROVE  batch'[p] \cup visited'[p] \subseteq batch[p] \cup visited[p]
        <5>1. PICK x \in batch[p] :
                /\ batch' = [batch EXCEPT ![p] = @ \ {x}]
                /\ visited' = [visited EXCEPT ![p] = @ \cup {x}]
          BY <4>2 DEF FetchOne, Requested, First
        <5> QED
          BY <5>1 DEF TypeOK, Run
      <4>3. CASE FetchRaises(p) \/ FetcherKilled(p)
        <5>1. batch'[p] = {} /\ visited'[p] = {}
          BY <4>3 DEF FetchRaises, FetcherKilled, FetchEnds, Finished, TypeOK, Run
        <5> QED
          BY <5>1
      <4> QED
        BY <2>2, <4>1, <4>2, <4>3 DEF FetchStep
    <3>6. body[r] # None => Fetching(r)' \subseteq Fetching(r)
      BY <3>4, <3>5 DEF Fetching
    <3> QED
      BY <1>1, <2>1, <3>1, <3>3, <3>6, PaidForKept
  <2>3. ASSUME NEW p \in Fetchers, CommitFetch(p) PROVE PaidFor(r)'
    BY <1>1, <2>3, CommitFetchPaid
  <2>4. ASSUME NEW p \in Extractors,
               ExtractStep(p) \/ CallRaises(p) \/ ExtractorKilled(p)
        PROVE  PaidFor(r)'
    <3>1. UNCHANGED <<body, attempts, visited>>
      BY <1>3, <2>4 DEF ExtractStep, SelectCandidates, ModelAnswers,
         StoreStatements, WriteRefused, NextCandidate, ExtractEnds,
         CallRaises, ExtractorKilled, ExtractOver, reports, fetching
    <3>2. \A q \in Fetchers : batch'[q] = batch[q]
      BY <1>3, <2>4, ConstantsAssumption DEF ExtractStep, SelectCandidates,
         ModelAnswers, StoreStatements, WriteRefused, NextCandidate,
         ExtractEnds, CallRaises, ExtractorKilled, ExtractOver, Finished,
         TypeOK, Run
    <3>3. Fetching(r)' = Fetching(r)
      BY <3>1, <3>2 DEF Fetching
    <3>4. body[r] = None => calls'[r] = calls[r]
      <4>1. calls' = calls \/ Called(p)
        BY <1>3, <2>4 DEF ExtractStep, SelectCandidates, ModelAnswers,
           StoreStatements, WriteRefused, NextCandidate, ExtractEnds,
           CallRaises, ExtractorKilled, history
      <4> QED
        BY <4>1 DEF Called, First, Reading, CopiesAreHeld, TypeOK
    <3>5. Waiting(r)' \subseteq Waiting(r) \/ attempts[r] < MaxAttempts
      BY <1>3, <2>4, WaitingStep
    <3> QED
      BY <1>1, <2>1, <3>1, <3>3, <3>4, <3>5, PaidForKept
  <2>5. CASE Listing \/ Research \/ MatchOrgs \/ Deploy \/ UNCHANGED vars
    <3>1. UNCHANGED <<pc, batch, visited, body, attempts, calls>>
      BY <2>5 DEF Listing, Research, MatchOrgs, Deploy, vars, reports,
         fetching, history
    <3>2. Waiting(r)' = Waiting(r) /\ Fetching(r)' = Fetching(r)
      BY <3>1 DEF Waiting, Fetching, First
    <3> QED
      BY <1>1, <2>1, <3>1, <3>2, PaidForKept
  <2> QED
    BY <2>2, <2>3, <2>4, <2>5 DEF Next
<1> QED
  BY <1>2, <1>3

(* A report costs at most one share per fetcher: the attempts that a fetch *)
(* has left, and one call for each other extraction that had selected it   *)
(* below the cap.                                                          *)
THEOREM BoundedHolds ==
    ASSUME IsFiniteSet(Fetchers), IsFiniteSet(Extractors), Extractors # {},
           MaxAttempts >= 2
    PROVE  Spec => []CallsAreBounded
<1> DEFINE Paid == \A r \in ReportId : PaidFor(r)
<1>1. Init => Paid /\ FetchBelowCap
  BY DEF Init, PaidFor, FetchBelowCap, Zeros, Nothing, Run
<1>2. TypeOK /\ Reading /\ FetchBelowCap /\ Paid /\ [Next]_vars => Paid'
  BY PaidStep
<1>3. TypeOK /\ Paid => CallsAreBounded
  <2> SUFFICES ASSUME TypeOK, Paid, NEW r \in ReportId
               PROVE  calls[r] <= Cardinality(Fetchers)
                         * ((MaxAttempts - 1) + (Cardinality(Extractors) - 1))
    BY DEF CallsAreBounded
  <2>1. /\ Cardinality(Fetchers) \in Nat /\ PerFetch \in Nat
        /\ Cardinality(Fetching(r)) \in Nat /\ MaxAttempts \in Nat
        /\ Cardinality(Extractors) \in Nat
    BY CountsAreNat
  <2>2. PerFetch = (MaxAttempts - 1) + (Cardinality(Extractors) - 1)
    BY <2>1 DEF PerFetch
  <2>3. \A a, b \in Nat : a * b \in Nat
    OBVIOUS
  <2>4. /\ Cardinality(Fetchers) * PerFetch \in Nat
        /\ Cardinality(Fetching(r)) * PerFetch \in Nat
    BY <2>1, <2>3
  <2>5. calls[r] <= Cardinality(Fetchers) * PerFetch
    <3>1. CASE body[r] = None
      BY <2>4, <3>1 DEF PaidFor
    <3>2. CASE body[r] # None
      <4>1. Owed(r) + Allowed(r) + Cardinality(Fetching(r)) * PerFetch
               <= Cardinality(Fetchers) * PerFetch
        BY <3>2 DEF PaidFor
      <4>2. /\ Allowed(r) \in Nat /\ Owed(r) \in Nat
        BY AllowedIsNat, OwedIsNat
      <4>3. calls[r] <= Owed(r) /\ calls[r] \in Nat
        <5>1. calls[r] \in Nat /\ Cardinality(Pending(r)) \in Nat
          BY PendingFinite DEF TypeOK
        <5> HIDE DEF Pending
        <5> QED
          BY <5>1 DEF Owed
      <4> DEFINE s == Cardinality(Fetching(r)) * PerFetch
                 n == Cardinality(Fetchers) * PerFetch
                 o == Owed(r)
                 l == Allowed(r)
      <4>4. /\ s \in Nat /\ n \in Nat /\ o \in Nat /\ l \in Nat
            /\ o + l + s <= n
        BY <2>4, <4>1, <4>2
      <4>5. calls[r] <= o
        BY <4>3
      <4> HIDE DEF s, n, o, l
      <4>6. calls[r] <= n
        BY <4>3, <4>4, <4>5
      <4> QED
        BY <4>6 DEF n
    <3> QED
      BY <3>1, <3>2
  <2> QED
    BY <2>2, <2>5
<1> QED
  BY <1>1, <1>2, <1>3, FetchBelowCapStep, TypeCorrect, ReadingInit,
     ReadingStep, PTL DEF Spec
-----------------------------------------------------------------------------
(* What is promised to whoever checks a statement *)

(* A run that has selected its candidates knows which prompt it runs with. *)
PromptIsKnown ==
    \A p \in Extractors :
        pc[p] \in {"extracting", "calling", "writing"} => using[p] \in Prompt

LEMMA PromptIsKnownStep ==
    ASSUME TypeOK, PromptIsKnown, [Next]_vars
    PROVE  PromptIsKnown'
<1>1. ASSUME UNCHANGED using, \A q \in Extractors : pc'[q] = pc[q]
      PROVE  PromptIsKnown'
  BY <1>1 DEF PromptIsKnown
<1>2. ASSUME NEW p \in Fetchers,
             FetchStep(p) \/ FetchRaises(p) \/ FetcherKilled(p)
      PROVE  PromptIsKnown'
  <2>1. UNCHANGED using /\ (UNCHANGED pc \/ \E loc : Goto(p, loc))
    BY <1>2 DEF FetchStep, SelectUnfetched, FetchOne, CommitFetch,
       FetchRaises, FetcherKilled, FetchEnds, extracting
  <2> QED
    BY <1>1, <2>1, ConstantsAssumption DEF Goto, TypeOK, Run
<1>3. ASSUME NEW p \in Extractors, NEW loc, Goto(p, loc), UNCHANGED using,
             pc[p] # "off" /\ pc[p] # "fetching"
      PROVE  PromptIsKnown'
  BY <1>3 DEF Goto, TypeOK, Run, Location, PromptIsKnown
<1>4. ASSUME NEW p \in Extractors, SelectCandidates(p) PROVE PromptIsKnown'
  BY <1>4 DEF SelectCandidates, Goto, TypeOK, Run, PromptIsKnown
<1>5. ASSUME NEW p \in Extractors, ExtractOver(p) PROVE PromptIsKnown'
  BY <1>5 DEF ExtractOver, Goto, TypeOK, Run, PromptIsKnown
<1>6. ASSUME NEW p \in Extractors, ExtractStep(p) PROVE PromptIsKnown'
  <2>1. ASSUME NEW claims \in SUBSET Claim, NEW cost \in Cost,
               ModelAnswers(p, claims, cost)
        PROVE  PromptIsKnown'
    BY <1>3, <2>1 DEF ModelAnswers, Called
  <2>2. CASE CountAttempt(p)
    BY <1>3, <2>2 DEF CountAttempt, extracting
  <2>3. CASE StoreStatements(p) \/ WriteRefused(p)
    BY <1>3, <2>3 DEF StoreStatements, WriteRefused, NextCandidate
  <2> QED
    BY <1>4, <1>5, <1>6, <2>1, <2>2, <2>3 DEF ExtractStep, ExtractEnds
<1>7. ASSUME NEW p \in Extractors, CallRaises(p) \/ ExtractorKilled(p)
      PROVE  PromptIsKnown'
  BY <1>5, <1>7 DEF CallRaises, ExtractorKilled
<1>8. CASE Listing \/ Research \/ MatchOrgs \/ Deploy \/ UNCHANGED vars
  BY <1>1, <1>8 DEF Listing, Research, MatchOrgs, Deploy, vars, extracting
<1> QED
  BY <1>2, <1>6, <1>7, <1>8 DEF Next

(* The rows an answer becomes are claims about one report.                 *)
LEMMA AnsweredIsOneReport ==
    ASSUME TypeOK, NEW p \in Extractors, NEW r \in ReportId, First(p, r)
    PROVE  Answered(p) = {r} \X {AfterGate(c, copy[p][r]) : c \in answer[p]}
<1> p \in Run
  BY DEF Run
<1> DEFINE claims == {AfterGate(c, copy[p][r]) : c \in answer[p]}
<1>1. ASSUME NEW row \in Answered(p) PROVE row \in {r} \X claims
  <2>1. row \in Row /\ First(p, row[1])
    BY <1>1 DEF Answered
  <2>2. row[1] = r
    BY <2>1, FirstIsOne
  <2>3. row[2] \in claims
    BY <1>1, <2>2 DEF Answered
  <2> QED
    BY <2>1, <2>2, <2>3 DEF Row
<1>2. ASSUME NEW c \in answer[p]
      PROVE  <<r, AfterGate(c, copy[p][r])>> \in Answered(p)
  <2>1. AfterGate(c, copy[p][r]) \in Claim
    BY GateKeepsVerdict DEF TypeOK
  <2> QED
    BY <2>1 DEF Answered, Row
<1> QED
  BY <1>1, <1>2

(* A store is one publication: of all that is left of an answer after the  *)
(* gate, about the one report it was asked of and the text it was asked    *)
(* with.                                                                   *)
LEMMA StoreIsPublish ==
    ASSUME TypeOK, Reading, PromptIsKnown,
           NEW p \in Extractors, StoreStatements(p)
    PROVE  Record!EvidenceNext \/ UNCHANGED <<held, status, prompt, matched>>
<1>1. /\ UNCHANGED <<held, matched>> /\ pc[p] = "writing"
      /\ status' = [row \in Row |-> IF row \in Answered(p)
            THEN Verdict(row[2], copy[p][row[1]]) ELSE status[row]]
      /\ prompt' = [row \in Row |->
            IF row \in Answered(p) THEN using[p] ELSE prompt[row]]
  BY DEF StoreStatements, NextCandidate, history
<1>2. CASE \E r \in ReportId : First(p, r)
  <2>1. PICK r \in ReportId : First(p, r)
    BY <1>2
  <2> DEFINE claims == {AfterGate(c, copy[p][r]) : c \in answer[p]}
             text == copy[p][r]
  <2>2. text \in held[r] /\ text \in Text
    BY <2>1 DEF First, Reading, CopiesAreHeld, TypeOK
  <2>3. using[p] \in Prompt
    BY <1>1 DEF PromptIsKnown
  <2>4. claims \in SUBSET Claim
    BY GateKeepsVerdict DEF TypeOK
  <2>5. Answered(p) = {r} \X claims
    BY <2>1, AnsweredIsOneReport
  <2>6. \A c \in claims : text \in QuotedIn[c] => c \notin Unsupported
    BY GateKeepsVerdict DEF TypeOK, Verdict
  <2> HIDE DEF claims
  <2>7. \A row \in {r} \X claims : row[1] = r
    OBVIOUS
  <2>8. status' = [row \in Row |-> IF row \in {r} \X claims
            THEN Verdict(row[2], text) ELSE status[row]]
    BY <1>1, <2>5, <2>7
  <2>9. prompt' = [row \in Row |->
            IF row \in {r} \X claims THEN using[p] ELSE prompt[row]]
    BY <1>1, <2>5
  <2> HIDE DEF text
  <2>10. Record!Publish(r, claims, text, using[p])
    BY <1>1, <2>2, <2>6, <2>8, <2>9
       DEF Record!Publish, Record!Row, Row, Record!Verdict, Verdict
  <2> QED
    BY <2>2, <2>3, <2>4, <2>10 DEF Record!EvidenceNext
<1>3. CASE ~\E r \in ReportId : First(p, r)
  <2>1. Answered(p) = {}
    BY <1>3 DEF Answered, Row
  <2>2. status' = [row \in Row |-> status[row]]
    BY <1>1, <2>1
  <2>3. prompt' = [row \in Row |-> prompt[row]]
    BY <1>1, <2>1
  <2> QED
    BY <1>1, <2>2, <2>3 DEF TypeOK
<1> QED
  BY <1>2, <1>3

(* One commit of a fetch is one arrival, of however many texts.            *)
LEMMA CommitIsArrive ==
    ASSUME TypeOK, TypeOK', NEW p \in Fetchers, CommitFetch(p)
    PROVE  Record!EvidenceNext
<1>1. UNCHANGED <<status, prompt, matched>>
  BY DEF CommitFetch, statements
<1>2. held' \in [ReportId -> SUBSET Text]
  BY DEF TypeOK
<1>3. \A r \in ReportId : held[r] \subseteq held'[r]
  BY CommitFetchRows
<1>4. Record!Arrive
  BY <1>1, <1>2, <1>3 DEF Record!Arrive
<1> QED
  BY <1>4 DEF Record!EvidenceNext

(* Nothing else writes a row that a reader sees.                           *)
LEMMA OnlyThese ==
    ASSUME [Next]_vars,
           \A p \in Fetchers : ~CommitFetch(p),
           \A p \in Extractors : ~StoreStatements(p),
           ~MatchOrgs
    PROVE  UNCHANGED <<held, status, prompt, matched>>
<1>1. ASSUME NEW p \in Fetchers,
             FetchStep(p) \/ FetchRaises(p) \/ FetcherKilled(p)
      PROVE  UNCHANGED statements
  BY <1>1 DEF FetchStep, SelectUnfetched, FetchOne, FetchRaises,
     FetcherKilled, FetchEnds
<1>2. ASSUME NEW p \in Extractors,
             ExtractStep(p) \/ CallRaises(p) \/ ExtractorKilled(p)
      PROVE  UNCHANGED statements
  BY <1>2 DEF ExtractStep, SelectCandidates, CountAttempt, ModelAnswers,
     WriteRefused, NextCandidate, ExtractEnds, CallRaises, ExtractorKilled,
     ExtractOver
<1>3. ASSUME Listing \/ Research \/ Deploy \/ UNCHANGED vars
      PROVE  UNCHANGED statements
  BY <1>3 DEF Listing, Research, Deploy, vars
<1>4. UNCHANGED held
  BY RowsAlone
<1> QED
  BY <1>1, <1>2, <1>3, <1>4 DEF Next, statements

(* The pipeline implements Evidence: whatever fetches and extractions      *)
(* overlap, raise, are refused or killed, and under whichever prompts, an  *)
(* answer is stored whole with the verdicts of one text its report has     *)
(* held, and organisations are found and kept.                             *)
THEOREM EvidenceImplemented == Spec => ImplementsEvidence
<1>1. Init => Record!EvidenceInit /\ PromptIsKnown
  <2> SUFFICES ASSUME Init PROVE Record!EvidenceInit /\ PromptIsKnown
    OBVIOUS
  <2>1. Record!EvidenceInit
    BY DEF Init, Row, Record!EvidenceInit, Record!Row, Record!None
  <2>2. PromptIsKnown
    BY DEF Init, PromptIsKnown, Run
  <2> QED
    BY <2>1, <2>2
<1>2. TypeOK /\ Reading /\ PromptIsKnown /\ [Next]_vars =>
        [Record!EvidenceNext]_(Record!evars)
  <2> SUFFICES ASSUME TypeOK, Reading, PromptIsKnown, [Next]_vars
               PROVE  Record!EvidenceNext \/ UNCHANGED <<held, status, prompt, matched>>
    BY DEF Record!evars
  <2>1. ASSUME NEW p \in Fetchers, CommitFetch(p) PROVE Record!EvidenceNext
    BY <2>1, TypeStep, CommitIsArrive
  <2>2. ASSUME NEW p \in Extractors, StoreStatements(p)
        PROVE  Record!EvidenceNext \/ UNCHANGED <<held, status, prompt, matched>>
    BY <2>2, StoreIsPublish
  <2>3. CASE MatchOrgs
    <3>1. Record!Attribute
      BY <2>3 DEF MatchOrgs, Record!Attribute, Record!Row, Row, history
    <3> QED
      BY <3>1 DEF Record!EvidenceNext
  <2> QED
    BY <2>1, <2>2, <2>3, OnlyThese
<1> QED
  BY <1>1, <1>2, PromptIsKnownStep, TypeCorrect, ReadingInit, ReadingStep,
     PTL DEF Spec, ImplementsEvidence, Record!EvidenceSpec
=============================================================================

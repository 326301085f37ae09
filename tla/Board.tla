-------------------------------- MODULE Board --------------------------------
(***************************************************************************)
(* The response board from the tables to the reader: the paginated lists   *)
(* of the API (apps/api/app/routers/responders.py, statements.py), the     *)
(* page built from one answer (apps/web/lib/api.ts) and what a reader does *)
(* on it (apps/web/components/board, apps/web/lib/filter.ts).              *)
(*                                                                         *)
(* One request runs several SELECTs and the pipeline may commit between    *)
(* any two of them, so each is a step.  A reader's page is a copy: nothing *)
(* the tables do afterwards reaches it before the next render.  A text of  *)
(* the search box is a class: empty, blank, or a word found in some names. *)
(***************************************************************************)
EXTENDS Naturals, FiniteSetsExt, SequencesExt

CONSTANTS
    Org, Name,      \* organisation rows; spellings no alias resolves yet
    Statement,      \* statements of the disaster that are not rejected
    NameOf,         \* org_name_raw
    OwnerOf,        \* the organisation match_orgs gives a spelling, or None
    Placed,         \* the districts resolve_districts gives a statement
    GradeOf, DayOf, \* verification; happened_on, 0 when it is null
    District, Grade, OrgType,
    TypeOf, HqOf,   \* org_type; "NP", "abroad" or None
    Rank,           \* the alphabetical place of a name
    Word, Finds,    \* search words and the organisations and names they find
    Asks,           \* what the API's other clients ask for
    SharedLinks,    \* query strings in circulation
    BoardLimit,     \* page size of the board's own request
    MaxChanges,     \* bound: commits of the pipeline
    MaxFilters      \* bound: choices of a reader at a time

None == "none"
Row == Org \cup Name
OrNone(S) == S \cup {None}

(* The API tells the key of an organisation from a name by a prefix.  The web *)
(* has none (org_id ?? org_name_raw): there the first conjunct is assumed of  *)
(* the data.                                                                  *)
ASSUME ConstantsAssumption ==
    /\ Org \cap Name = {} /\ Row \cap Statement = {} /\ None \notin Row \cup District
    /\ NameOf \in [Statement -> Name]
    /\ OwnerOf \in [Name -> OrNone(Org)]
    /\ Placed \in [Statement -> SUBSET District]
    /\ GradeOf \in [Statement -> Grade] /\ DayOf \in [Statement -> Nat]
    /\ TypeOf \in [Org -> OrgType] /\ "unknown" \in OrgType
    /\ HqOf \in [Org -> {"NP", "abroad", None}]
    /\ Rank \in [Row -> Nat]
    /\ Finds \in [Word -> SUBSET Row] /\ {"", "blank"} \cap Word = {}
    /\ IsFiniteSet(Org) /\ IsFiniteSet(Statement)
    /\ BoardLimit \in Nat \ {0} /\ MaxChanges \in Nat /\ MaxFilters \in Nat

VARIABLES
    created,   \* created_at of a statement, 0 as long as it is not there
    matched,   \* the spellings match_orgs has resolved
    located,   \* the statements whose districts are written
    changes,
    request,   \* the request the API is serving
    crawl,     \* a client going through a list page by page
    board,     \* the rows of the rendered page
    reader,    \* "away", "served" (before hydration) or "live"
    filters,   \* React state
    url        \* the query string, a function of the keys it has

tables == <<created, matched, located, changes>>
page == <<board, reader, filters, url>>
vars == <<tables, request, crawl, page>>
-----------------------------------------------------------------------------
(* The API *)

Stored == {s \in Statement : created[s] # 0}

(* statement.org_id *)
OrgOf(s) == IF NameOf[s] \in matched THEN OwnerOf[NameOf[s]] ELSE None
KeyOf(s) == IF OrgOf(s) # None THEN OrgOf(s) ELSE NameOf[s]
DistrictsOf(s) == IF s \in located THEN Placed[s] ELSE {}

(* Filters on the organisation; a row without one has nothing to compare. *)
OrgPasses(o, ask) ==
    /\ ask.orgType # {} => o # None /\ TypeOf[o] \in ask.orgType
    /\ ask.hq = "local" => o # None /\ HqOf[o] = "NP"
    /\ ask.hq = "international" => o # None /\ HqOf[o] = "abroad"

Mentions(q, k) == q = "" \/ (q \in Word /\ k \in Finds[q])

Candidates(ask) == {o \in Org : OrgPasses(o, ask) /\ Mentions(ask.q, o)}

StatementPasses(s, ask) ==
    /\ ask.verification # {} => GradeOf[s] \in ask.verification
    /\ ask.district # {} => DistrictsOf(s) \cap ask.district # {}
    /\ OrgPasses(OrgOf(s), ask)
    /\ Mentions(ask.q, OrgOf(s)) \/ Mentions(ask.q, NameOf[s])

Passing(ask) == {s \in Stored : StatementPasses(s, ask)}

(* since is inclusive, and nothing without a date is on or after it.  *)
InStream(ask) ==
    {s \in Stored :
        /\ ask.district # {} => DistrictsOf(s) \cap ask.district # {}
        /\ ask.org # None => OrgOf(s) = ask.org
        /\ ask.since # 0 => DayOf[s] # 0 /\ DayOf[s] >= ask.since}

HasNone(o) == \A s \in Stored : OrgOf(s) # o

Unfiltered(ask) == ask.district = {} /\ ask.verification = {} /\ ask.response # "yes"

(* One group per key.  A row of the stream is a group by itself. *)
Grouped(rows) == {[key |-> k, stmts |-> {s \in rows : KeyOf(s) = k}] : k \in {KeyOf(s) : s \in rows}}
Silent(orgs) == {[key |-> o, stmts |-> {}] : o \in orgs}
Single(rows) == {[key |-> s, stmts |-> {s}] : s \in rows}

KeysOf(groups) == {g.key : g \in groups}

WithCandidates_ListsThemAgain(groups, orgs) == groups \cup Silent(orgs)

WithCandidates(groups, orgs) == groups \cup Silent(orgs \ KeysOf(groups))

Latest(g) == Max({DayOf[s] : s \in g.stmts} \cup {0})

(* The sort keys of a list of organisations.  latest: newest first and among *)
(* equals the later name first, undated ones last.                           *)
SortsBefore(g, h, sort) ==
    LET size(x) == Cardinality(x.stmts) IN
    CASE sort = "name" -> Rank[g.key] < Rank[h.key]
      [] sort = "least_data" -> \/ size(g) < size(h)
                                \/ size(g) = size(h) /\ Rank[g.key] < Rank[h.key]
      [] OTHER -> \/ Latest(g) > Latest(h)
                  \/ Latest(g) = Latest(h) /\ Rank[g.key] > Rank[h.key]

(* The sorts are stable and who has statements came first.  The stream: newest *)
(* first, undated last, the last inserted first; the claims of one report      *)
(* were inserted at the same time.                                             *)
ComesBefore(g, h, ask) ==
    IF ask.list = "statements"
    THEN \/ DayOf[g.key] > DayOf[h.key]
         \/ DayOf[g.key] = DayOf[h.key] /\ created[g.key] > created[h.key]
    ELSE \/ SortsBefore(g, h, ask.sort)
         \/ ~SortsBefore(h, g, ask.sort) /\ g.stmts # {} /\ h.stmts = {}

(* Rows that are equal in all this come in any order the database has them. *)
Orders(groups, ask) ==
    {order \in SetToSeqs(groups) :
        \A i, j \in DOMAIN order : ComesBefore(order[i], order[j], ask) => i < j}

Slice(s, offset, limit) == SubSeq(s, offset + 1, Min({offset + limit, Len(s)}))

BoardAsk == [list |-> "responders", district |-> {}, orgType |-> {}, verification |-> {}, hq |-> None,
             response |-> None, q |-> "", sort |-> "latest", org |-> None, since |-> 0,
             limit |-> BoardLimit]

(* What FastAPI lets through: the stream filters by district, organisation   *)
(* and day (0: any), the list of organisations by the rest and by district.  *)
Query ==
    {ask \in [list : {"responders", "statements"}, district : SUBSET District,
              orgType : SUBSET OrgType, verification : SUBSET Grade,
              hq : {None, "local", "international"}, response : {None, "yes", "no"},
              q : Word \cup {""}, sort : {"latest", "name", "least_data"},
              org : OrNone(Org), since : Nat, limit : Nat \ {0}] :
        /\ ask.list = "statements" => ask.response = None
        /\ ask.list = "responders" => ask.org = None /\ ask.since = 0}

ASSUME AsksAssumption == Asks \subseteq Query

Nowhere == [s \in Statement |-> {}]
NoRequest == [pc |-> "idle", sender |-> None, ask |-> BoardAsk, offset |-> 0, groups |-> {},
              places |-> Nowhere, since |-> [s \in Statement |-> None]]
NoCrawl == [state |-> "none", ask |-> BoardAsk, got |-> <<>>, total |-> 0, steady |-> TRUE]

(* since: the row a statement belonged to when the request came in, if it   *)
(* was there.                                                              *)
Ask(sender, ask, offset) ==
    /\ request.pc = "idle"
    /\ request' = [NoRequest EXCEPT !.sender = sender, !.ask = ask, !.offset = offset,
                     !.since = [s \in Statement |-> IF s \in Stored THEN KeyOf(s) ELSE None],
                     !.pc = CASE ask.list = "statements" -> "stream"
                              [] ask.response = "no" -> "candidates"
                              [] OTHER -> "statements"]

ReadStream ==
    /\ request.pc = "stream"
    /\ request' = [request EXCEPT !.groups = Single(InStream(request.ask)), !.pc = "hydrate"]
    /\ UNCHANGED <<tables, crawl, page>>

ReadStatements ==
    /\ request.pc = "statements"
    /\ request' = [request EXCEPT
          !.groups = Grouped(Passing(request.ask)),
          !.pc = IF Unfiltered(request.ask) THEN "candidates" ELSE "hydrate"]
    /\ UNCHANGED <<tables, crawl, page>>

ReadCandidates ==
    /\ request.pc = "candidates"
    /\ request' = [request EXCEPT !.groups = WithCandidates(request.groups, Candidates(request.ask)),
                                  !.pc = IF request.ask.response = "no" THEN "responded" ELSE "hydrate"]
    /\ UNCHANGED <<tables, crawl, page>>

(* has_response=false: whoever has any statement is taken out again. *)
ReadResponded ==
    /\ request.pc = "responded"
    /\ request' = [request EXCEPT
          !.groups = {g \in request.groups : HasNone(g.key)},
          !.pc = "respond"]
    /\ UNCHANGED <<tables, crawl, page>>

(* hydrate_statements: the districts of every statement in one SELECT. *)
Hydrate ==
    /\ request.pc = "hydrate"
    /\ request' = [request EXCEPT !.places = [s \in Statement |-> DistrictsOf(s)], !.pc = "respond"]
    /\ UNCHANGED <<tables, crawl, page>>

(* A row while the answer is put together, and as it is sent. *)
ListRow == [key : Row \cup Statement, stmts : SUBSET Statement]
Answer == [key : Row \cup Statement, outs : UNION {[S -> SUBSET District] : S \in SUBSET Statement}]
Step == {"idle", "stream", "statements", "candidates", "responded", "hydrate", "respond"}

Item(g) == [key |-> g.key, outs |-> [s \in g.stmts |-> request.places[s]]]

(* Counts are taken before the page is cut out. *)
Respond ==
    /\ request.pc = "respond"
    /\ \E order \in Orders(request.groups, request.ask) :
       LET answer == Slice(order, request.offset, request.ask.limit)
           items == [i \in DOMAIN answer |-> Item(answer[i])]
           got == crawl.got \o items IN
       \/ /\ request.sender = "page"
          /\ board' = items /\ reader' = "served"
          /\ UNCHANGED <<crawl, filters, url>>
       \/ /\ request.sender = "client"
          /\ crawl' = [crawl EXCEPT !.got = got, !.total = Len(order),
                         !.state = IF Len(got) < Len(order) /\ items # <<>> THEN "on" ELSE "done"]
          /\ UNCHANGED page
    /\ request' = NoRequest
    /\ UNCHANGED tables
-----------------------------------------------------------------------------
(* The other side: commits of the pipeline, clients that page. *)

Commit(times, names, places) ==
    /\ reader = "away" /\ changes < MaxChanges /\ changes' = changes + 1
    /\ created' = times /\ matched' = names /\ located' = places
    /\ crawl' = [crawl EXCEPT !.steady = crawl = NoCrawl]
    /\ UNCHANGED <<request, page>>

StatementsExtracted ==
    \E claims \in SUBSET (Statement \ Stored) :
        /\ claims # {}
        /\ LET now == 1 + Max({created[s] : s \in Stored} \cup {0}) IN
           Commit([s \in Statement |-> IF s \in claims THEN now ELSE created[s]], matched, located)
OrgMatched == \E n \in Name \ matched : OwnerOf[n] # None /\ Commit(created, matched \cup {n}, located)
DistrictsResolved ==
    \E placed \in SUBSET {s \in Stored \ located : Placed[s] # {}} :
        placed # {} /\ Commit(created, matched, located \cup placed)

StartCrawl ==
    /\ reader = "away" /\ crawl = NoCrawl
    /\ \E ask \in Asks : Ask("client", ask, 0) /\ crawl' = [NoCrawl EXCEPT !.state = "on", !.ask = ask]
    /\ UNCHANGED <<tables, page>>

NextPage ==
    /\ crawl.state = "on" /\ Ask("client", crawl.ask, Len(crawl.got))
    /\ UNCHANGED <<tables, crawl, page>>

EndCrawl ==
    /\ crawl.state = "done" /\ crawl' = NoCrawl
    /\ UNCHANGED <<tables, request, page>>
-----------------------------------------------------------------------------
(* The page *)

EMPTY == [districts |-> {}, hq |-> {}, orgTypes |-> {}, verification |-> {}, q |-> "",
          hasResponse |-> None, sort |-> "latest", tab |-> "orgs"]
FilterKey == DOMAIN EMPTY
Group == {"districts", "hq", "orgTypes", "verification"}
NoQuery == [k \in {} |-> None]

(* Other keys of a query string are never looked at. *)
ASSUME LinksAssumption == \A link \in SharedLinks : DOMAIN link \subseteq FilterKey

(* A missing or unknown value reads as the default of its key. *)
Known == [hasResponse |-> {"1", "0"}, sort |-> {"name", "fewest-data"}, tab |-> {"chronological"}]
ParseFilters(query) ==
    [k \in FilterKey |->
        IF k \notin DOMAIN query \/ (k \in DOMAIN Known /\ query[k] \notin Known[k]) THEN EMPTY[k]
        ELSE IF k = "hasResponse" THEN (IF query[k] = "1" THEN "yes" ELSE "no")
        ELSE query[k]]

SerializeFilters_OnlyWhatIsTrue(f) ==
    [k \in {k \in FilterKey : f[k] # EMPTY[k] /\ (k = "hasResponse" => f[k] = "yes")} |->
        IF k = "hasResponse" THEN "1" ELSE f[k]]

SerializeFilters(f) ==
    [k \in {k \in FilterKey : f[k] # EMPTY[k]} |->
        IF k = "hasResponse" THEN (IF f[k] = "yes" THEN "1" ELSE "0") ELSE f[k]]

Typed(q) == q \in Word

Outs(r) == DOMAIN r.outs
IsLocal(r) == r.key \in Org /\ HqOf[r.key] = "NP"
OrgTypeOf(r) == IF r.key \in Org THEN TypeOf[r.key] ELSE "unknown"

(* applyFilters: a row passes a group if one of its statements does. *)
StatementMatchesDistricts(r, s, districts) ==
    (None \in districts /\ r.outs[s] = {}) \/ r.outs[s] \cap districts # {}
StatementMatchesVerification(s, verification) == GradeOf[s] \in verification
ResponderMatchesHq(r, hq) ==
    ("local" \in hq /\ IsLocal(r)) \/ ("international" \in hq /\ ~IsLocal(r))

Matches_SilentPasses(r, f) ==
    /\ f.hasResponse # None => (Outs(r) # {}) = (f.hasResponse = "yes")
    /\ f.hq # {} => ResponderMatchesHq(r, f.hq)
    /\ f.orgTypes # {} => OrgTypeOf(r) \in f.orgTypes
    /\ Typed(f.q) => Mentions(f.q, r.key)
    /\ f.districts # {} /\ Outs(r) # {} => \E s \in Outs(r) : StatementMatchesDistricts(r, s, f.districts)
    /\ f.verification # {} /\ Outs(r) # {} =>
          \E s \in Outs(r) : StatementMatchesVerification(s, f.verification)

Matches(r, f) ==
    /\ f.hasResponse # None => (Outs(r) # {}) = (f.hasResponse = "yes")
    /\ f.hq # {} => ResponderMatchesHq(r, f.hq)
    /\ f.orgTypes # {} => OrgTypeOf(r) \in f.orgTypes
    /\ Typed(f.q) => Mentions(f.q, r.key)
    /\ f.districts # {} => \E s \in Outs(r) : StatementMatchesDistricts(r, s, f.districts)
    /\ f.verification # {} => \E s \in Outs(r) : StatementMatchesVerification(s, f.verification)

Rows == {board[i] : i \in DOMAIN board}
ApplyFilters(f) == {r \in Rows : Matches(r, f)}
Shown == ApplyFilters(filters)

(* countFacets and buildFacets: the keys of the rows behind an option of a   *)
(* statement, and counters of rows for an option of a row.                   *)
DistrictOrgs(rows, d) == {r.key : r \in {q \in rows : \E s \in Outs(q) : d \in q.outs[s]}}
NoLocation(rows) == {r.key : r \in {q \in rows : \E s \in Outs(q) : q.outs[s] = {}}}
VerificationOrgs(rows, v) == {r.key : r \in {q \in rows : \E s \in Outs(q) : GradeOf[s] = v}}
HqCount(rows, hq) == Cardinality({r \in rows : IF IsLocal(r) THEN hq = "local" ELSE hq = "international"})
OrgTypeCount(rows, type) == Cardinality({r \in rows : OrgTypeOf(r) = type})

CountFacet(rows, g, option) ==
    CASE g = "districts" ->
            Cardinality(IF option = None THEN NoLocation(rows) ELSE DistrictOrgs(rows, option))
      [] g = "hq" -> HqCount(rows, option)
      [] g = "orgTypes" -> OrgTypeCount(rows, option)
      [] g = "verification" -> Cardinality(VerificationOrgs(rows, option))

(* A district that occurs on the board; every value of the other groups. *)
FacetDistricts == {d \in District : DistrictOrgs(Rows, d) # {}}
CanonicalOptions(g) ==
    CASE g = "districts" -> {None} \cup FacetDistricts
      [] g = "hq" -> {"local", "international"}
      [] g = "orgTypes" -> OrgType
      [] g = "verification" -> Grade

(* boardCounts *)
StatementCount(rows) == MapThenSumSet(LAMBDA r : Cardinality(Outs(r)), rows)
DistrictCodes(rows) == UNION {UNION {r.outs[s] : s \in Outs(r)} : r \in rows}
BoardCounts == [orgs |-> Len(board),
                statements |-> StatementCount(Rows),
                districts |-> Cardinality(DistrictCodes(Rows)),
                noResponse |-> Cardinality({i \in DOMAIN board : Outs(board[i]) = {}})]

NumberLineTargets ==
    [orgs |-> EMPTY,
     statements |-> [EMPTY EXCEPT !.tab = "chronological"],
     districts |-> [EMPTY EXCEPT !.districts = FacetDistricts],
     noResponse |-> [EMPTY EXCEPT !.hasResponse = "no"]]
DistrictLink(d) == [EMPTY EXCEPT !.districts = {d}]
Links == {NumberLineTargets[n] : n \in DOMAIN NumberLineTargets}
         \cup {DistrictLink(d) : d \in FacetDistricts}

(* The chips above the list: one for each option chosen and for the search. *)
Chips(f) == (UNION {{<<g, v>> : v \in f[g]} : g \in Group})
            \cup (IF Typed(f.q) THEN {<<"q", f.q>>} ELSE {})

RenderPage ==
    /\ reader = "away" /\ crawl = NoCrawl /\ Ask("page", BoardAsk, 0)
    /\ UNCHANGED <<tables, crawl, page>>

OpenLink ==
    /\ reader = "served" /\ request.pc = "idle" /\ url = NoQuery
    /\ url' \in SharedLinks
    /\ UNCHANGED <<tables, request, crawl, board, reader, filters>>

Hydrates ==
    /\ reader = "served"
    /\ reader' = "live" /\ filters' = ParseFilters(url)
    /\ url' = SerializeFilters(filters')
    /\ UNCHANGED <<tables, request, crawl, board>>

(* Before hydration a link is a link: the same page with another query. *)
FollowLink ==
    /\ reader = "served" /\ \E f \in Links : url' = SerializeFilters(f)
    /\ UNCHANGED <<tables, request, crawl, board, reader, filters>>

Reload_KeepsState ==
    /\ reader = "live" /\ reader' = "served"
    /\ UNCHANGED <<tables, request, crawl, board, filters, url>>

Reload ==
    /\ reader = "live" /\ reader' = "served" /\ filters' = EMPTY
    /\ UNCHANGED <<tables, request, crawl, board, url>>

(* Whatever a reader may set, for the bound. *)
Settings(f) == Chips(f) \cup {<<k, f[k]>> : k \in {k \in FilterKey \ Group : f[k] # EMPTY[k]}}

(* setFilters; the effect that follows it replaces the query string. *)
SetFilters(f) ==
    /\ reader = "live" /\ Cardinality(Settings(f)) <= MaxFilters
    /\ filters' = f /\ url' = SerializeFilters(f)
    /\ UNCHANGED <<tables, request, crawl, board, reader>>

(* An option whose count is zero is disabled, chosen or not. *)
ToggleOption ==
    \E g \in Group : \E option \in CanonicalOptions(g) :
        /\ CountFacet(Shown, g, option) > 0
        /\ SetFilters([filters EXCEPT ![g] = IF option \in @ THEN @ \ {option} ELSE @ \cup {option}])

RemoveChip ==
    \E chip \in Chips(filters) :
        SetFilters(IF chip[1] = "q" THEN [filters EXCEPT !.q = ""]
                   ELSE [filters EXCEPT ![chip[1]] = @ \ {chip[2]}])

ClearAll == Chips(filters) # {} /\ SetFilters([EMPTY EXCEPT !.tab = filters.tab])
SelectLink == \E f \in Links : SetFilters(f)
ChangeTab == \E tab \in {"orgs", "chronological"} : SetFilters([filters EXCEPT !.tab = tab])
ChangeSort ==
    /\ filters.tab = "orgs"
    /\ \E sort \in {"latest", "name", "fewest-data"} : SetFilters([filters EXCEPT !.sort = sort])
Search == \E q \in Word \cup {"", "blank"} : SetFilters([filters EXCEPT !.q = q])

Leave ==
    /\ reader # "away" /\ reader' = "away"
    /\ board' = <<>> /\ filters' = EMPTY /\ url' = NoQuery
    /\ UNCHANGED <<tables, request, crawl>>
-----------------------------------------------------------------------------
Init ==
    /\ created = [s \in Statement |-> 0] /\ matched = {} /\ located = {} /\ changes = 0
    /\ request = NoRequest /\ crawl = NoCrawl
    /\ board = <<>> /\ reader = "away" /\ filters = EMPTY /\ url = NoQuery

Serve == ReadStream \/ ReadStatements \/ ReadCandidates \/ ReadResponded \/ Hydrate \/ Respond
Pipeline == StatementsExtracted \/ OrgMatched \/ DistrictsResolved
Read ==
    \/ OpenLink \/ Hydrates \/ FollowLink \/ Reload \/ Leave
    \/ ToggleOption \/ RemoveChip \/ ClearAll \/ SelectLink \/ ChangeTab \/ ChangeSort \/ Search
Next == Serve \/ Pipeline \/ StartCrawl \/ NextPage \/ EndCrawl \/ RenderPage \/ Read

Spec == Init /\ [][Next]_vars
-----------------------------------------------------------------------------
(* Properties *)

(* Every variable has its type: a group has one key, a filter state only     *)
(* keys that exist, and nothing is chosen while no page is open.             *)
TypeOK ==
    /\ created \in [Statement -> Nat]
    /\ matched \subseteq Name /\ located \subseteq Stored /\ changes \in 0..MaxChanges
    /\ request \in [pc : Step, sender : {None, "page", "client"}, ask : Query, offset : Nat,
                    groups : SUBSET ListRow, places : [Statement -> SUBSET District],
                    since : [Statement -> OrNone(Row)]]
    /\ crawl \in [state : {"none", "on", "done"}, ask : Query, got : Seq(Answer), total : Nat,
                  steady : BOOLEAN]
    /\ board \in Seq(Answer)
    /\ reader \in {"away", "served", "live"}
    /\ reader = "away" => board = <<>>
    /\ reader # "live" => filters = EMPTY
    /\ DOMAIN url \subseteq FilterKey

(* A count on the page says what the reader gets.  countFacets counts in     *)
(* sets of keys and counters of its own over the rows shown, boardCounts and *)
(* buildFacets over the board, and applyFilters decides row by row: for an   *)
(* option of a group in which nothing is chosen yet all three agree, and the *)
(* figures and districts of the head lead to as many rows, statements or     *)
(* districts as they say.  (In a group with a choice they do not: the count  *)
(* of another option there is what both have in common.)                     *)
CountsAreRows ==
    reader = "live" =>
    /\ \A g \in Group : filters[g] = {} => \A option \in CanonicalOptions(g) :
          CountFacet(Shown, g, option) = Cardinality(ApplyFilters([filters EXCEPT ![g] = {option}]))
    /\ LET Behind(n) == ApplyFilters(NumberLineTargets[n]) IN
       /\ BoardCounts.orgs = Cardinality(Behind("orgs"))
       /\ BoardCounts.statements = StatementCount(Behind("statements"))
       /\ BoardCounts.districts = Cardinality(DistrictCodes(Behind("districts")))
       /\ BoardCounts.noResponse = Cardinality(Behind("noResponse"))
    /\ \A d \in FacetDistricts :
          Cardinality(ApplyFilters(DistrictLink(d))) = CountFacet(Rows, "districts", d)

(* The query string is the view: whatever the reader did and from whichever  *)
(* link he came, who opens the page's address sees what he sees.             *)
LinkSaysTheView ==
    reader = "live" => ParseFilters(url) = filters /\ SerializeFilters(ParseFilters(url)) = url

(* What a client asked for, said of the tables at rest. *)
Wanted(ask) ==
    IF ask.list = "statements" THEN Single(InStream(ask))
    ELSE IF ask.response = "no" THEN Silent({o \in Candidates(ask) : HasNone(o)})
    ELSE LET keys == {KeyOf(s) : s \in Passing(ask)}
                     \cup (IF Unfiltered(ask) THEN Candidates(ask) ELSE {}) IN
         {[key |-> k, stmts |-> {s \in Passing(ask) : KeyOf(s) = k}] : k \in keys}

(* Its sort keys tell it from every other row of the list.                  *)
HasPlace(g, groups, ask) ==
    \A h \in groups \ {g} : ComesBefore(g, h, ask) \/ ComesBefore(h, g, ask)

(* Nobody is listed twice and nobody is left out.  In one answer, whatever   *)
(* is committed between its queries: each key once, each statement that was  *)
(* there in one row, every organisation on a board without filters, and none *)
(* as silent that had a resolved statement before the request.  (Before the  *)
(* page is cut out of it: a board cut at its limit does leave rows out.)     *)
(* Over the pages of a list, when nothing is committed meanwhile: as many    *)
(* rows as were counted, all of them asked for and with all their            *)
(* statements, and each once that no other row ties with in its sort keys.   *)
EverybodyOnce ==
    /\ request.pc = "respond" =>
         LET groups == request.groups IN
         /\ \A g, h \in groups : g # h => g.key # h.key /\ g.stmts \cap h.stmts = {}
         /\ request.ask = BoardAsk =>
              /\ Org \subseteq KeysOf(groups)
              /\ \A s \in Statement :
                    request.since[s] # None => s \in UNION {g.stmts : g \in groups}
         /\ request.ask.response = "no" =>
              \A s \in Statement : request.since[s] \notin KeysOf(groups)
    /\ crawl.state = "done" /\ crawl.steady =>
         LET got == crawl.got
             wanted == Wanted(crawl.ask) IN
         /\ Len(got) = crawl.total /\ crawl.total = Cardinality(wanted)
         /\ \A i \in DOMAIN got : [key |-> got[i].key, stmts |-> DOMAIN got[i].outs] \in wanted
         /\ \A g \in wanted : HasPlace(g, wanted, crawl.ask) =>
              \E i \in DOMAIN got : \A j \in DOMAIN got : got[j].key = g.key <=> i = j
=============================================================================

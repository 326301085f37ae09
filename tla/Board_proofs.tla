----------------------------- MODULE Board_proofs -----------------------------
(***************************************************************************)
(* Theorems about the page of Board, for any statements, districts, search *)
(* words and links in circulation.                                         *)
(***************************************************************************)
EXTENDS BoardLists_proofs

LEMMA Words == "" \notin Word /\ "blank" \notin Word
  BY ConstantsAssumption

(* What the reader's state is made of: the keys of a filter, and for those *)
(* with few values one of them.                                            *)
FilterState(f) ==
    /\ f = [k \in FilterKey |-> f[k]]
    /\ f.hasResponse \in {None, "yes", "no"}
    /\ f.sort \in {"latest", "name", "fewest-data"}
    /\ f.tab \in {"orgs", "chronological"}

Keys == {"districts", "hq", "orgTypes", "verification", "q", "hasResponse", "sort", "tab"}

LEMMA FilterKeys == FilterKey = Keys
  BY DEF FilterKey, EMPTY, Keys

LEMMA EmptyState == FilterState(EMPTY)
  BY FilterKeys DEF FilterState, EMPTY, Keys

LEMMA ParsedState == ASSUME NEW query PROVE FilterState(ParseFilters(query))
<1> DEFINE f == ParseFilters(query)
<1>1. f = [k \in FilterKey |-> f[k]]
  BY DEF ParseFilters
<1>2. f.hasResponse \in {None, "yes", "no"}
  BY FilterKeys DEF ParseFilters, Known, EMPTY, Keys
<1>3. f.sort \in {"latest", "name", "fewest-data"}
  BY FilterKeys DEF ParseFilters, Known, EMPTY, Keys
<1>4. f.tab \in {"orgs", "chronological"}
  BY FilterKeys DEF ParseFilters, Known, EMPTY, Keys
<1> QED
  BY <1>1, <1>2, <1>3, <1>4 DEF FilterState

(* The query string carries every state: it is read back as it was written. *)
LEMMA RoundTrip == ASSUME NEW f, FilterState(f) PROVE ParseFilters(SerializeFilters(f)) = f
<1> DEFINE query == SerializeFilters(f)
<1>1. \A k \in FilterKey : ParseFilters(query)[k] = f[k]
  <2> TAKE k \in FilterKey
  <2>1. CASE f[k] = EMPTY[k]
    BY <2>1 DEF ParseFilters, SerializeFilters
  <2>2. CASE f[k] # EMPTY[k]
    <3>1. k \in DOMAIN query
      BY <2>2 DEF SerializeFilters
    <3>2. CASE k = "hasResponse"
      BY <2>2, <3>1, <3>2 DEF ParseFilters, SerializeFilters, Known, FilterState, EMPTY
    <3>3. CASE k # "hasResponse"
      <4>1. query[k] = f[k]
        BY <2>2, <3>3 DEF SerializeFilters
      <4>2. k \in DOMAIN Known => query[k] \in Known[k]
        <5>1. DOMAIN Known = {"hasResponse", "sort", "tab"}
          BY DEF Known
        <5>2. CASE k = "sort"
          <6>1. f.sort \in Known[k]
            BY <2>2, <5>2 DEF FilterState, Known, EMPTY
          <6> QED
            BY <4>1, <5>2, <6>1
        <5>3. CASE k = "tab"
          <6>1. f.tab \in Known[k]
            BY <2>2, <5>3 DEF FilterState, Known, EMPTY
          <6> QED
            BY <4>1, <5>3, <6>1
        <5> QED
          BY <3>3, <5>1, <5>2, <5>3
      <4> QED
        BY <3>1, <3>3, <4>1, <4>2 DEF ParseFilters
    <3> QED
      BY <3>2, <3>3
  <2> QED
    BY <2>1, <2>2
<1>2. ParseFilters(query) = [k \in FilterKey |-> ParseFilters(query)[k]]
  BY DEF ParseFilters
<1>3. f = [k \in FilterKey |-> f[k]]
  BY DEF FilterState
<1> HIDE DEF query
<1>4. [k \in FilterKey |-> ParseFilters(query)[k]] = [k \in FilterKey |-> f[k]]
  BY <1>1
<1> QED
  BY <1>2, <1>3, <1>4 DEF query

-----------------------------------------------------------------------------
(* The page *)

(* While the page is live the address is written from the state.           *)
PageState ==
    /\ FilterState(filters)
    /\ reader = "live" => url = SerializeFilters(filters)

LEMMA LinkStates == \A f \in Links : FilterState(f)
<1>1. \A d : FilterState([EMPTY EXCEPT !.districts = d])
  BY FilterKeys DEF FilterState, EMPTY, Keys
<1>2. FilterState([EMPTY EXCEPT !.tab = "chronological"])
  BY FilterKeys DEF FilterState, EMPTY, Keys
<1>3. FilterState([EMPTY EXCEPT !.hasResponse = "no"])
  BY FilterKeys DEF FilterState, EMPTY, Keys
<1> QED
  BY <1>1, <1>2, <1>3, EmptyState DEF Links, NumberLineTargets, DistrictLink

(* What an option, a chip, the search box, the tabs and the sort order set. *)
LEMMA ChangedState ==
    ASSUME FilterState(filters), NEW v
    PROVE  /\ \A g \in Group : FilterState([filters EXCEPT ![g] = v])
           /\ FilterState([filters EXCEPT !.q = v])
           /\ v \in {"orgs", "chronological"} => FilterState([filters EXCEPT !.tab = v])
           /\ v \in {"latest", "name", "fewest-data"} => FilterState([filters EXCEPT !.sort = v])
  BY FilterKeys DEF FilterState, Group, Keys

LEMMA ChipGroups == ASSUME NEW chip \in Chips(filters) PROVE chip[1] = "q" \/ chip[1] \in Group
<1>1. CASE chip \in UNION {{<<g, v>> : v \in filters[g]} : g \in Group}
  <2>1. PICK g \in Group : chip \in {<<g, v>> : v \in filters[g]}
    BY <1>1
  <2>2. PICK v \in filters[g] : chip = <<g, v>>
    BY <2>1
  <2> QED
    BY <2>1, <2>2
<1>2. CASE chip = <<"q", filters.q>>
  BY <1>2
<1>3. chip \in UNION {{<<g, v>> : v \in filters[g]} : g \in Group} \/ chip = <<"q", filters.q>>
  BY DEF Chips
<1> QED
  BY <1>1, <1>2, <1>3

LEMMA SetStep ==
    ASSUME PageState, NEW f, FilterState(f), SetFilters(f)
    PROVE  PageState'
  BY DEF PageState, SetFilters, FilterState

LEMMA PageStep == PageState /\ [Next]_vars => PageState'
<1> SUFFICES ASSUME PageState, [Next]_vars PROVE PageState'
  OBVIOUS
<1> USE DEF PageState
<1>1. ASSUME UNCHANGED filters, reader' = "live" => reader = "live" /\ UNCHANGED url
      PROVE  PageState'
  BY <1>1 DEF FilterState
<1>2. CASE ReadStream \/ ReadStatements \/ ReadCandidates \/ ReadResponded \/ Hydrate
           \/ Pipeline \/ StartCrawl \/ NextPage \/ EndCrawl \/ RenderPage
  BY <1>1, <1>2 DEF ReadStream, ReadStatements, ReadCandidates, ReadResponded, Hydrate, Pipeline,
     StatementsExtracted, OrgMatched, DistrictsResolved, Commit, StartCrawl, NextPage, EndCrawl,
     RenderPage, page
<1>3. CASE Respond
  BY <1>1, <1>3 DEF Respond, page
<1>4. CASE OpenLink \/ FollowLink
  BY <1>1, <1>4 DEF OpenLink, FollowLink
<1>5. CASE Hydrates
  BY <1>5, ParsedState DEF Hydrates
<1>6. CASE Reload \/ Leave
  BY <1>6, EmptyState DEF Reload, Leave
<1>7. CASE ToggleOption
  BY <1>7, SetStep, ChangedState DEF ToggleOption
<1>8. CASE RemoveChip
  BY <1>8, SetStep, ChangedState, ChipGroups DEF RemoveChip
<1>9. CASE ClearAll
  <2>1. FilterState([EMPTY EXCEPT !.tab = filters.tab])
    BY FilterKeys DEF FilterState, EMPTY, Keys
  <2> QED
    BY <1>9, <2>1, SetStep DEF ClearAll
<1>10. CASE SelectLink
  BY <1>10, LinkStates, SetStep DEF SelectLink
<1>11. CASE ChangeTab \/ ChangeSort \/ Search
  BY <1>11, SetStep, ChangedState DEF ChangeTab, ChangeSort, Search
<1>12. CASE UNCHANGED vars
  BY <1>1, <1>12 DEF vars, page
<1> QED
  BY <1>2, <1>3, <1>4, <1>5, <1>6, <1>7, <1>8, <1>9, <1>10, <1>11, <1>12 DEF Next, Serve, Read

LEMMA PageHolds == Spec => []PageState
<1>1. Init => PageState
  BY EmptyState DEF Init, PageState
<1> QED
  BY <1>1, PageStep, PTL DEF Spec

(* Whatever the reader does and whichever link he came from, the address   *)
(* of the page opens the view he sees.                                     *)
THEOREM LinkHolds == Spec => []LinkSaysTheView
<1>1. PageState => LinkSaysTheView
  BY RoundTrip DEF PageState, LinkSaysTheView
<1> QED
  BY <1>1, PageHolds, PTL
-----------------------------------------------------------------------------
(* Counts *)

(* What an injection onto it counts.                                       *)
LEMMA SameSize ==
    ASSUME NEW S, IsFiniteSet(S), NEW T, NEW f \in [S -> T],
           \A t \in T : \E s \in S : f[s] = t,
           \A x, y \in S : f[x] = f[y] => x = y
    PROVE  Cardinality(T) = Cardinality(S) /\ IsFiniteSet(T)
<1>1. f \in Surjection(S, T)
  BY DEF Surjection
<1>2. f \in Injection(S, T)
  BY DEF Injection, IsInjective
<1> QED
  BY <1>1, <1>2, FS_Surjection

(* No two rows of a page have one key.                                     *)
OneRowEach == \A i, j \in DOMAIN board : board[i].key = board[j].key => i = j

LEMMA RespondRows == ASSUME TypeOK, OneAnswer, OneRowEach, Respond PROVE OneRowEach'
<1> DEFINE answer(order) == Slice(order, request.offset, request.ask.limit)
           items(order) == [i \in DOMAIN answer(order) |-> Item(answer(order)[i])]
<1>1. PICK order \in Orders(request.groups, request.ask) :
         board' = items(order) \/ UNCHANGED board
  BY DEF Respond, page
<1>2. /\ items(order) \in Seq(Answer)
      /\ \A i \in 1..Len(items(order)) :
            /\ request.offset + i \in DOMAIN order
            /\ items(order)[i].key = order[request.offset + i].key
  BY AnswerRows DEF OneAnswer
<1>3. /\ order \in Seq(request.groups) /\ DOMAIN order = 1..Len(order)
      /\ \A i, j \in DOMAIN order : order[i] = order[j] => i = j
  BY OrderProperties, LenProperties DEF OneAnswer
<1>4. \A i \in DOMAIN order : order[i] \in request.groups
  BY <1>3, ElementOfSeq
<1>5. CASE UNCHANGED board
  BY <1>5 DEF OneRowEach
<1>6. CASE board' = items(order)
  <2> HIDE DEF items
  <2>1. DOMAIN items(order) = 1..Len(items(order)) /\ Len(items(order)) \in Nat
    BY <1>2, LenProperties
  <2>2. ASSUME NEW i \in DOMAIN items(order), NEW j \in DOMAIN items(order),
               items(order)[i].key = items(order)[j].key
        PROVE  i = j
    <3>1. order[request.offset + i] = order[request.offset + j]
      BY <1>2, <1>4, <2>1, <2>2 DEF OneAnswer, Distinct
    <3>2. request.offset + i = request.offset + j /\ request.offset \in Nat /\ i \in Nat /\ j \in Nat
      BY <1>2, <1>3, <2>1, <3>1 DEF TypeOK
    <3> QED
      BY <3>2
  <2> QED
    BY <1>6, <2>2 DEF OneRowEach
<1> QED
  BY <1>1, <1>5, <1>6

LEMMA RowsStep == TypeOK /\ OneAnswer /\ OneRowEach /\ [Next]_vars => OneRowEach'
<1> SUFFICES ASSUME TypeOK, OneAnswer, OneRowEach, [Next]_vars PROVE OneRowEach'
  OBVIOUS
<1>1. ASSUME UNCHANGED board PROVE OneRowEach'
  BY <1>1 DEF OneRowEach
<1>2. CASE ReadStream \/ ReadStatements \/ ReadCandidates \/ ReadResponded \/ Hydrate
           \/ Pipeline \/ StartCrawl \/ NextPage \/ EndCrawl \/ RenderPage
  BY <1>1, <1>2 DEF ReadStream, ReadStatements, ReadCandidates, ReadResponded, Hydrate, Pipeline,
     StatementsExtracted, OrgMatched, DistrictsResolved, Commit, StartCrawl, NextPage, EndCrawl,
     RenderPage, page
<1>3. CASE Respond
  BY <1>3, RespondRows
<1>4. CASE OpenLink \/ FollowLink \/ Hydrates \/ Reload
  BY <1>1, <1>4 DEF OpenLink, FollowLink, Hydrates, Reload
<1>5. CASE ToggleOption \/ RemoveChip \/ ClearAll \/ SelectLink \/ ChangeTab \/ ChangeSort \/ Search
  BY <1>1, <1>5 DEF ToggleOption, RemoveChip, ClearAll, SelectLink, ChangeTab, ChangeSort, Search,
     SetFilters
<1>6. CASE Leave
  BY <1>6 DEF Leave, OneRowEach
<1>7. CASE UNCHANGED vars
  BY <1>1, <1>7 DEF vars, page
<1> QED
  BY <1>2, <1>3, <1>4, <1>5, <1>6, <1>7 DEF Next, Serve, Read

LEMMA RowsHold == Spec => [](TypeOK /\ OneRowEach)
<1>1. Init => OneRowEach
  BY DEF Init, OneRowEach
<1>2. Lists => TypeOK /\ OneAnswer
  BY DEF Lists
<1>3. Lists /\ OneRowEach /\ [Next]_vars => OneRowEach'
  BY <1>2, RowsStep
<1> QED
  BY <1>1, <1>2, <1>3, ListsHold, PTL DEF Spec

(* Counting keys is counting rows.                                         *)
LEMMA KeyCount ==
    ASSUME TypeOK, OneRowEach
    PROVE  /\ Rows \subseteq Answer /\ IsFiniteSet(Rows) /\ Cardinality(Rows) = Len(board)
           /\ \A S \in SUBSET Rows : Cardinality({r.key : r \in S}) = Cardinality(S)
           /\ Cardinality({i \in DOMAIN board : Outs(board[i]) = {}})
                 = Cardinality({r \in Rows : Outs(r) = {}})
<1>1. board \in Seq(Answer) /\ Len(board) \in Nat /\ DOMAIN board = 1..Len(board)
  BY LenProperties DEF TypeOK
<1>2. IsFiniteSet(DOMAIN board) /\ Cardinality(DOMAIN board) = Len(board)
  BY <1>1, FS_Interval
<1>3. \A i \in DOMAIN board : board[i] \in Answer /\ board[i] \in Rows
  BY <1>1, ElementOfSeq DEF Rows
<1>4. Cardinality({i \in DOMAIN board : Outs(board[i]) = {}}) = Cardinality({r \in Rows : Outs(r) = {}})
  <2> DEFINE I == {i \in DOMAIN board : Outs(board[i]) = {}}
             R == {r \in Rows : Outs(r) = {}}
             f == [i \in I |-> board[i]]
  <2>1. IsFiniteSet(I)
    BY <1>2, FS_Subset
  <2>2. f \in [I -> R] /\ \A r \in R : \E i \in I : f[i] = r
    BY <1>3 DEF Rows
  <2>3. \A i, j \in I : f[i] = f[j] => i = j
    BY DEF OneRowEach
  <2> HIDE DEF I, R, f
  <2>4. Cardinality(R) = Cardinality(I)
    BY <2>1, <2>2, <2>3, SameSize
  <2> QED
    BY <2>4 DEF I, R
<1>5. IsFiniteSet(Rows) /\ Cardinality(Rows) = Len(board)
  <2> DEFINE f == [i \in DOMAIN board |-> board[i]]
  <2>1. f \in [DOMAIN board -> Rows] /\ \A r \in Rows : \E i \in DOMAIN board : f[i] = r
    BY <1>3 DEF Rows
  <2>2. \A i, j \in DOMAIN board : f[i] = f[j] => i = j
    BY DEF OneRowEach
  <2> HIDE DEF f
  <2> QED
    BY <1>2, <2>1, <2>2, SameSize
<1>6. ASSUME NEW S \in SUBSET Rows PROVE Cardinality({r.key : r \in S}) = Cardinality(S)
  <2> DEFINE keys == {r.key : r \in S}
             f == [r \in S |-> r.key]
  <2>1. IsFiniteSet(S)
    BY <1>5, FS_Subset
  <2>2. f \in [S -> keys] /\ \A k \in keys : \E r \in S : f[r] = k
    OBVIOUS
  <2>3. \A r, q \in S : f[r] = f[q] => r = q
    BY DEF OneRowEach, Rows
  <2> HIDE DEF keys, f
  <2> QED
    BY <2>1, <2>2, <2>3, SameSize DEF keys
<1>7. Rows \subseteq Answer
  BY <1>3 DEF Rows
<1> QED
  BY <1>4, <1>5, <1>6, <1>7

LEMMA EmptyValues ==
    /\ \A g \in Group : EMPTY[g] = {} /\ g \in FilterKey /\ g \notin {"hasResponse", "q", "tab"}
    /\ EMPTY.hasResponse = None /\ ~Typed(EMPTY.q)
<1>1. /\ EMPTY.districts = {} /\ EMPTY.hq = {} /\ EMPTY.orgTypes = {} /\ EMPTY.verification = {}
      /\ EMPTY.hasResponse = None /\ EMPTY.q = ""
  BY DEF EMPTY
<1>2. ~Typed(EMPTY.q)
  BY <1>1, Words DEF Typed
<1> QED
  BY <1>1, <1>2, FilterKeys DEF Group, Keys

(* What the filter lets through when one group asks for one option.        *)
Wants(r, g, option) ==
    /\ g = "districts" => \E s \in Outs(r) : StatementMatchesDistricts(r, s, {option})
    /\ g = "hq" => ResponderMatchesHq(r, {option})
    /\ g = "orgTypes" => OrgTypeOf(r) = option
    /\ g = "verification" => \E s \in Outs(r) : StatementMatchesVerification(s, {option})

LEMMA OptionRows ==
    ASSUME PageState, NEW g \in Group, filters[g] = {}, NEW option
    PROVE  ApplyFilters([filters EXCEPT ![g] = {option}]) = {r \in Shown : Wants(r, g, option)}
<1> DEFINE f == [filters EXCEPT ![g] = {option}]
<1>1. g \in DOMAIN filters
  BY EmptyValues DEF PageState, FilterState
<1>2. /\ f[g] = {option}
      /\ \A h \in Group \ {g} : f[h] = filters[h]
      /\ f.hasResponse = filters.hasResponse /\ f.q = filters.q
  BY <1>1, EmptyValues DEF PageState, FilterState
<1> HIDE DEF f
<1>3. ASSUME NEW r PROVE Matches(r, f) <=> Matches(r, filters) /\ Wants(r, g, option)
  <2>1. CASE g = "districts"
    BY <1>2, <2>1 DEF Matches, Wants, Group
  <2>2. CASE g = "hq"
    BY <1>2, <2>2 DEF Matches, Wants, Group
  <2>3. CASE g = "orgTypes"
    BY <1>2, <2>3 DEF Matches, Wants, Group
  <2>4. CASE g = "verification"
    BY <1>2, <2>4 DEF Matches, Wants, Group
  <2> QED
    BY <2>1, <2>2, <2>3, <2>4 DEF Group
<1>4. ApplyFilters(f) = {r \in Shown : Wants(r, g, option)}
  BY <1>3 DEF ApplyFilters, Shown
<1> QED
  BY <1>4 DEF f

(* A facet counts the rows that the filter lets through.                   *)
LEMMA FacetRows ==
    ASSUME TypeOK, OneRowEach, NEW rows \in SUBSET Rows, NEW g \in Group, NEW option \in CanonicalOptions(g)
    PROVE  CountFacet(rows, g, option) = Cardinality({r \in rows : Wants(r, g, option)})
<1>1. \A S \in SUBSET Rows : Cardinality({r.key : r \in S}) = Cardinality(S)
  BY KeyCount
<1>2. \A r \in Rows : \A s \in Outs(r) : r.outs[s] \subseteq District
  <2>1. Rows \subseteq Answer
    BY KeyCount
  <2> QED
    BY <2>1 DEF Answer, Outs
<1>3. CASE g = "districts"
  <2>1. CASE option = None
    <3>1. \A r \in rows : Wants(r, g, option) <=> \E s \in Outs(r) : r.outs[s] = {}
      <4>1. ASSUME NEW r \in rows, NEW s \in Outs(r)
            PROVE  StatementMatchesDistricts(r, s, {None}) <=> r.outs[s] = {}
        <5>1. None \notin r.outs[s]
          BY <1>2, ConstantsAssumption
        <5> QED
          BY <5>1 DEF StatementMatchesDistricts
      <4> QED
        BY <1>3, <2>1, <4>1 DEF Wants
    <3>2. NoLocation(rows) = {r.key : r \in {q \in rows : Wants(q, g, option)}}
      BY <3>1 DEF NoLocation
    <3>3. CountFacet(rows, g, option) = Cardinality(NoLocation(rows))
      BY <1>3, <2>1 DEF CountFacet
    <3> QED
      BY <1>1, <3>2, <3>3
  <2>2. CASE option # None
    <3>1. \A r \in rows : Wants(r, g, option) <=> \E s \in Outs(r) : option \in r.outs[s]
      BY <1>3, <2>2 DEF Wants, StatementMatchesDistricts
    <3>2. DistrictOrgs(rows, option) = {r.key : r \in {q \in rows : Wants(q, g, option)}}
      BY <3>1 DEF DistrictOrgs
    <3>3. CountFacet(rows, g, option) = Cardinality(DistrictOrgs(rows, option))
      BY <1>3, <2>2 DEF CountFacet
    <3> QED
      BY <1>1, <3>2, <3>3
  <2> QED
    BY <2>1, <2>2
<1>4. CASE g = "hq"
  <2>1. option \in {"local", "international"}
    BY <1>4 DEF CanonicalOptions
  <2>2. \A r \in rows : Wants(r, g, option) <=> (IF IsLocal(r) THEN option = "local" ELSE option = "international")
    BY <1>4, <2>1 DEF Wants, ResponderMatchesHq
  <2>3. CountFacet(rows, g, option) = HqCount(rows, option)
    BY <1>4 DEF CountFacet
  <2> QED
    BY <2>2, <2>3 DEF HqCount
<1>5. CASE g = "orgTypes"
  BY <1>5 DEF CountFacet, OrgTypeCount, Wants
<1>6. CASE g = "verification"
  <2>1. \A r \in rows : Wants(r, g, option) <=> \E s \in Outs(r) : GradeOf[s] = option
    BY <1>6 DEF Wants, StatementMatchesVerification
  <2>2. VerificationOrgs(rows, option) = {r.key : r \in {q \in rows : Wants(q, g, option)}}
    BY <2>1 DEF VerificationOrgs
  <2>3. CountFacet(rows, g, option) = Cardinality(VerificationOrgs(rows, option))
    BY <1>6 DEF CountFacet
  <2> QED
    BY <1>1, <2>2, <2>3
<1> QED
  BY <1>3, <1>4, <1>5, <1>6 DEF Group

LEMMA MatchesAll == ASSUME NEW r PROVE
    /\ Matches(r, EMPTY)
    /\ Matches(r, [EMPTY EXCEPT !.tab = "chronological"])
    /\ Matches(r, [EMPTY EXCEPT !.hasResponse = "no"]) <=> Outs(r) = {}
<1> DEFINE tabbed == [EMPTY EXCEPT !.tab = "chronological"]
           silent == [EMPTY EXCEPT !.hasResponse = "no"]
<1>0. EMPTY.districts = {} /\ EMPTY.hq = {} /\ EMPTY.orgTypes = {} /\ EMPTY.verification = {}
  BY DEF EMPTY
<1>1. /\ tabbed.districts = {} /\ tabbed.hq = {} /\ tabbed.orgTypes = {} /\ tabbed.verification = {}
      /\ tabbed.hasResponse = None /\ tabbed.q = EMPTY.q
  BY EmptyValues DEF EMPTY
<1>2. /\ silent.districts = {} /\ silent.hq = {} /\ silent.orgTypes = {} /\ silent.verification = {}
      /\ silent.hasResponse = "no" /\ silent.q = EMPTY.q
  BY EmptyValues DEF EMPTY
<1> HIDE DEF tabbed, silent
<1>3. Matches(r, EMPTY)
  BY <1>0, EmptyValues DEF Matches
<1>4. Matches(r, tabbed)
  BY <1>1, EmptyValues DEF Matches
<1>5. Matches(r, silent) <=> Outs(r) = {}
  BY <1>2, EmptyValues DEF Matches, None
<1> QED
  BY <1>3, <1>4, <1>5 DEF tabbed, silent

LEMMA MatchesDistricts ==
    ASSUME NEW r, NEW ds
    PROVE  Matches(r, [EMPTY EXCEPT !.districts = ds]) <=>
              (ds # {} => \E s \in Outs(r) : StatementMatchesDistricts(r, s, ds))
<1> DEFINE f == [EMPTY EXCEPT !.districts = ds]
<1>1. /\ f.districts = ds /\ f.hq = {} /\ f.orgTypes = {} /\ f.verification = {}
      /\ f.hasResponse = None /\ f.q = EMPTY.q
  BY EmptyValues DEF EMPTY
<1> HIDE DEF f
<1>2. Matches(r, f) <=> (ds # {} => \E s \in Outs(r) : StatementMatchesDistricts(r, s, ds))
  BY <1>1, EmptyValues DEF Matches
<1> QED
  BY <1>2 DEF f

LEMMA DistrictKeys == ASSUME TypeOK, OneRowEach PROVE DistrictCodes(Rows) = FacetDistricts /\ None \notin FacetDistricts
<1>1. \A r \in Rows : \A s \in Outs(r) : r.outs[s] \subseteq District
  <2>1. Rows \subseteq Answer
    BY KeyCount
  <2> QED
    BY <2>1 DEF Answer, Outs
<1>2. \A d : d \in DistrictCodes(Rows) <=> \E r \in Rows : \E s \in Outs(r) : d \in r.outs[s]
  BY DEF DistrictCodes
<1>3. \A d : DistrictOrgs(Rows, d) # {} <=> \E r \in Rows : \E s \in Outs(r) : d \in r.outs[s]
  BY DEF DistrictOrgs
<1>4. \A d : d \in DistrictCodes(Rows) <=> d \in FacetDistricts
  BY <1>1, <1>2, <1>3 DEF FacetDistricts
<1> QED
  BY <1>4, ConstantsAssumption DEF FacetDistricts

LEMMA HeadRows ==
    ASSUME TypeOK, OneRowEach
    PROVE  /\ ApplyFilters(NumberLineTargets["orgs"]) = Rows
           /\ ApplyFilters(NumberLineTargets["statements"]) = Rows
           /\ DistrictCodes(ApplyFilters(NumberLineTargets["districts"])) = DistrictCodes(Rows)
           /\ ApplyFilters(NumberLineTargets["noResponse"]) = {r \in Rows : Outs(r) = {}}
           /\ \A d \in FacetDistricts :
                 Cardinality(ApplyFilters(DistrictLink(d))) = CountFacet(Rows, "districts", d)
<1> DEFINE all == FacetDistricts
           chosen == ApplyFilters([EMPTY EXCEPT !.districts = all])
<1>1. DistrictCodes(chosen) = DistrictCodes(Rows)
  <2>1. ASSUME all = {} PROVE chosen = Rows
    BY <2>1, MatchesDistricts DEF ApplyFilters
  <2>2. ASSUME all # {} PROVE DistrictCodes(chosen) = DistrictCodes(Rows)
    <3>1. chosen = {r \in Rows : \E s \in Outs(r) : StatementMatchesDistricts(r, s, all)}
      BY <2>2, MatchesDistricts DEF ApplyFilters
    <3> HIDE DEF chosen
    <3>2. \A rows : \A d : d \in DistrictCodes(rows) <=> \E r \in rows : \E s \in Outs(r) : d \in r.outs[s]
      BY DEF DistrictCodes
    <3>3. ASSUME NEW d \in DistrictCodes(Rows) PROVE d \in DistrictCodes(chosen)
      <4>1. PICK r \in Rows : \E s \in Outs(r) : d \in r.outs[s]
        BY <3>2
      <4>2. PICK s \in Outs(r) : d \in r.outs[s]
        BY <4>1
      <4>3. d \in all
        BY DistrictKeys
      <4>4. r \in chosen
        BY <3>1, <4>2, <4>3 DEF StatementMatchesDistricts
      <4> QED
        BY <3>2, <4>2, <4>4
    <3>4. DistrictCodes(chosen) \subseteq DistrictCodes(Rows)
      BY <3>1, <3>2
    <3> QED
      BY <3>3, <3>4
  <2> QED
    BY <2>1, <2>2
<1>2. ASSUME NEW d \in all
      PROVE  Cardinality(ApplyFilters(DistrictLink(d))) = CountFacet(Rows, "districts", d)
  <2>1. ApplyFilters(DistrictLink(d)) = {r \in Rows : Wants(r, "districts", d)}
    BY MatchesDistricts DEF DistrictLink, ApplyFilters, Wants
  <2>2. d \in CanonicalOptions("districts") /\ "districts" \in Group
    BY DEF CanonicalOptions, Group
  <2> QED
    BY <2>1, <2>2, FacetRows
<1>3. /\ NumberLineTargets["orgs"] = EMPTY
      /\ NumberLineTargets["statements"] = [EMPTY EXCEPT !.tab = "chronological"]
      /\ NumberLineTargets["districts"] = [EMPTY EXCEPT !.districts = all]
      /\ NumberLineTargets["noResponse"] = [EMPTY EXCEPT !.hasResponse = "no"]
  BY DEF NumberLineTargets
<1>4. /\ ApplyFilters(NumberLineTargets["orgs"]) = Rows
      /\ ApplyFilters(NumberLineTargets["statements"]) = Rows
      /\ ApplyFilters(NumberLineTargets["noResponse"]) = {r \in Rows : Outs(r) = {}}
  BY <1>3, MatchesAll DEF ApplyFilters
<1> QED
  BY <1>1, <1>2, <1>3, <1>4

(* The counts of the facets and of the head of the page are what a reader  *)
(* gets, for every answer of the API and every state of the filters.  The  *)
(* page counts keys where the filter finds rows: it is one row per key,    *)
(* which the API's grouping guarantees, that makes them agree.             *)
THEOREM CountsHold == Spec => []CountsAreRows
<1>1. PageState /\ TypeOK /\ OneRowEach => CountsAreRows
  <2> SUFFICES ASSUME PageState, TypeOK, OneRowEach PROVE CountsAreRows
    OBVIOUS
  <2>1. ASSUME NEW g \in Group, filters[g] = {}, NEW option \in CanonicalOptions(g)
        PROVE  CountFacet(Shown, g, option) = Cardinality(ApplyFilters([filters EXCEPT ![g] = {option}]))
    <3>1. Shown \in SUBSET Rows
      BY DEF Shown, ApplyFilters
    <3>2. CountFacet(Shown, g, option) = Cardinality({r \in Shown : Wants(r, g, option)})
      BY <3>1, FacetRows
    <3>3. ApplyFilters([filters EXCEPT ![g] = {option}]) = {r \in Shown : Wants(r, g, option)}
      BY <2>1, OptionRows
    <3> QED
      BY <3>2, <3>3
  <2>2. /\ BoardCounts.orgs = Cardinality(Rows)
        /\ BoardCounts.statements = StatementCount(Rows)
        /\ BoardCounts.districts = Cardinality(DistrictCodes(Rows))
        /\ BoardCounts.noResponse = Cardinality({r \in Rows : Outs(r) = {}})
    BY KeyCount DEF BoardCounts
  <2> QED
    BY <2>1, <2>2, HeadRows DEF CountsAreRows
<1> QED
  BY <1>1, PageHolds, RowsHold, PTL
=============================================================================

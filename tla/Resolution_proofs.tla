-------------------------- MODULE Resolution_proofs ---------------------------
(***************************************************************************)
(* Safety theorems about Resolution, for every set of names, places and    *)
(* statements, any alias files and any number of overlapping runs.         *)
(***************************************************************************)
EXTENDS Resolution, TLAPS

LEMMA Constants ==
    /\ Norm \in [Text -> Text]
    /\ ReportOf \in [Statement -> Report]
    /\ NameOf \in [Statement -> Text]
    /\ HandResearched \subseteq Statement
    /\ RecordOf \in [HandResearched -> Org]
    /\ Files \in Seq(Seq(Text \X Org)) /\ Files # <<>>
    /\ Gazetteers \in [DOMAIN Files -> Seq(Text \X District)]
    /\ Ticks \cap Requests = {}
    /\ None \notin Org /\ None \notin District
    /\ MaxFaults \in Nat
  BY ConstantsAssumption

LEMMA ClaimType ==
    ASSUME NEW Target, NEW entries \in Seq(Text \X Target), NEW k
    PROVE  FirstClaim(entries, k) \in OrNone(Target)
<1> DEFINE hits == {i \in DOMAIN entries : Norm[entries[i][1]] = k}
           First(i) == i \in hits /\ \A j \in hits : i <= j
           first == CHOOSE i \in DOMAIN entries : First(i)
<1>1. CASE k # Blank /\ \E i \in DOMAIN entries : First(i)
  <2>1. first \in DOMAIN entries
    BY <1>1
  <2> HIDE DEF first
  <2>2. entries[first] \in Text \X Target
    BY <2>1
  <2>3. entries[first][2] \in Target
    BY <2>2
  <2>4. FirstClaim(entries, k) = entries[first][2]
    BY <1>1 DEF FirstClaim, first
  <2> QED
    BY <2>3, <2>4 DEF OrNone
<1>2. CASE ~(k # Blank /\ \E i \in DOMAIN entries : First(i))
  <2>1. FirstClaim(entries, k) = None
    BY <1>2 DEF FirstClaim
  <2> QED
    BY <2>1 DEF OrNone
<1> QED
  BY <1>1, <1>2

(* What the loaders write into the alias tables.                           *)
LEMMA LoadedType ==
    ASSUME TypeOK, NEW k \in Key
    PROVE  /\ ClaimAliases(k) \in OrNone(Org)
           /\ FirstClaim(Gazetteers[release], k) \in OrNone(District)
<1>1. Files[release] \in Seq(Text \X Org)
  BY Constants DEF TypeOK
<1>2. Gazetteers[release] \in Seq(Text \X District)
  BY Constants DEF TypeOK
<1> QED
  BY <1>1, <1>2, ClaimType DEF ClaimAliases, TypeOK
-----------------------------------------------------------------------------
(* Types *)

LEMMA StepType ==
    ASSUME TypeOK, NEW p \in Process, Start(p) \/ Step(p) \/ Fails(p)
    PROVE  TypeOK'
<1> USE DEF TypeOK
<1>1. ASSUME NEW loc \in Location, Goto(p, loc) PROVE at' \in [Process -> Location]
  BY <1>1 DEF Goto
<1>2. CASE ReadOrgAliases(p)
  BY <1>1, <1>2 DEF ReadOrgAliases, Location, tables, web
<1>3. CASE PlanUpdates(p)
  <2>1. \A s \in Statement : Norm[NameOf[s]] \in Key
    BY Constants DEF Key
  <2>2. names[p] \in [Key -> OrNone(Org)]
    OBVIOUS
  <2>3. updates' \in [Process -> [Statement -> OrNone(Org)]]
    <3> DEFINE new == [s \in Statement |->
                IF s \in Candidates THEN names[p][Norm[NameOf[s]]] ELSE None]
    <3>1. new \in [Statement -> OrNone(Org)]
      BY <2>1, <2>2 DEF OrNone
    <3> HIDE DEF new
    <3>2. updates' = [updates EXCEPT ![p] = new]
      BY <1>3 DEF PlanUpdates, new
    <3> QED
      BY <3>1, <3>2
  <2>4. names' \in [Process -> [Key -> OrNone(Org)]]
    BY <1>3 DEF PlanUpdates, NoAliases, OrNone
  <2>5. at' \in [Process -> Location]
    BY <1>1, <1>3 DEF PlanUpdates, Location
  <2> QED
    BY <1>3, <2>3, <2>4, <2>5 DEF PlanUpdates, tables, web
<1>4. CASE CommitUpdates(p)
  <2>1. orgOf' \in [Statement -> OrNone(Org)]
    BY <1>4 DEF CommitUpdates
  <2>2. updates' \in [Process -> [Statement -> OrNone(Org)]]
    BY <1>4 DEF CommitUpdates, NoOrgs, OrNone
  <2>3. at' \in [Process -> Location]
    BY <1>1, <1>4 DEF CommitUpdates, AfterMatch, Location
  <2>4. behind' \subseteq {"orgs", "districts"}
    BY <1>4 DEF CommitUpdates, OrgsChange
  <2> QED
    BY <1>4, <2>1, <2>2, <2>3, <2>4 DEF CommitUpdates
<1>5. CASE ReadPlaceAliases(p)
  BY <1>1, <1>5 DEF ReadPlaceAliases, Location, tables, web
<1>6. CASE ReadExisting(p)
  BY <1>1, <1>6 DEF ReadExisting, Location, tables, web
<1>7. CASE PlanRows(p)
  <2>1. rows' \in [Process -> [Cell -> Resolution]]
    <3> DEFINE new == [c \in Cell |-> RowFor(p, c[1], c[2])]
    <3>1. new \in [Cell -> Resolution]
      BY DEF RowFor, Resolution
    <3> HIDE DEF new
    <3>2. rows' = [rows EXCEPT ![p] = new]
      BY <1>7 DEF PlanRows, new
    <3> QED
      BY <3>1, <3>2
  <2>2. places' \in [Process -> [Key -> OrNone(District)]]
    BY <1>7 DEF PlanRows, NoAliases, OrNone
  <2>3. at' \in [Process -> Location]
    BY <1>1, <1>7 DEF PlanRows, Location
  <2> QED
    BY <1>7, <2>1, <2>2, <2>3 DEF PlanRows, tables, web
<1>8. CASE CommitRows(p)
  <2>1. where' \in [Cell -> Resolution]
    BY <1>8 DEF CommitRows, Merged
  <2>2. rows' \in [Process -> [Cell -> Resolution]]
    BY <1>8 DEF CommitRows, NoRows, Resolution
  <2>3. at' \in [Process -> Location]
    BY <1>1, <1>8 DEF CommitRows, Location
  <2> QED
    BY <1>8, <2>1, <2>2, <2>3 DEF CommitRows
<1>9. CASE SendHint(p)
  BY <1>1, <1>9 DEF SendHint, Location, tables, locals
<1>10. CASE HintLost(p)
  BY <1>1, <1>10 DEF HintLost, Location, tables, locals
<1>11. CASE Fails(p)
  <2>1. at' \in [Process -> Location]
    BY <1>1, <1>11 DEF Fails, Location
  <2>2. /\ names' \in [Process -> [Key -> OrNone(Org)]]
        /\ updates' \in [Process -> [Statement -> OrNone(Org)]]
        /\ places' \in [Process -> [Key -> OrNone(District)]]
        /\ settled' \in [Process -> SUBSET Statement]
        /\ rows' \in [Process -> [Cell -> Resolution]]
    BY <1>11 DEF Fails, Forget, NoAliases, NoOrgs, NoRows, OrNone, Resolution
  <2> QED
    BY <1>11, <2>1, <2>2 DEF Fails, Fault, tables, web
<1> QED
  BY <1>2, <1>3, <1>4, <1>5, <1>6, <1>7, <1>8, <1>9, <1>10, <1>11
     DEF Start, Step

LEMMA TypeStep == TypeOK /\ [Next]_vars => TypeOK'
<1> SUFFICES ASSUME TypeOK, [Next]_vars PROVE TypeOK'
  OBVIOUS
<1>1. CASE Deploy
  <2>1. release' \in DOMAIN Files
    BY <1>1, Constants DEF Deploy, TypeOK
  <2> QED
    BY <1>1, <2>1 DEF Deploy, TypeOK, tables, locals, web
<1>2. CASE SeedReference
  <2>1. placeAlias' \in [Key -> OrNone(District)]
    BY <1>2, LoadedType DEF SeedReference, TypeOK
  <2> QED
    BY <1>2, <2>1 DEF SeedReference, TypeOK, locals, web
<1>3. CASE IngestOrgs
  <2>1. orgAlias' \in [Key -> OrNone(Org)]
    BY <1>3, LoadedType DEF IngestOrgs
  <2>2. orgOf' \in [Statement -> OrNone(Org)]
    BY <1>3, Constants DEF IngestOrgs, TypeOK, OrNone
  <2>3. stored' \subseteq Statement
    BY <1>3, Constants DEF IngestOrgs, TypeOK
  <2>4. behind' \subseteq {"orgs", "districts"}
    BY <1>3 DEF IngestOrgs, OrgsChange, TypeOK
  <2> QED
    BY <1>3, <2>1, <2>2, <2>3, <2>4 DEF IngestOrgs, TypeOK, locals
<1>4. ASSUME NEW r \in Report, StoreStatements(r) PROVE TypeOK'
  BY <1>4 DEF StoreStatements, TypeOK, locals, web
<1>5. ASSUME NEW p \in Process, Start(p) \/ Step(p) \/ Fails(p) PROVE TypeOK'
  BY <1>5, StepType
<1>6. CASE Render
  BY <1>6 DEF Render, TypeOK, tables, locals
<1>7. CASE UNCHANGED vars
  BY <1>7 DEF vars, TypeOK, tables, locals, web
<1> QED
  BY <1>1, <1>2, <1>3, <1>4, <1>5, <1>6, <1>7 DEF Next

(* The tables hold what their constraints allow, in particular a           *)
(* resolution of the enum and an organisation that exists.                 *)
THEOREM TypeCorrect == Spec => []TypeOK
<1>1. ASSUME Init PROVE TypeOK
  <2>1. 1 \in DOMAIN Files
    BY Constants
  <2>2. /\ NoAliases \in [Key -> OrNone(Org)] /\ NoAliases \in [Key -> OrNone(District)]
        /\ NoOrgs \in [Statement -> OrNone(Org)]
        /\ NoRows \in [Cell -> Resolution]
    BY DEF NoAliases, NoOrgs, NoRows, OrNone, Resolution
  <2> QED
    BY <1>1, <2>1, <2>2 DEF Init, TypeOK, Location
<1> QED
  BY <1>1, TypeStep, PTL DEF Spec
-----------------------------------------------------------------------------
(* Inherited districts *)

(* A planned row that inherits a district has a planned row that states it: *)
(* the pool is computed from the same statements with the same aliases.    *)
LEMMA PlannedHasSource ==
    ASSUME TypeOK, NEW p \in Process, NEW s \in Statement, NEW d \in District,
           RowFor(p, s, d) = "inherited_from_report"
    PROVE  \E t \in Statement : ReportOf[t] = ReportOf[s] /\ RowFor(p, t, d) = "stated"
<1>1. d \in Pool(p, s)
  BY DEF RowFor, None
<1>2. PICK t \in Candidates : ReportOf[t] = ReportOf[s] /\ d \in Codes(p, t)
  BY <1>1 DEF Pool
<1>3. t \in Statement
  BY <1>2 DEF Candidates, TypeOK
<1> QED
  BY <1>2, <1>3 DEF RowFor

Sourced == InheritedHasSource /\ RowsHaveSource

(* The upsert may take a stated row back to inherited, then a row of the   *)
(* same run states the district.                                           *)
LEMMA CommitKeepsSources ==
    ASSUME TypeOK, Sourced, NEW p \in Process, CommitRows(p)
    PROVE  InheritedHasSource'
<1>1. where' = [c \in Cell |-> IF rows[p][c] # None THEN rows[p][c] ELSE where[c]]
  BY DEF CommitRows, Merged
<1> SUFFICES ASSUME NEW s \in Statement, NEW d \in District,
                    where'[<<s, d>>] = "inherited_from_report"
             PROVE  \E t \in Statement :
                       ReportOf[t] = ReportOf[s] /\ where'[<<t, d>>] = "stated"
  BY DEF InheritedHasSource
<1>2. \A t \in Statement : <<t, d>> \in Cell
  BY DEF Cell
<1>3. ASSUME NEW u \in Statement, ReportOf[u] = ReportOf[s],
             rows[p][<<u, d>>] = "inherited_from_report"
      PROVE  \E t \in Statement :
                ReportOf[t] = ReportOf[s] /\ where'[<<t, d>>] = "stated"
  <2>1. PICK t \in Statement : ReportOf[t] = ReportOf[u] /\ rows[p][<<t, d>>] = "stated"
    BY <1>3 DEF Sourced, RowsHaveSource
  <2>2. where'[<<t, d>>] = "stated"
    BY <1>1, <1>2, <2>1 DEF None
  <2> QED
    BY <1>3, <2>1, <2>2
<1>4. CASE rows[p][<<s, d>>] # None
  <2>1. rows[p][<<s, d>>] = "inherited_from_report"
    BY <1>1, <1>2, <1>4
  <2> QED
    BY <1>3, <2>1
<1>5. CASE rows[p][<<s, d>>] = None
  <2>1. where[<<s, d>>] = "inherited_from_report"
    BY <1>1, <1>2, <1>5
  <2>2. PICK t \in Statement : ReportOf[t] = ReportOf[s] /\ where[<<t, d>>] = "stated"
    BY <2>1 DEF Sourced, InheritedHasSource
  <2>3. CASE rows[p][<<t, d>>] = "inherited_from_report"
    BY <1>3, <2>2, <2>3
  <2>4. CASE rows[p][<<t, d>>] # "inherited_from_report"
    <3>1. rows[p][<<t, d>>] \in Resolution
      BY <1>2 DEF TypeOK
    <3>2. where'[<<t, d>>] = "stated"
      BY <1>1, <1>2, <2>2, <2>4, <3>1 DEF Resolution
    <3> QED
      BY <2>2, <3>2
  <2> QED
    BY <2>3, <2>4
<1> QED
  BY <1>4, <1>5

LEMMA RowsStep ==
    ASSUME TypeOK, RowsHaveSource, NEW p \in Process, Start(p) \/ Step(p) \/ Fails(p)
    PROVE  RowsHaveSource'
<1> SUFFICES ASSUME NEW q \in Process, NEW s \in Statement, NEW d \in District,
                    rows'[q][<<s, d>>] = "inherited_from_report"
             PROVE  \E t \in Statement :
                       ReportOf[t] = ReportOf[s] /\ rows'[q][<<t, d>>] = "stated"
  BY DEF RowsHaveSource
<1>1. CASE rows'[q] = rows[q]
  BY <1>1 DEF RowsHaveSource
<1>2. CASE rows'[q] = NoRows
  <2>1. rows'[q][<<s, d>>] = None
    BY <1>2 DEF NoRows, Cell
  <2> QED
    BY <2>1 DEF None
<1>3. CASE PlanRows(p) /\ q = p
  <2>1. rows'[q] = [c \in Cell |-> RowFor(p, c[1], c[2])]
    BY <1>3 DEF PlanRows, TypeOK
  <2>2. \A t \in Statement : rows'[q][<<t, d>>] = RowFor(p, t, d)
    BY <2>1 DEF Cell
  <2> QED
    BY <2>2, PlannedHasSource
<1>4. rows'[q] = rows[q] \/ rows'[q] = NoRows \/ (PlanRows(p) /\ q = p)
  <2>1. CASE CommitRows(p)
    BY <2>1 DEF CommitRows, TypeOK
  <2>2. CASE Fails(p)
    BY <2>2 DEF Fails, Forget, TypeOK
  <2>3. CASE PlanRows(p)
    BY <2>3 DEF PlanRows, TypeOK
  <2>4. CASE ~(CommitRows(p) \/ Fails(p) \/ PlanRows(p))
    <3>1. UNCHANGED rows
      BY <2>4 DEF Start, Step, ReadOrgAliases, PlanUpdates, CommitUpdates, ReadPlaceAliases,
                  ReadExisting, SendHint, HintLost, locals
    <3> QED
      BY <3>1
  <2> QED
    BY <2>1, <2>2, <2>3, <2>4
<1> QED
  BY <1>1, <1>2, <1>3, <1>4

LEMMA SourcedStep == TypeOK /\ Sourced /\ [Next]_vars => Sourced'
<1> SUFFICES ASSUME TypeOK, Sourced, [Next]_vars PROVE Sourced'
  OBVIOUS
<1>1. ASSUME UNCHANGED <<where, rows>> PROVE Sourced'
  BY <1>1 DEF Sourced, InheritedHasSource, RowsHaveSource
<1>2. CASE Deploy \/ SeedReference \/ IngestOrgs \/ Render \/ UNCHANGED vars
  BY <1>1, <1>2 DEF Deploy, SeedReference, IngestOrgs, Render, vars, tables, locals
<1>3. CASE \E r \in Report : StoreStatements(r)
  BY <1>1, <1>3 DEF StoreStatements, locals
<1>4. ASSUME NEW p \in Process, Start(p) \/ Step(p) \/ Fails(p) PROVE Sourced'
  <2>1. RowsHaveSource'
    BY <1>4, RowsStep DEF Sourced
  <2>2. CASE CommitRows(p)
    BY <2>1, <2>2, CommitKeepsSources DEF Sourced
  <2>3. CASE ~CommitRows(p)
    <3>1. UNCHANGED where
      BY <1>4, <2>3 DEF Start, Step, Fails, ReadOrgAliases, PlanUpdates, CommitUpdates,
                  ReadPlaceAliases, ReadExisting, PlanRows, SendHint, HintLost, tables
    <3> QED
      BY <2>1, <3>1 DEF Sourced, InheritedHasSource
  <2> QED
    BY <2>2, <2>3
<1> QED
  BY <1>2, <1>3, <1>4 DEF Next

(* Whichever runs overlap, fail or read older aliases, no district is      *)
(* inherited that no statement of the report states.                       *)
THEOREM SourceHolds == Spec => []InheritedHasSource
<1>1. ASSUME Init PROVE Sourced
  BY <1>1 DEF Init, Sourced, InheritedHasSource, RowsHaveSource, NoRows, None, Cell
<1>2. Sourced => InheritedHasSource
  BY DEF Sourced
<1> QED
  BY <1>1, <1>2, SourcedStep, TypeCorrect, PTL DEF Spec
-----------------------------------------------------------------------------
(* Attribution *)

(* An alias has one owner for good; what a run holds of the aliases, what  *)
(* it is about to write and what was written all agree with that owner,    *)
(* however old the copy.                                                   *)
Owned ==
    /\ \A p \in Process, k \in Key : names[p][k] # None => names[p][k] = orgAlias[k]
    /\ \A p \in Process, s \in Statement :
           updates[p][s] # None => updates[p][s] = AliasOf(s)
    /\ \A s \in Statement \ HandResearched : orgOf[s] # None => orgOf[s] = AliasOf(s)

LEMMA NameHasKey == \A s \in Statement : Norm[NameOf[s]] \in Key
  BY Constants DEF Key

LEMMA OwnedStep == TypeOK /\ Owned /\ [Next]_vars => Owned'
<1> SUFFICES ASSUME TypeOK, Owned, [Next]_vars PROVE Owned'
  OBVIOUS
<1>1. ASSUME UNCHANGED <<orgAlias, names, updates, orgOf>> PROVE Owned'
  BY <1>1 DEF Owned, AliasOf
<1>2. CASE Deploy \/ SeedReference \/ Render \/ UNCHANGED vars
  BY <1>1, <1>2 DEF Deploy, SeedReference, Render, vars, tables, locals
<1>3. CASE \E r \in Report : StoreStatements(r)
  BY <1>1, <1>3 DEF StoreStatements, locals
<1>4. CASE IngestOrgs
  <2>1. \A k \in Key : orgAlias[k] # None => orgAlias'[k] = orgAlias[k]
    BY <1>4 DEF IngestOrgs, ClaimAliases
  <2>2. \A s \in Statement : AliasOf(s) # None => AliasOf(s)' = AliasOf(s)
    BY <2>1, NameHasKey DEF AliasOf
  <2>3. \A s \in Statement \ HandResearched : orgOf'[s] = orgOf[s]
    BY <1>4 DEF IngestOrgs
  <2>4. UNCHANGED <<names, updates>>
    BY <1>4 DEF IngestOrgs, locals
  <2> QED
    BY <2>1, <2>2, <2>3, <2>4 DEF Owned
<1>5. ASSUME NEW p \in Process, Start(p) \/ Step(p) \/ Fails(p) PROVE Owned'
  <2>1. CASE ReadOrgAliases(p)
    BY <2>1 DEF ReadOrgAliases, Owned, TypeOK, tables, AliasOf
  <2>2. CASE PlanUpdates(p)
    <3>1. UNCHANGED <<orgAlias, orgOf>>
      BY <2>2 DEF PlanUpdates, tables
    <3>2. \A q \in Process, s \in Statement :
             updates'[q][s] # None => updates'[q][s] = AliasOf(s)
      BY <2>2, NameHasKey DEF PlanUpdates, Owned, TypeOK, AliasOf
    <3>3. \A q \in Process, k \in Key : names'[q][k] # None => names'[q][k] = orgAlias[k]
      BY <2>2 DEF PlanUpdates, Owned, TypeOK, NoAliases
    <3> QED
      BY <3>1, <3>2, <3>3 DEF Owned, AliasOf
  <2>3. CASE CommitUpdates(p)
    <3>1. UNCHANGED <<orgAlias, names>>
      BY <2>3 DEF CommitUpdates
    <3>2. \A q \in Process, s \in Statement :
             updates'[q][s] # None => updates'[q][s] = AliasOf(s)
      BY <2>3 DEF CommitUpdates, Owned, TypeOK, NoOrgs
    <3>3. \A s \in Statement \ HandResearched :
             orgOf'[s] # None => orgOf'[s] = AliasOf(s)
      BY <2>3 DEF CommitUpdates, Owned
    <3> QED
      BY <3>1, <3>2, <3>3 DEF Owned, AliasOf
  <2>4. CASE Fails(p)
    BY <2>4 DEF Fails, Forget, Owned, TypeOK, NoAliases, NoOrgs, tables, AliasOf
  <2>5. CASE ~(ReadOrgAliases(p) \/ PlanUpdates(p) \/ CommitUpdates(p) \/ Fails(p))
    <3>1. UNCHANGED <<orgAlias, names, updates, orgOf>>
      BY <1>5, <2>5 DEF Start, Step, ReadPlaceAliases, ReadExisting, PlanRows, CommitRows,
                        SendHint, HintLost, tables, locals
    <3> QED
      BY <1>1, <3>1
  <2> QED
    BY <2>1, <2>2, <2>3, <2>4, <2>5
<1> QED
  BY <1>2, <1>3, <1>4, <1>5 DEF Next

(* No later file, ingest or run moves an attributed statement to another   *)
(* organisation.                                                           *)
THEOREM AttributionHolds == Spec => AttributionIsFinal
<1>1. ASSUME Init PROVE Owned
  BY <1>1, NameHasKey DEF Init, Owned, NoAliases, NoOrgs
<1>2. ASSUME TypeOK, Owned, Owned', [Next]_vars,
             NEW s \in Statement \ HandResearched, orgOf[s] # None
      PROVE  orgOf'[s] = orgOf[s]
  <2>1. CASE IngestOrgs
    BY <1>2, <2>1 DEF IngestOrgs
  <2>2. CASE \E p \in Process : CommitUpdates(p)
    BY <1>2, <2>2 DEF CommitUpdates, Owned
  <2>3. CASE ~(IngestOrgs \/ \E p \in Process : CommitUpdates(p))
    BY <1>2, <2>3 DEF Next, Start, Step, Fails, Deploy, SeedReference, StoreStatements,
         ReadOrgAliases, PlanUpdates, ReadPlaceAliases, ReadExisting, PlanRows, CommitRows,
         SendHint, HintLost, Render, vars, tables
  <2> QED
    BY <2>1, <2>2, <2>3
<1>3. TypeOK /\ Owned /\ Owned' /\ [Next]_vars =>
        [\A s \in Statement \ HandResearched :
            orgOf[s] # None => orgOf'[s] = orgOf[s]]_vars
  BY <1>2
<1> QED
  BY <1>1, <1>3, OwnedStep, TypeCorrect, PTL DEF Spec, AttributionIsFinal
-----------------------------------------------------------------------------
(* The board *)

LEMMA FreshStep == TypeOK /\ FreshPageShowsDistricts /\ [Next]_vars => FreshPageShowsDistricts'
<1> SUFFICES ASSUME TypeOK, FreshPageShowsDistricts, [Next]_vars
             PROVE  FreshPageShowsDistricts'
  OBVIOUS
<1>1. ASSUME UNCHANGED <<at, behind, stale, missed>> PROVE FreshPageShowsDistricts'
  BY <1>1 DEF FreshPageShowsDistricts
<1>2. CASE Deploy \/ SeedReference \/ UNCHANGED vars
  BY <1>1, <1>2 DEF Deploy, SeedReference, vars, web
<1>3. CASE \E r \in Report : StoreStatements(r)
  BY <1>1, <1>3 DEF StoreStatements, web
<1>4. CASE IngestOrgs
  BY <1>4 DEF IngestOrgs, OrgsChange, FreshPageShowsDistricts
<1>5. CASE Render
  BY <1>5 DEF Render, FreshPageShowsDistricts
<1>6. ASSUME NEW p \in Process, Start(p) \/ Step(p) \/ Fails(p)
      PROVE  FreshPageShowsDistricts'
  <2>1. CASE CommitRows(p)
    <3>1. CASE where' = where
      <4>1. at[p] = "rows" /\ at' = [at EXCEPT ![p] = "off"]
        BY <2>1, <3>1 DEF CommitRows, Written, Goto
      <4>2. UNCHANGED <<behind, stale, missed>>
        BY <2>1, <3>1 DEF CommitRows
      <4> QED
        BY <4>1, <4>2 DEF FreshPageShowsDistricts, TypeOK
    <3>2. CASE where' # where
      <4>1. at'[p] = "hint"
        BY <2>1, <3>2 DEF CommitRows, Written, Goto, TypeOK
      <4> QED
        BY <4>1 DEF FreshPageShowsDistricts
    <3> QED
      BY <3>1, <3>2
  <2>2. CASE SendHint(p)
    BY <2>2 DEF SendHint, FreshPageShowsDistricts
  <2>3. CASE HintLost(p)
    BY <2>3 DEF HintLost, FreshPageShowsDistricts
  <2>4. CASE ~(CommitRows(p) \/ SendHint(p) \/ HintLost(p))
    <3>1. at[p] # "hint" /\ \E loc \in Location \ {"hint"} : at' = [at EXCEPT ![p] = loc]
      BY <1>6, <2>4 DEF Start, Step, Fails, ReadOrgAliases, PlanUpdates, CommitUpdates,
           AfterMatch, ReadPlaceAliases, ReadExisting, PlanRows, Goto, Location
    <3>2. UNCHANGED <<stale, missed>> /\ ("districts" \in behind' => "districts" \in behind)
      BY <1>6, <2>4 DEF Start, Step, Fails, ReadOrgAliases, PlanUpdates, CommitUpdates,
           OrgsChange, ReadPlaceAliases, ReadExisting, PlanRows, web
    <3> QED
      BY <3>1, <3>2 DEF FreshPageShowsDistricts, TypeOK
  <2> QED
    BY <2>1, <2>2, <2>3, <2>4
<1> QED
  BY <1>2, <1>3, <1>4, <1>5, <1>6 DEF Next

(* As the hint follows the commit, no render can show the old districts    *)
(* after it: only a lost hint leaves an unmarked page behind the table.    *)
THEOREM FreshHolds == Spec => []FreshPageShowsDistricts
<1>1. ASSUME Init PROVE FreshPageShowsDistricts
  BY <1>1 DEF Init, FreshPageShowsDistricts
<1> QED
  BY <1>1, FreshStep, TypeCorrect, PTL DEF Spec
=============================================================================

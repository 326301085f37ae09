-------------------------- MODULE BoardLists_proofs --------------------------
(***************************************************************************)
(* Theorems about the lists of Board: one answer put together from several *)
(* SELECTs, and a list read page by page.                                  *)
(***************************************************************************)
EXTENDS Board, FiniteSetTheorems, SequenceTheorems, TLAPS

(* Each key once, and each statement under one of them.                    *)
Distinct(groups) ==
    \A g, h \in groups : g # h => g.key # h.key /\ g.stmts \cap h.stmts = {}

(* Which queries a request makes, and who may have sent it.                *)
Course ==
    /\ request.pc # "idle" => request.sender # None
    /\ request.pc # "idle" /\ request.sender = "page" => crawl.state = "none" /\ reader = "away"
    /\ request.pc # "idle" /\ request.sender = "client" =>
          crawl.state = "on" /\ request.ask = crawl.ask /\ request.offset = Len(crawl.got)
    /\ request.pc = "stream" => request.ask.list = "statements"
    /\ request.pc \in {"statements", "candidates", "responded"} => request.ask.list # "statements"
    /\ request.pc = "statements" => request.ask.response # "no"
    /\ request.pc = "responded" => request.ask.response = "no"
    /\ request.pc \in {"idle", "stream", "statements"} => request.groups = {}
    /\ request.pc = "candidates" /\ request.ask.response = "no" => request.groups = {}
    /\ request.pc = "candidates" => Unfiltered(request.ask) \/ request.ask.response = "no"
    /\ request.pc = "hydrate" => request.ask.response # "no"

(* What was there when the request came in is still there, and a statement *)
(* that belonged to an organisation still does.                            *)
Since ==
    \A s \in Statement : request.since[s] # None =>
        /\ s \in Stored
        /\ request.since[s] \in Org => OrgOf(s) = request.since[s]

(* What the queries made so far have put together.                         *)
OneAnswer ==
    /\ IsFiniteSet(request.groups) /\ Distinct(request.groups)
    /\ request.ask = BoardAsk =>
          /\ request.pc \in {"candidates", "hydrate", "respond"} =>
                \A s \in Statement :
                    request.since[s] # None => s \in UNION {g.stmts : g \in request.groups}
          /\ request.pc \in {"hydrate", "respond"} => Org \subseteq KeysOf(request.groups)
    /\ request.ask.response = "no" =>
          /\ \A g \in request.groups : g.key \in Org /\ g.stmts = {}
          /\ request.pc = "respond" =>
                \A s \in Statement : request.since[s] \notin KeysOf(request.groups)

(* The same, when nothing was committed since the client began.            *)
AtRest ==
    LET ask == request.ask IN
    request.pc # "idle" /\ request.sender = "client" /\ crawl.steady =>
        /\ request.pc = "candidates" /\ ask.response # "no" => request.groups = Grouped(Passing(ask))
        /\ request.pc = "responded" => request.groups = Silent(Candidates(ask))
        /\ request.pc \in {"hydrate", "respond"} => request.groups = Wanted(ask)

(* Every row a client has stands where one of the orders puts it.          *)
InPlace(got, ask) ==
    \A n \in DOMAIN got : \E order \in Orders(Wanted(ask), ask) :
        /\ n \in DOMAIN order
        /\ got[n].key = order[n].key /\ DOMAIN got[n].outs = order[n].stmts

Pages ==
    /\ crawl.state = "none" => crawl = NoCrawl
    /\ crawl.steady => InPlace(crawl.got, crawl.ask)
    /\ crawl.state = "done" /\ crawl.steady =>
          Len(crawl.got) = crawl.total /\ crawl.total = Cardinality(Wanted(crawl.ask))

Lists == TypeOK /\ Course /\ Since /\ OneAnswer /\ AtRest /\ Pages
-----------------------------------------------------------------------------
(* Orders *)

(* An order lists every row of a finite set once.                          *)
LEMMA OrderProperties ==
    ASSUME NEW groups, IsFiniteSet(groups), NEW ask, NEW order \in Orders(groups, ask)
    PROVE  /\ Cardinality(groups) \in Nat
           /\ order \in Seq(groups) /\ Len(order) = Cardinality(groups)
           /\ DOMAIN order = 1..Cardinality(groups)
           /\ \A i, j \in DOMAIN order : order[i] = order[j] => i = j
           /\ \A g \in groups : \E i \in DOMAIN order : order[i] = g
<1> DEFINE n == Cardinality(groups)
<1>1. n \in Nat
  BY FS_CardinalityType
<1>2. /\ order \in [1..n -> groups]
      /\ \A i, j \in 1..n : i # j => order[i] # order[j]
  BY DEF Orders, SetToSeqs
<1>3. order \in Injection(1..n, groups)
  BY <1>2 DEF Injection, IsInjective
<1>4. Cardinality(1..n) = n
  BY <1>1, FS_Interval
<1>5. order \in Surjection(1..n, groups)
  BY <1>3, <1>4, FS_Injection
<1>6. \A g \in groups : \E i \in 1..n : order[i] = g
  BY <1>5 DEF Surjection
<1>7. order \in Seq(groups) /\ Len(order) = n
  BY <1>1, <1>2
<1> QED
  BY <1>1, <1>2, <1>6, <1>7

(* A row that its sort keys tell from all others stands behind those that  *)
(* come before it, whatever the order of the rest.                         *)
LEMMA Place ==
    ASSUME NEW groups, IsFiniteSet(groups), NEW ask, NEW order \in Orders(groups, ask),
           NEW i \in DOMAIN order, HasPlace(order[i], groups, ask)
    PROVE  i = 1 + Cardinality({g \in groups : ComesBefore(g, order[i], ask)})
<1> DEFINE ahead == {g \in groups : ComesBefore(g, order[i], ask)}
           f == [j \in 1..(i - 1) |-> order[j]]
<1>1. /\ i \in Nat \ {0} /\ order \in [DOMAIN order -> groups]
      /\ \A j \in 1..(i - 1) : j \in DOMAIN order /\ j # i
      /\ \A j, k \in DOMAIN order : order[j] = order[k] => j = k
      /\ \A g \in groups : \E j \in DOMAIN order : order[j] = g
  BY OrderProperties
<1>2. \A j, k \in DOMAIN order : ComesBefore(order[j], order[k], ask) => j < k
  BY DEF Orders
<1>3. \A j \in 1..(i - 1) : order[j] \in ahead
  <2> TAKE j \in 1..(i - 1)
  <2>1. j \in DOMAIN order /\ j < i /\ order[j] # order[i] /\ order[j] \in groups
    BY <1>1
  <2>2. ~ComesBefore(order[i], order[j], ask)
    BY <1>1, <1>2, <2>1
  <2> QED
    BY <2>1, <2>2 DEF HasPlace
<1>4. \A g \in ahead : \E j \in 1..(i - 1) : order[j] = g
  <2> TAKE g \in ahead
  <2>1. PICK j \in DOMAIN order : order[j] = g
    BY <1>1
  <2>2. j < i
    BY <1>2, <2>1
  <2>3. j \in Nat /\ j >= 1
    BY OrderProperties
  <2> QED
    BY <1>1, <2>1, <2>2, <2>3
<1>5. f \in Bijection(1..(i - 1), ahead)
  BY <1>1, <1>3, <1>4 DEF Bijection, Injection, Surjection, IsInjective
<1>6. ExistsBijection(1..(i - 1), ahead)
  BY <1>5 DEF ExistsBijection
<1>7. Cardinality(ahead) = i - 1
  BY <1>1, <1>6, FS_CountingElements
<1> QED
  BY <1>1, <1>7

LEMMA SamePlace ==
    ASSUME NEW groups, IsFiniteSet(groups), NEW ask,
           NEW order \in Orders(groups, ask), NEW other \in Orders(groups, ask),
           NEW i \in DOMAIN order, NEW j \in DOMAIN other,
           order[i] = other[j], HasPlace(order[i], groups, ask)
    PROVE  i = j
<1>1. i = 1 + Cardinality({g \in groups : ComesBefore(g, order[i], ask)})
  BY Place
<1>2. HasPlace(other[j], groups, ask)
  OBVIOUS
<1>3. j = 1 + Cardinality({g \in groups : ComesBefore(g, other[j], ask)})
  BY <1>2, Place
<1> QED
  BY <1>1, <1>3
-----------------------------------------------------------------------------
(* Rows *)

LEMMA KeyProperties ==
    ASSUME NEW s \in Statement
    PROVE  /\ OrgOf(s) \in OrNone(Org) /\ NameOf[s] \in Name /\ KeyOf(s) \in Row
           /\ KeyOf(s) \in Org => OrgOf(s) = KeyOf(s)
           /\ OrgOf(s) \in Org => OrgOf(s) = KeyOf(s)
<1>1. NameOf[s] \in Name /\ OwnerOf[NameOf[s]] \in OrNone(Org) /\ None \notin Row /\ Org \cap Name = {}
  BY ConstantsAssumption
<1> QED
  BY <1>1 DEF OrgOf, KeyOf, OrNone, Row

(* A set that is listed with the elements of a finite set is finite.       *)
LEMMA FiniteImage ==
    ASSUME NEW S, IsFiniteSet(S), NEW T, NEW f \in [S -> T], \A t \in T : \E s \in S : f[s] = t
    PROVE  IsFiniteSet(T)
<1>1. f \in Surjection(S, T)
  BY DEF Surjection
<1> QED
  BY <1>1, FS_Surjection

LEMMA DistinctGroups ==
    /\ \A rows : Distinct(Grouped(rows)) /\ Distinct(Single(rows))
    /\ \A orgs : Distinct(Silent(orgs))
    /\ \A groups, orgs : Distinct(groups) => Distinct(WithCandidates(groups, orgs))
<1>1. ASSUME NEW rows PROVE Distinct(Grouped(rows))
  BY DEF Distinct, Grouped
<1>2. ASSUME NEW rows PROVE Distinct(Single(rows))
  BY DEF Distinct, Single
<1>3. ASSUME NEW orgs PROVE Distinct(Silent(orgs))
  BY DEF Distinct, Silent
<1>4. ASSUME NEW groups, NEW orgs, Distinct(groups)
      PROVE  Distinct(WithCandidates(groups, orgs))
  <2> DEFINE new == Silent(orgs \ KeysOf(groups))
  <2>1. \A g \in new : g.key \notin KeysOf(groups) /\ g.stmts = {}
    BY DEF Silent
  <2>2. \A g \in groups : g.key \in KeysOf(groups)
    BY DEF KeysOf
  <2>3. Distinct(new)
    BY <1>3
  <2> HIDE DEF new
  <2>4. Distinct(groups \cup new)
    BY <1>4, <2>1, <2>2, <2>3 DEF Distinct
  <2> QED
    BY <2>4 DEF WithCandidates, new
<1> QED
  BY <1>1, <1>2, <1>3, <1>4

(* The organisations and names with a statement, and the silent ones.      *)
WantedKeys(ask) ==
    {KeyOf(s) : s \in Passing(ask)} \cup (IF Unfiltered(ask) THEN Candidates(ask) ELSE {})
WantedGroup(k, ask) == [key |-> k, stmts |-> {s \in Passing(ask) : KeyOf(s) = k}]

LEMMA WantedGroups ==
    ASSUME NEW ask, ask.list # "statements", ask.response # "no"
    PROVE  Wanted(ask) = {WantedGroup(k, ask) : k \in WantedKeys(ask)}
  BY DEF Wanted, WantedKeys, WantedGroup

LEMMA WantedProperties ==
    ASSUME NEW ask
    PROVE  /\ IsFiniteSet(Wanted(ask)) /\ Distinct(Wanted(ask))
           /\ \A g \in Wanted(ask) : /\ g = [key |-> g.key, stmts |-> g.stmts]
                                     /\ g.key \in Row \cup Statement /\ g.stmts \subseteq Statement
<1>1. IsFiniteSet(Statement) /\ IsFiniteSet(Org)
  BY ConstantsAssumption
<1>2. CASE ask.list = "statements"
  <2> DEFINE rows == InStream(ask)
             f == [s \in rows |-> [key |-> s, stmts |-> {s}]]
  <2>1. Wanted(ask) = Single(rows) /\ rows \subseteq Statement
    BY <1>2 DEF Wanted, InStream, Stored
  <2>2. IsFiniteSet(rows)
    BY <1>1, <2>1, FS_Subset
  <2> HIDE DEF rows
  <2>3. f \in [rows -> Single(rows)] /\ \A g \in Single(rows) : \E s \in rows : f[s] = g
    BY DEF Single
  <2> HIDE DEF f
  <2>4. IsFiniteSet(Single(rows))
    BY <2>2, <2>3, FiniteImage
  <2>5. \A g \in Single(rows) : /\ g = [key |-> g.key, stmts |-> g.stmts]
                                /\ g.key \in Row \cup Statement /\ g.stmts \subseteq Statement
    BY <2>1 DEF Single
  <2> QED
    BY <2>1, <2>4, <2>5, DistinctGroups
<1>3. CASE ask.list # "statements" /\ ask.response = "no"
  <2> DEFINE orgs == {o \in Candidates(ask) : HasNone(o)}
             f == [o \in orgs |-> [key |-> o, stmts |-> {}]]
  <2>1. Wanted(ask) = Silent(orgs) /\ orgs \subseteq Org
    BY <1>3 DEF Wanted, Candidates
  <2>2. IsFiniteSet(orgs)
    BY <1>1, <2>1, FS_Subset
  <2> HIDE DEF orgs
  <2>3. f \in [orgs -> Silent(orgs)] /\ \A g \in Silent(orgs) : \E o \in orgs : f[o] = g
    BY DEF Silent
  <2> HIDE DEF f
  <2>4. IsFiniteSet(Silent(orgs))
    BY <2>2, <2>3, FiniteImage
  <2>5. \A g \in Silent(orgs) : /\ g = [key |-> g.key, stmts |-> g.stmts]
                                /\ g.key \in Row \cup Statement /\ g.stmts \subseteq Statement
    BY <2>1 DEF Silent, Row
  <2> QED
    BY <2>1, <2>4, <2>5, DistinctGroups
<1>4. CASE ask.list # "statements" /\ ask.response # "no"
  <2> DEFINE rows == Passing(ask)
             responding == {KeyOf(s) : s \in rows}
             silent == IF Unfiltered(ask) THEN Candidates(ask) ELSE {}
             keys == WantedKeys(ask)
             f == [s \in rows |-> KeyOf(s)]
             g == [k \in keys |-> WantedGroup(k, ask)]
  <2>1. rows \subseteq Statement /\ silent \subseteq Org /\ keys = responding \cup silent
    BY DEF Passing, Stored, Candidates, WantedKeys
  <2>2. IsFiniteSet(rows) /\ IsFiniteSet(silent)
    BY <1>1, <2>1, FS_Subset
  <2>3. f \in [rows -> responding] /\ \A k \in responding : \E s \in rows : f[s] = k
    OBVIOUS
  <2>4. IsFiniteSet(responding)
    BY <2>2, <2>3, FiniteImage
  <2>5. IsFiniteSet(keys)
    BY <2>1, <2>2, <2>4, FS_Union
  <2>6. keys \subseteq Row
    BY <2>1, KeyProperties DEF Row
  <2>7. Wanted(ask) = {WantedGroup(k, ask) : k \in keys}
    BY <1>4, WantedGroups
  <2>8. \A k : WantedGroup(k, ask).key = k /\ WantedGroup(k, ask).stmts = {s \in rows : KeyOf(s) = k}
               /\ WantedGroup(k, ask) = [key |-> k, stmts |-> {s \in rows : KeyOf(s) = k}]
    BY DEF WantedGroup
  <2> HIDE DEF keys, rows, responding, silent
  <2>9. g \in [keys -> Wanted(ask)] /\ \A w \in Wanted(ask) : \E k \in keys : g[k] = w
    BY <2>7
  <2>10. IsFiniteSet(Wanted(ask))
    BY <2>5, <2>9, FiniteImage
  <2>11. Distinct(Wanted(ask))
    BY <2>7, <2>8 DEF Distinct
  <2>12. \A w \in Wanted(ask) : /\ w = [key |-> w.key, stmts |-> w.stmts]
                                /\ w.key \in Row \cup Statement /\ w.stmts \subseteq Statement
    BY <2>1, <2>6, <2>7, <2>8
  <2> QED
    BY <2>10, <2>11, <2>12
<1> QED
  BY <1>2, <1>3, <1>4

LEMMA FiniteGroups ==
    /\ \A rows : IsFiniteSet(rows) => IsFiniteSet(Grouped(rows)) /\ IsFiniteSet(Single(rows))
    /\ \A orgs : IsFiniteSet(orgs) => IsFiniteSet(Silent(orgs))
<1>1. ASSUME NEW rows, IsFiniteSet(rows) PROVE IsFiniteSet(Grouped(rows))
  <2> DEFINE f == [s \in rows |-> [key |-> KeyOf(s), stmts |-> {t \in rows : KeyOf(t) = KeyOf(s)}]]
  <2>1. f \in [rows -> Grouped(rows)] /\ \A g \in Grouped(rows) : \E s \in rows : f[s] = g
    BY DEF Grouped
  <2> HIDE DEF f
  <2> QED
    BY <1>1, <2>1, FiniteImage
<1>2. ASSUME NEW rows, IsFiniteSet(rows) PROVE IsFiniteSet(Single(rows))
  <2> DEFINE f == [s \in rows |-> [key |-> s, stmts |-> {s}]]
  <2>1. f \in [rows -> Single(rows)] /\ \A g \in Single(rows) : \E s \in rows : f[s] = g
    BY DEF Single
  <2> HIDE DEF f
  <2> QED
    BY <1>2, <2>1, FiniteImage
<1>3. ASSUME NEW orgs, IsFiniteSet(orgs) PROVE IsFiniteSet(Silent(orgs))
  <2> DEFINE f == [o \in orgs |-> [key |-> o, stmts |-> {}]]
  <2>1. f \in [orgs -> Silent(orgs)] /\ \A g \in Silent(orgs) : \E o \in orgs : f[o] = g
    BY DEF Silent
  <2> HIDE DEF f
  <2> QED
    BY <1>3, <2>1, FiniteImage
<1> QED
  BY <1>1, <1>2, <1>3

(* What a query returns is finite and made of rows.                        *)
LEMMA QueryRows ==
    ASSUME NEW ask
    PROVE  /\ Grouped(Passing(ask)) \subseteq ListRow /\ IsFiniteSet(Grouped(Passing(ask)))
           /\ Single(InStream(ask)) \subseteq ListRow /\ IsFiniteSet(Single(InStream(ask)))
           /\ \A orgs \in SUBSET Org : Silent(orgs) \subseteq ListRow /\ IsFiniteSet(Silent(orgs))
           /\ Candidates(ask) \subseteq Org
<1>1. IsFiniteSet(Statement) /\ IsFiniteSet(Org)
  BY ConstantsAssumption
<1>2. /\ Passing(ask) \subseteq Statement /\ InStream(ask) \subseteq Statement
      /\ Candidates(ask) \subseteq Org
  BY DEF Passing, InStream, Stored, Candidates
<1>3. IsFiniteSet(Passing(ask)) /\ IsFiniteSet(InStream(ask))
  BY <1>1, <1>2, FS_Subset
<1>4. Grouped(Passing(ask)) \subseteq ListRow
  BY <1>2, KeyProperties DEF Grouped, ListRow
<1>5. Single(InStream(ask)) \subseteq ListRow
  BY <1>2 DEF Single, ListRow
<1>6. ASSUME NEW orgs \in SUBSET Org PROVE Silent(orgs) \subseteq ListRow /\ IsFiniteSet(Silent(orgs))
  <2>1. IsFiniteSet(orgs)
    BY <1>1, FS_Subset
  <2> QED
    BY <2>1, FiniteGroups DEF Silent, ListRow, Row
<1> QED
  BY <1>2, <1>3, <1>4, <1>5, <1>6, FiniteGroups

(* Organisations without statements are added to what is there.            *)
LEMMA CandidateRows ==
    ASSUME NEW groups \in SUBSET ListRow, IsFiniteSet(groups), NEW orgs \in SUBSET Org
    PROVE  /\ WithCandidates(groups, orgs) \in SUBSET ListRow
           /\ IsFiniteSet(WithCandidates(groups, orgs))
<1> DEFINE new == Silent(orgs \ KeysOf(groups))
<1>1. new \subseteq ListRow /\ IsFiniteSet(new)
  BY QueryRows
<1> HIDE DEF new
<1>2. groups \cup new \subseteq ListRow /\ IsFiniteSet(groups \cup new)
  BY <1>1, FS_Union
<1> QED
  BY <1>2 DEF WithCandidates, new
-----------------------------------------------------------------------------
(* Pages *)

LEMMA MinOfTwo ==
    ASSUME NEW m \in Int, NEW n \in Int
    PROVE  Min({m, n}) = IF m <= n THEN m ELSE n
<1> DEFINE least == IF m <= n THEN m ELSE n
<1>1. least \in {m, n} /\ \A k \in {m, n} : least <= k
  OBVIOUS
<1>2. ASSUME NEW k \in {m, n}, \A l \in {m, n} : k <= l PROVE k = least
  BY <1>2
<1> QED
  BY <1>1, <1>2 DEF Min

LEMMA SliceProperties ==
    ASSUME NEW S, NEW s \in Seq(S), NEW offset \in Nat, NEW limit \in Nat \ {0}
    PROVE  LET slice == Slice(s, offset, limit) IN
           /\ slice \in Seq(S)
           /\ \A i \in 1..Len(slice) : offset + i \in 1..Len(s) /\ slice[i] = s[offset + i]
           /\ offset <= Len(s) => offset + Len(slice) <= Len(s)
           /\ Len(slice) = 0 => Len(s) <= offset
<1> DEFINE last == Min({offset + limit, Len(s)})
           slice == SubSeq(s, offset + 1, last)
<1>1. Len(s) \in Nat /\ \A i \in 1..Len(s) : s[i] \in S
  BY ElementOfSeq, LenProperties
<1>2. last = IF offset + limit <= Len(s) THEN offset + limit ELSE Len(s)
  BY <1>1, MinOfTwo
<1> HIDE DEF last
<1>3. last \in Int /\ last <= Len(s) /\ \A i \in (offset + 1)..last : s[i] \in S
  <2>1. last \in Int /\ last <= Len(s)
    BY <1>1, <1>2
  <2>2. \A i \in (offset + 1)..last : i \in 1..Len(s)
    BY <1>1, <2>1
  <2> QED
    BY <1>1, <2>1, <2>2
<1>4. /\ slice \in Seq(S)
      /\ Len(slice) = IF offset + 1 <= last THEN last - (offset + 1) + 1 ELSE 0
      /\ \A i \in 1..(last - (offset + 1) + 1) : slice[i] = s[offset + 1 + i - 1]
  BY <1>3, SubSeqProperties
<1>5. \A i \in 1..Len(slice) : offset + i \in 1..Len(s) /\ slice[i] = s[offset + i]
  BY <1>1, <1>3, <1>4
<1>6. offset <= Len(s) => offset + Len(slice) <= Len(s)
  BY <1>1, <1>2, <1>4
<1>7. Len(slice) = 0 => Len(s) <= offset
  BY <1>1, <1>2, <1>4
<1> QED
  BY <1>4, <1>5, <1>6, <1>7 DEF Slice, last

LEMMA ItemType ==
    ASSUME NEW g \in ListRow, request.places \in [Statement -> SUBSET District]
    PROVE  Item(g) \in Answer /\ Item(g).key = g.key /\ DOMAIN Item(g).outs = g.stmts
<1>1. g.stmts \in SUBSET Statement /\ g.key \in Row \cup Statement
  BY DEF ListRow
<1>2. [s \in g.stmts |-> request.places[s]] \in [g.stmts -> SUBSET District]
  BY <1>1
<1>3. [s \in g.stmts |-> request.places[s]] \in UNION {[S -> SUBSET District] : S \in SUBSET Statement}
  BY <1>1, <1>2
<1> QED
  BY <1>1, <1>3 DEF Item, Answer
-----------------------------------------------------------------------------
(* What the steps do *)

(* A finite set of numbers has a largest one: of the sets of what lies      *)
(* above an element, one is minimal, and it is empty.                       *)
LEMMA LargestNumber ==
    ASSUME NEW S \in SUBSET Nat, IsFiniteSet(S), S # {}
    PROVE  Max(S) \in S
<1> DEFINE above(x) == {y \in S : y > x}
           R == StrictSubsetOrdering(S)
           T == {above(x) : x \in S}
<1>1. IsWellFoundedOn(R, FiniteSubsetsOf(S))
  BY FS_StrictSubsetOrderingWellFounded
<1>2. T \subseteq FiniteSubsetsOf(S) /\ T # {}
  <2>1. FiniteSubsetsOf(S) = SUBSET S
    BY FS_FiniteSubsetsOfFinite
  <2>2. T \subseteq SUBSET S /\ T # {}
    OBVIOUS
  <2> QED
    BY <2>1, <2>2
<1>3. \E A \in T : \A B \in T : ~(<<B, A>> \in R)
  <2> HIDE DEF R, T
  <2> QED
    BY <1>1, <1>2, WFMin
<1>4. PICK x \in S : \A y \in S : ~(<<above(y), above(x)>> \in R)
  <2>1. PICK A \in T : \A B \in T : ~(<<B, A>> \in R)
    BY <1>3
  <2>2. PICK x \in S : A = above(x)
    OBVIOUS
  <2> HIDE DEF R
  <2> QED
    BY <2>1, <2>2
<1>5. ASSUME NEW y \in S, y > x PROVE FALSE
  <2>1. x \in Nat /\ y \in Nat /\ \A z \in S : z \in Nat /\ (z > y => z > x)
    BY <1>5
  <2>2. above(y) \subseteq above(x) /\ y \in above(x) /\ y \notin above(y)
    <3>1. \A z : z \in above(y) <=> z \in S /\ z > y
      OBVIOUS
    <3>2. \A z : z \in above(x) <=> z \in S /\ z > x
      OBVIOUS
    <3> HIDE DEF above
    <3>3. ~(y > y)
      BY <2>1
    <3> QED
      BY <1>5, <2>1, <3>1, <3>2, <3>3
  <2>3. <<above(y), above(x)>> \in R
    BY <2>2 DEF StrictSubsetOrdering
  <2> QED
    BY <1>4, <2>3
<1>6. \A y \in S : x >= y
  BY <1>5
<1> QED
  BY <1>6 DEF Max

LEMMA StoredFinite == ASSUME TypeOK PROVE IsFiniteSet({created[s] : s \in Stored} \cup {0})
<1> DEFINE times == {created[s] : s \in Stored}
           f == [s \in Stored |-> created[s]]
<1>1. Stored \subseteq Statement /\ IsFiniteSet(Statement)
  BY ConstantsAssumption DEF Stored
<1>2. IsFiniteSet(Stored)
  BY <1>1, FS_Subset
<1>3. f \in [Stored -> times] /\ \A t \in times : \E s \in Stored : f[s] = t
  OBVIOUS
<1> HIDE DEF f, times
<1>4. IsFiniteSet(times)
  BY <1>2, <1>3, FiniteImage
<1> QED
  BY <1>4, FS_AddElement DEF times

(* A statement stays, and so does the organisation it has been given.       *)
LEMMA CommitEffect ==
    ASSUME TypeOK, Pipeline
    PROVE  /\ reader = "away" /\ UNCHANGED <<request, page>>
           /\ created' \in [Statement -> Nat] /\ matched' \subseteq Name
           /\ located' \subseteq Stored' /\ changes' \in 0..MaxChanges
           /\ Stored \subseteq Stored' /\ matched \subseteq matched'
           /\ crawl' = [crawl EXCEPT !.steady = crawl = NoCrawl]
<1> DEFINE times == {created[s] : s \in Stored} \cup {0}
           now == 1 + Max(times)
<1>1. created \in [Statement -> Nat] /\ matched \subseteq Name /\ located \subseteq Stored
      /\ changes \in 0..MaxChanges /\ MaxChanges \in Nat
  BY ConstantsAssumption DEF TypeOK
<1>2. ASSUME NEW later, NEW names, NEW places, Commit(later, names, places)
      PROVE  /\ reader = "away" /\ UNCHANGED <<request, page>> /\ changes' \in 0..MaxChanges
             /\ created' = later /\ matched' = names /\ located' = places
             /\ crawl' = [crawl EXCEPT !.steady = crawl = NoCrawl]
  BY <1>1, <1>2 DEF Commit
<1>3. CASE StatementsExtracted
  <2>1. PICK claims \in SUBSET (Statement \ Stored) :
            Commit([s \in Statement |-> IF s \in claims THEN now ELSE created[s]], matched, located)
    BY <1>3 DEF StatementsExtracted
  <2>2. now \in Nat \ {0}
    <3>1. times \in SUBSET Nat /\ times # {}
      BY <1>1 DEF Stored
    <3>2. IsFiniteSet(times)
      BY StoredFinite
    <3> HIDE DEF times
    <3>3. Max(times) \in Nat
      BY <3>1, <3>2, LargestNumber
    <3> QED
      BY <3>3
  <2> HIDE DEF now
  <2>3. /\ created' = [s \in Statement |-> IF s \in claims THEN now ELSE created[s]]
        /\ matched' = matched /\ located' = located
        /\ reader = "away" /\ UNCHANGED <<request, page>> /\ changes' \in 0..MaxChanges
        /\ crawl' = [crawl EXCEPT !.steady = crawl = NoCrawl]
    BY <1>2, <2>1
  <2>4. created' \in [Statement -> Nat] /\ Stored \subseteq Stored'
    BY <1>1, <2>2, <2>3 DEF Stored
  <2> QED
    BY <1>1, <2>3, <2>4
<1>4. CASE OrgMatched
  <2>1. PICK n \in Name : Commit(created, matched \cup {n}, located)
    BY <1>4 DEF OrgMatched
  <2>2. /\ created' = created /\ matched' = matched \cup {n} /\ located' = located
        /\ reader = "away" /\ UNCHANGED <<request, page>> /\ changes' \in 0..MaxChanges
        /\ crawl' = [crawl EXCEPT !.steady = crawl = NoCrawl]
    BY <1>2, <2>1
  <2> QED
    BY <1>1, <2>2 DEF Stored
<1>5. CASE DistrictsResolved
  <2>1. PICK placed \in SUBSET Stored : Commit(created, matched, located \cup placed)
    BY <1>5 DEF DistrictsResolved
  <2>2. /\ created' = created /\ matched' = matched /\ located' = located \cup placed
        /\ reader = "away" /\ UNCHANGED <<request, page>> /\ changes' \in 0..MaxChanges
        /\ crawl' = [crawl EXCEPT !.steady = crawl = NoCrawl]
    BY <1>2, <2>1
  <2> QED
    BY <1>1, <2>2 DEF Stored
<1> QED
  BY <1>3, <1>4, <1>5 DEF Pipeline

(* Every query of a request but the last step leaves the rest alone.        *)
Reading == ReadStream \/ ReadStatements \/ ReadCandidates \/ ReadResponded \/ Hydrate

LEMMA ReadingEffect ==
    ASSUME TypeOK, Reading
    PROVE  /\ UNCHANGED <<tables, crawl, page>>
           /\ request'.sender = request.sender /\ request'.ask = request.ask
           /\ request'.offset = request.offset /\ request'.since = request.since
           /\ request.pc # "idle"
  BY DEF TypeOK, Reading, ReadStream, ReadStatements, ReadCandidates, ReadResponded, Hydrate

LEMMA ReaderEffect ==
    ASSUME Read
    PROVE  reader # "away" /\ UNCHANGED <<tables, request, crawl>>
  BY DEF Read, OpenLink, Hydrates, FollowLink, Reload, Leave, ToggleOption, RemoveChip, ClearAll,
         SelectLink, ChangeTab, ChangeSort, Search, SetFilters

(* What a new request is.                                                   *)
LEMMA AskEffect ==
    ASSUME NEW sender, NEW ask \in Query, NEW offset, Ask(sender, ask, offset)
    PROVE  /\ request.pc = "idle"
           /\ request'.sender = sender /\ request'.ask = ask /\ request'.offset = offset
           /\ request'.groups = {}
           /\ request'.since = [s \in Statement |-> IF s \in Stored THEN KeyOf(s) ELSE None]
           /\ request'.pc = CASE ask.list = "statements" -> "stream"
                              [] ask.response = "no" -> "candidates"
                              [] OTHER -> "statements"
  BY DEF Ask, NoRequest

LEMMA BoardAskType == BoardAsk \in Query
  BY ConstantsAssumption DEF BoardAsk, Query, OrNone, None

(* What a list is made of changes only with the tables.                     *)
LEMMA SameTables ==
    ASSUME UNCHANGED tables
    PROVE  /\ Stored' = Stored
           /\ \A s : OrgOf(s)' = OrgOf(s) /\ KeyOf(s)' = KeyOf(s)
           /\ \A ask : Wanted(ask)' = Wanted(ask)
           /\ \A ask : Grouped(Passing(ask))' = Grouped(Passing(ask))
           /\ \A ask : Silent(Candidates(ask))' = Silent(Candidates(ask))
           /\ \A groups, ask : Orders(groups, ask)' = Orders(groups, ask)
<1>1. created' = created /\ matched' = matched /\ located' = located
  BY DEF tables
<1>2. Stored' = Stored
  BY <1>1 DEF Stored
<1>3. ASSUME NEW s
      PROVE  OrgOf(s)' = OrgOf(s) /\ KeyOf(s)' = KeyOf(s) /\ DistrictsOf(s)' = DistrictsOf(s)
  BY <1>1 DEF OrgOf, KeyOf, DistrictsOf
<1>4. ASSUME NEW s, NEW ask PROVE StatementPasses(s, ask)' <=> StatementPasses(s, ask)
  <2>1. OrgPasses(OrgOf(s), ask)' <=> OrgPasses(OrgOf(s), ask)
    BY <1>3 DEF OrgPasses
  <2>2. Mentions(ask.q, OrgOf(s))' <=> Mentions(ask.q, OrgOf(s))
    BY <1>3 DEF Mentions
  <2>3. Mentions(ask.q, NameOf[s])' <=> Mentions(ask.q, NameOf[s])
    OBVIOUS
  <2>4. (DistrictsOf(s) \cap ask.district # {})' <=> DistrictsOf(s) \cap ask.district # {}
    BY <1>3
  <2> QED
    BY <2>1, <2>2, <2>3, <2>4 DEF StatementPasses
<1>5. ASSUME NEW ask PROVE Passing(ask)' = Passing(ask) /\ InStream(ask)' = InStream(ask)
  BY <1>2, <1>3, <1>4 DEF Passing, InStream
<1>6. ASSUME NEW o PROVE HasNone(o)' = HasNone(o)
  BY <1>2, <1>3 DEF HasNone
<1>7. ASSUME NEW ask PROVE Wanted(ask)' = Wanted(ask)
  <2>1. CASE ask.list = "statements"
    BY <1>5, <2>1 DEF Wanted, Single
  <2>2. CASE ask.list # "statements" /\ ask.response = "no"
    <3>1. {o \in Candidates(ask) : HasNone(o)}' = {o \in Candidates(ask) : HasNone(o)}
      BY <1>6 DEF Candidates, OrgPasses, Mentions
    <3> QED
      BY <2>2, <3>1 DEF Wanted, Silent
  <2>3. CASE ask.list # "statements" /\ ask.response # "no"
    <3>1. WantedKeys(ask)' = WantedKeys(ask)
      <4>1. {KeyOf(s) : s \in Passing(ask)}' = {KeyOf(s) : s \in Passing(ask)}
        BY <1>3, <1>5
      <4>2. Candidates(ask)' = Candidates(ask)
        BY DEF Candidates, OrgPasses, Mentions
      <4>3. Unfiltered(ask)' <=> Unfiltered(ask)
        BY DEF Unfiltered
      <4> QED
        BY <4>1, <4>2, <4>3 DEF WantedKeys
    <3>2. \A k : WantedGroup(k, ask)' = WantedGroup(k, ask)
      BY <1>3, <1>5 DEF WantedGroup
    <3>3. Wanted(ask) = {WantedGroup(k, ask) : k \in WantedKeys(ask)}
      BY <2>3, WantedGroups
    <3>4. Wanted(ask)' = {WantedGroup(k, ask)' : k \in WantedKeys(ask)'}
      BY <2>3 DEF Wanted, WantedKeys, WantedGroup
    <3> QED
      BY <3>1, <3>2, <3>3, <3>4
  <2> QED
    BY <2>1, <2>2, <2>3
<1>8. ASSUME NEW g, NEW h, NEW ask PROVE ComesBefore(g, h, ask)' = ComesBefore(g, h, ask)
  BY <1>1 DEF ComesBefore
<1>9. ASSUME NEW groups, NEW ask PROVE Orders(groups, ask)' = Orders(groups, ask)
  BY <1>8 DEF Orders
<1>10. ASSUME NEW ask PROVE Grouped(Passing(ask))' = Grouped(Passing(ask))
  BY <1>3, <1>5 DEF Grouped
<1>11. ASSUME NEW ask PROVE Silent(Candidates(ask))' = Silent(Candidates(ask))
  BY DEF Silent, Candidates, OrgPasses, Mentions
<1> QED
  BY <1>2, <1>3, <1>7, <1>9, <1>10, <1>11

(* The steps that let a request and the tables alone.                       *)
LEMMA OtherEffect ==
    ASSUME EndCrawl \/ Read \/ UNCHANGED vars
    PROVE  UNCHANGED <<tables, request>>
  BY ReaderEffect DEF EndCrawl, vars

LEMMA RespondEffect == ASSUME Respond PROVE request.pc = "respond" /\ request' = NoRequest /\ UNCHANGED tables
  BY DEF Respond

LEMMA IdleRequest ==
    /\ NoRequest.pc = "idle" /\ NoRequest.groups = {} /\ NoRequest.ask = BoardAsk
    /\ NoRequest.sender = None /\ NoRequest.offset = 0 /\ NoRequest.places = Nowhere
    /\ NoRequest.since = [s \in Statement |-> None]
  BY DEF NoRequest

LEMMA IdleCrawl ==
    /\ NoCrawl.state = "none" /\ NoCrawl.got = <<>> /\ NoCrawl.ask = BoardAsk
    /\ NoCrawl.total = 0 /\ NoCrawl.steady
  BY DEF NoCrawl

(* The three ways to ask.                                                   *)
Asking == StartCrawl \/ NextPage \/ RenderPage

LEMMA AskingEffect ==
    ASSUME TypeOK, Asking
    PROVE  /\ UNCHANGED <<tables, page>>
           /\ \E sender \in {"page", "client"}, ask \in Query, offset \in Nat :
                /\ Ask(sender, ask, offset)
                /\ sender = "page" =>
                      UNCHANGED crawl /\ crawl = NoCrawl /\ reader = "away" /\ ask = BoardAsk
                /\ sender = "client" =>
                      crawl'.state = "on" /\ crawl'.ask = ask /\ Len(crawl'.got) = offset
           /\ UNCHANGED crawl \/ (crawl' = [NoCrawl EXCEPT !.state = "on", !.ask = crawl'.ask] /\ crawl'.ask \in Query)
<1>1. CASE StartCrawl
  <2>1. PICK ask \in Asks : Ask("client", ask, 0) /\ crawl' = [NoCrawl EXCEPT !.state = "on", !.ask = ask]
    BY <1>1 DEF StartCrawl
  <2>2. ask \in Query
    BY AsksAssumption
  <2>3. crawl'.state = "on" /\ crawl'.ask = ask /\ crawl'.got = <<>>
    BY <2>1 DEF NoCrawl
  <2>4. UNCHANGED <<tables, page>>
    BY <1>1 DEF StartCrawl
  <2> QED
    BY <2>1, <2>2, <2>3, <2>4
<1>2. CASE NextPage
  <2>1. crawl.ask \in Query /\ Len(crawl.got) \in Nat
    BY DEF TypeOK
  <2> QED
    BY <1>2, <2>1 DEF NextPage
<1>3. CASE RenderPage
  BY <1>3, BoardAskType DEF RenderPage
<1> QED
  BY <1>1, <1>2, <1>3 DEF Asking

LEMMA NextCases ==
    ASSUME [Next]_vars
    PROVE  Reading \/ Respond \/ Pipeline \/ Asking \/ EndCrawl \/ Read \/ UNCHANGED vars
  BY DEF Next, Serve, Reading, Asking
-----------------------------------------------------------------------------
(* What a request may find and who waits for it *)

LEMMA CourseStep == TypeOK /\ Course /\ [Next]_vars => Course'
<1> SUFFICES ASSUME TypeOK, Course, [Next]_vars PROVE Course'
  OBVIOUS
<1>0. request.ask \in Query /\ request.ask.list = "statements" => request.ask.response # "no"
  BY DEF TypeOK, Query, None
<1>1. CASE Reading
  <2>1. /\ UNCHANGED <<tables, crawl, page>> /\ request.pc # "idle"
        /\ request'.sender = request.sender /\ request'.ask = request.ask
        /\ request'.offset = request.offset
    BY <1>1, ReadingEffect
  <2>2. /\ request'.pc # "idle" => request'.sender # None
        /\ request'.pc # "idle" /\ request'.sender = "page" => crawl'.state = "none" /\ reader' = "away"
        /\ request'.pc # "idle" /\ request'.sender = "client" =>
              /\ crawl'.state = "on" /\ request'.ask = crawl'.ask
              /\ request'.offset = Len(crawl'.got)
    BY <2>1 DEF Course, page
  <2>3. CASE ReadStream
    <3>1. request'.pc = "hydrate" /\ request.pc = "stream"
      BY <2>3 DEF ReadStream, TypeOK
    <3> QED
      BY <1>0, <2>1, <2>2, <3>1 DEF Course, TypeOK
  <2>4. CASE ReadStatements
    <3>1. request'.pc = (IF Unfiltered(request.ask) THEN "candidates" ELSE "hydrate") /\ request.pc = "statements"
      BY <2>4 DEF ReadStatements, TypeOK
    <3> QED
      BY <1>0, <2>1, <2>2, <3>1 DEF Course, Unfiltered
  <2>5. CASE ReadCandidates
    <3>1. /\ request.pc = "candidates"
          /\ request'.pc = (IF request.ask.response = "no" THEN "responded" ELSE "hydrate")
      BY <2>5 DEF ReadCandidates, TypeOK
    <3> QED
      BY <1>0, <2>1, <2>2, <3>1 DEF Course
  <2>6. CASE ReadResponded \/ Hydrate
    <3>1. request'.pc = "respond"
      BY <2>6 DEF ReadResponded, Hydrate, TypeOK
    <3> QED
      BY <2>2, <3>1 DEF Course
  <2> QED
    BY <1>1, <2>3, <2>4, <2>5, <2>6 DEF Reading
<1>2. CASE Respond
  BY <1>2, RespondEffect, IdleRequest DEF Course
<1>3. CASE Pipeline
  <2>1. UNCHANGED <<request, page>> /\ crawl' = [crawl EXCEPT !.steady = crawl = NoCrawl]
    BY <1>3, CommitEffect
  <2>2. crawl'.state = crawl.state /\ crawl'.ask = crawl.ask /\ crawl'.got = crawl.got
    BY <2>1 DEF TypeOK
  <2> QED
    BY <2>1, <2>2 DEF Course, Unfiltered, page
<1>4. CASE Asking
  <2>1. PICK sender \in {"page", "client"}, ask \in Query, offset \in Nat :
            /\ Ask(sender, ask, offset)
            /\ sender = "page" => UNCHANGED crawl /\ crawl = NoCrawl /\ reader = "away"
            /\ sender = "client" => crawl'.state = "on" /\ crawl'.ask = ask /\ Len(crawl'.got) = offset
    BY <1>4, AskingEffect
  <2>2. /\ request'.sender = sender /\ request'.ask = ask /\ request'.offset = offset
        /\ request'.groups = {}
        /\ request'.pc = CASE ask.list = "statements" -> "stream"
                           [] ask.response = "no" -> "candidates"
                           [] OTHER -> "statements"
    BY <2>1, AskEffect
  <2>3. UNCHANGED reader
    BY <1>4, AskingEffect DEF page
  <2>4. ask.list = "statements" => ask.response # "no"
    BY DEF Query, None
  <2>5. sender # None
    BY DEF None
  <2> QED
    BY <2>1, <2>2, <2>3, <2>4, <2>5, IdleCrawl DEF Course
<1>5. CASE EndCrawl
  <2>1. crawl.state = "done" /\ UNCHANGED <<request, page>>
    BY <1>5 DEF EndCrawl
  <2>2. request.pc = "idle"
    BY <2>1 DEF Course, TypeOK
  <2> QED
    BY <2>1, <2>2 DEF Course
<1>6. CASE Read
  <2>1. reader # "away" /\ UNCHANGED <<tables, request, crawl>>
    BY <1>6, ReaderEffect
  <2> QED
    BY <2>1 DEF Course, Unfiltered
<1>7. CASE UNCHANGED vars
  BY <1>7 DEF Course, Unfiltered, vars, page
<1> QED
  BY <1>1, <1>2, <1>3, <1>4, <1>5, <1>6, <1>7, NextCases

LEMMA SinceStep == TypeOK /\ Since /\ [Next]_vars => Since'
<1> SUFFICES ASSUME TypeOK, Since, [Next]_vars PROVE Since'
  OBVIOUS
<1>1. ASSUME request'.since = request.since, UNCHANGED tables PROVE Since'
  BY <1>1, SameTables DEF Since
<1>2. CASE Reading
  BY <1>1, <1>2, ReadingEffect
<1>3. CASE Respond
  BY <1>3, RespondEffect, IdleRequest DEF Since
<1>4. CASE Pipeline
  <2>1. UNCHANGED request /\ Stored \subseteq Stored' /\ matched \subseteq matched'
    BY <1>4, CommitEffect
  <2>2. None \notin Org
    BY ConstantsAssumption DEF Row
  <2>3. ASSUME NEW s \in Statement, OrgOf(s) \in Org PROVE OrgOf(s)' = OrgOf(s)
    BY <2>1, <2>2, <2>3 DEF OrgOf
  <2> QED
    BY <2>1, <2>3 DEF Since
<1>5. CASE Asking
  <2>1. request'.since = [s \in Statement |-> IF s \in Stored THEN KeyOf(s) ELSE None]
    BY <1>5, AskingEffect, AskEffect
  <2>2. UNCHANGED tables
    BY <1>5, AskingEffect
  <2>3. ASSUME NEW s \in Statement, request'.since[s] # None
        PROVE  s \in Stored /\ (request'.since[s] \in Org => OrgOf(s) = request'.since[s])
    BY <2>1, <2>3, KeyProperties
  <2> QED
    BY <2>2, <2>3, SameTables DEF Since
<1>6. CASE EndCrawl \/ Read \/ UNCHANGED vars
  BY <1>1, <1>6, OtherEffect
<1> QED
  BY <1>2, <1>3, <1>4, <1>5, <1>6, NextCases
-----------------------------------------------------------------------------
(* One answer *)

(* The board asks for everything.                                           *)
LEMMA BoardAsksForAll ==
    /\ BoardAsk.list # "statements" /\ BoardAsk.response # "no" /\ Unfiltered(BoardAsk)
    /\ Passing(BoardAsk) = Stored /\ Candidates(BoardAsk) = Org
<1>1. /\ BoardAsk.list = "responders" /\ BoardAsk.district = {} /\ BoardAsk.orgType = {}
      /\ BoardAsk.verification = {} /\ BoardAsk.hq = None /\ BoardAsk.response = None /\ BoardAsk.q = ""
  BY DEF BoardAsk
<1>2. None # "local" /\ None # "international" /\ None # "yes" /\ None # "no"
  BY DEF None
<1>3. \A o : OrgPasses(o, BoardAsk) /\ Mentions(BoardAsk.q, o)
  BY <1>1, <1>2 DEF OrgPasses, Mentions
<1>4. \A s : StatementPasses(s, BoardAsk)
  BY <1>1, <1>3 DEF StatementPasses
<1> QED
  BY <1>1, <1>2, <1>3, <1>4 DEF Unfiltered, Passing, Candidates

LEMMA EveryRowGrouped == \A rows : UNION {g.stmts : g \in Grouped(rows)} = rows
<1> TAKE rows
<1>1. ASSUME NEW s \in rows PROVE s \in UNION {g.stmts : g \in Grouped(rows)}
  <2> DEFINE g == [key |-> KeyOf(s), stmts |-> {t \in rows : KeyOf(t) = KeyOf(s)}]
  <2>1. g \in Grouped(rows) /\ s \in g.stmts
    BY DEF Grouped
  <2> HIDE DEF g
  <2> QED
    BY <2>1
<1>2. \A g \in Grouped(rows) : g.stmts \subseteq rows
  BY DEF Grouped
<1> QED
  BY <1>1, <1>2

LEMMA EveryOrgListed == \A groups, orgs : orgs \subseteq KeysOf(WithCandidates(groups, orgs))
<1> TAKE groups, orgs
<1>1. ASSUME NEW o \in orgs, o \notin KeysOf(groups) PROVE o \in KeysOf(WithCandidates(groups, orgs))
  <2>1. [key |-> o, stmts |-> {}] \in WithCandidates(groups, orgs)
    BY <1>1 DEF WithCandidates, Silent
  <2> QED
    BY <2>1 DEF KeysOf
<1>2. KeysOf(groups) \subseteq KeysOf(WithCandidates(groups, orgs))
  BY DEF WithCandidates, KeysOf
<1> QED
  BY <1>1, <1>2

LEMMA OneAnswerStep == TypeOK /\ Course /\ Since /\ OneAnswer /\ [Next]_vars => OneAnswer'
<1> SUFFICES ASSUME TypeOK, Course, Since, OneAnswer, [Next]_vars PROVE OneAnswer'
  OBVIOUS
<1> DEFINE ask == request.ask
<1>0. request.groups \in SUBSET ListRow /\ ask \in Query
  BY DEF TypeOK
<1>1. ASSUME UNCHANGED request PROVE OneAnswer'
  BY <1>1 DEF OneAnswer, Distinct, KeysOf
<1>2. ASSUME Reading
      PROVE  request'.ask = ask /\ request'.since = request.since
  BY <1>2, ReadingEffect
<1>3. CASE ReadStream
  <2>1. request'.groups = Single(InStream(ask)) /\ ask.list = "statements"
    BY <1>3 DEF ReadStream, Course, TypeOK
  <2>2. ask # BoardAsk /\ ask.response # "no"
    BY <1>0, <2>1, BoardAsksForAll DEF Query, None
  <2>3. IsFiniteSet(request'.groups) /\ Distinct(request'.groups)
    BY <2>1, QueryRows, DistinctGroups
  <2> QED
    BY <1>2, <1>3, <2>2, <2>3 DEF OneAnswer, Reading, Distinct
<1>4. CASE ReadStatements
  <2>1. /\ request'.groups = Grouped(Passing(ask)) /\ ask.response # "no"
        /\ request'.pc = IF Unfiltered(ask) THEN "candidates" ELSE "hydrate"
    BY <1>4 DEF ReadStatements, Course, TypeOK
  <2>2. IsFiniteSet(request'.groups) /\ Distinct(request'.groups)
    BY <2>1, QueryRows, DistinctGroups
  <2>3. ASSUME ask = BoardAsk
        PROVE  /\ request'.pc = "candidates"
               /\ \A s \in Statement : request.since[s] # None =>
                     s \in UNION {g.stmts : g \in request'.groups}
    BY <2>1, <2>3, BoardAsksForAll, EveryRowGrouped DEF Since
  <2> QED
    BY <1>2, <1>4, <2>1, <2>2, <2>3 DEF OneAnswer, Reading, Distinct
<1>5. CASE ReadCandidates
  <2>1. /\ request'.groups = WithCandidates(request.groups, Candidates(ask))
        /\ request.pc = "candidates"
        /\ request'.pc = IF ask.response = "no" THEN "responded" ELSE "hydrate"
    BY <1>5 DEF ReadCandidates, TypeOK
  <2>2. Candidates(ask) \subseteq Org
    BY QueryRows
  <2>3. IsFiniteSet(request'.groups) /\ Distinct(request'.groups)
    BY <1>0, <2>1, <2>2, CandidateRows, DistinctGroups DEF OneAnswer
  <2>4. ASSUME ask = BoardAsk
        PROVE  /\ \A s \in Statement : request.since[s] # None =>
                     s \in UNION {g.stmts : g \in request'.groups}
               /\ Org \subseteq KeysOf(request'.groups)
    <3>1. request.groups \subseteq request'.groups
      BY <2>1 DEF WithCandidates
    <3>2. Org \subseteq KeysOf(request'.groups)
      BY <2>1, <2>4, BoardAsksForAll, EveryOrgListed
    <3> QED
      BY <2>1, <2>4, <3>1, <3>2 DEF OneAnswer
  <2>5. ASSUME ask.response = "no"
        PROVE  /\ request'.pc = "responded"
               /\ \A g \in request'.groups : g.key \in Org /\ g.stmts = {}
    BY <2>1, <2>2, <2>5 DEF Course, WithCandidates, Silent
  <2> QED
    BY <1>2, <1>5, <2>3, <2>4, <2>5 DEF OneAnswer, Reading, Distinct, KeysOf
<1>6. CASE ReadResponded
  <2>1. /\ request'.groups = {g \in request.groups : HasNone(g.key)}
        /\ ask.response = "no"
    BY <1>6 DEF ReadResponded, Course, TypeOK
  <2>2. IsFiniteSet(request'.groups) /\ Distinct(request'.groups)
    BY <2>1, FS_Subset DEF OneAnswer, Distinct
  <2>3. ASSUME NEW s \in Statement, NEW g \in request'.groups, request.since[s] = g.key PROVE FALSE
    <3>1. g.key \in Org /\ HasNone(g.key)
      BY <2>1 DEF OneAnswer
    <3>2. None \notin Org
      BY ConstantsAssumption DEF Row
    <3>3. s \in Stored /\ OrgOf(s) = g.key
      BY <2>3, <3>1, <3>2 DEF Since
    <3> QED
      BY <3>1, <3>3 DEF HasNone
  <2>4. ask # BoardAsk
    BY <2>1, BoardAsksForAll
  <2> QED
    BY <1>2, <1>6, <2>1, <2>2, <2>3, <2>4 DEF OneAnswer, Reading, KeysOf, Distinct
<1>7. CASE Hydrate
  <2>1. request'.groups = request.groups /\ ask.response # "no" /\ request.pc = "hydrate"
    BY <1>7 DEF Hydrate, Course, TypeOK
  <2> QED
    BY <1>2, <1>7, <2>1 DEF OneAnswer, Reading, KeysOf, Distinct
<1>8. CASE Respond
  <2>1. IsFiniteSet({})
    BY FS_EmptySet
  <2> QED
    BY <1>8, <2>1, RespondEffect, IdleRequest DEF OneAnswer, Distinct
<1>9. CASE Pipeline
  BY <1>1, <1>9, CommitEffect
<1>10. CASE Asking
  <2>1. PICK sender \in {"page", "client"}, query \in Query, offset \in Nat : Ask(sender, query, offset)
    BY <1>10, AskingEffect
  <2>2. /\ request'.ask = query /\ request'.groups = {}
        /\ request'.pc = CASE query.list = "statements" -> "stream"
                           [] query.response = "no" -> "candidates"
                           [] OTHER -> "statements"
    BY <2>1, AskEffect
  <2>3. request'.pc \notin {"hydrate", "respond"}
    BY <2>2
  <2>4. query = BoardAsk => request'.pc = "statements"
    BY <2>2, BoardAsksForAll
  <2>5. IsFiniteSet({})
    BY FS_EmptySet
  <2> QED
    BY <2>2, <2>3, <2>4, <2>5 DEF OneAnswer, Distinct
<1>11. CASE EndCrawl \/ Read \/ UNCHANGED vars
  BY <1>1, <1>11, OtherEffect
<1> QED
  BY <1>3, <1>4, <1>5, <1>6, <1>7, <1>8, <1>9, <1>10, <1>11, NextCases DEF Reading
-----------------------------------------------------------------------------
(* A list at rest *)

LEMMA GroupedIsWanted ==
    ASSUME NEW ask, ask.list # "statements", ask.response # "no"
    PROVE  /\ ~Unfiltered(ask) => Grouped(Passing(ask)) = Wanted(ask)
           /\ Unfiltered(ask) => WithCandidates(Grouped(Passing(ask)), Candidates(ask)) = Wanted(ask)
<1> DEFINE rows == Passing(ask)
           responding == {KeyOf(s) : s \in rows}
           orgs == Candidates(ask)
<1>1. Grouped(rows) = {WantedGroup(k, ask) : k \in responding}
  BY DEF Grouped, WantedGroup
<1>2. Wanted(ask) = {WantedGroup(k, ask) : k \in WantedKeys(ask)}
  BY WantedGroups
<1>3. ASSUME ~Unfiltered(ask) PROVE Grouped(rows) = Wanted(ask)
  <2>1. WantedKeys(ask) = responding
    BY <1>3 DEF WantedKeys
  <2> QED
    BY <1>1, <1>2, <2>1
<1>4. ASSUME Unfiltered(ask) PROVE WithCandidates(Grouped(rows), orgs) = Wanted(ask)
  <2>1. WantedKeys(ask) = responding \cup orgs
    BY <1>4 DEF WantedKeys
  <2>2. KeysOf(Grouped(rows)) = responding
    <3>1. \A k : WantedGroup(k, ask).key = k
      BY DEF WantedGroup
    <3> HIDE DEF responding
    <3> QED
      BY <1>1, <3>1 DEF KeysOf
  <2>3. ASSUME NEW k \in orgs \ responding PROVE WantedGroup(k, ask) = [key |-> k, stmts |-> {}]
    BY <2>3 DEF WantedGroup
  <2> HIDE DEF rows, responding, orgs
  <2>4. Silent(orgs \ responding) = {WantedGroup(k, ask) : k \in orgs \ responding}
    BY <2>3 DEF Silent
  <2>5. WithCandidates(Grouped(rows), orgs)
           = {WantedGroup(k, ask) : k \in responding} \cup {WantedGroup(k, ask) : k \in orgs \ responding}
    BY <1>1, <2>2, <2>4 DEF WithCandidates
  <2> QED
    BY <1>2, <2>1, <2>5
<1> QED
  BY <1>3, <1>4

LEMMA AtRestStep == TypeOK /\ Course /\ Pages /\ AtRest /\ [Next]_vars => AtRest'
<1> SUFFICES ASSUME TypeOK, Course, Pages, AtRest, [Next]_vars PROVE AtRest'
  OBVIOUS
<1> DEFINE ask == request.ask
<1>0. ask \in Query
  BY DEF TypeOK
<1>1. ASSUME UNCHANGED <<tables, request, crawl>> PROVE AtRest'
  <2>1. /\ Wanted(request.ask)' = Wanted(request.ask)
        /\ Grouped(Passing(request.ask))' = Grouped(Passing(request.ask))
        /\ Silent(Candidates(request.ask))' = Silent(Candidates(request.ask))
    BY <1>1, SameTables
  <2> QED
    BY <1>1, <2>1 DEF AtRest
<1>2. ASSUME Reading
      PROVE  /\ request'.ask = ask /\ request'.sender = request.sender /\ request.pc # "idle"
             /\ UNCHANGED crawl
             /\ Wanted(request.ask)' = Wanted(ask)
             /\ Grouped(Passing(request.ask))' = Grouped(Passing(ask))
             /\ Silent(Candidates(request.ask))' = Silent(Candidates(ask))
  BY <1>2, ReadingEffect, SameTables
<1>3. CASE ReadStream
  <2>1. request'.groups = Single(InStream(ask)) /\ ask.list = "statements" /\ request'.pc = "hydrate"
    BY <1>3 DEF ReadStream, Course, TypeOK
  <2>2. request'.groups = Wanted(ask)
    BY <2>1 DEF Wanted
  <2> QED
    BY <1>2, <1>3, <2>1, <2>2 DEF AtRest, Reading
<1>4. CASE ReadStatements
  <2>1. /\ request'.groups = Grouped(Passing(ask)) /\ ask.response # "no" /\ ask.list # "statements"
        /\ request'.pc = IF Unfiltered(ask) THEN "candidates" ELSE "hydrate"
    BY <1>4 DEF ReadStatements, Course, TypeOK
  <2>2. ~Unfiltered(ask) => request'.groups = Wanted(ask)
    BY <2>1, GroupedIsWanted
  <2> QED
    BY <1>2, <1>4, <2>1, <2>2 DEF AtRest, Reading
<1>5. CASE ReadCandidates
  <2>1. /\ request'.groups = WithCandidates(request.groups, Candidates(ask))
        /\ request.pc = "candidates" /\ ask.list # "statements"
        /\ request'.pc = IF ask.response = "no" THEN "responded" ELSE "hydrate"
    BY <1>5 DEF ReadCandidates, Course, TypeOK
  <2>2. ASSUME ask.response = "no" PROVE request'.groups = Silent(Candidates(ask))
    <3>1. request.groups = {}
      BY <2>1, <2>2 DEF Course
    <3> QED
      BY <2>1, <3>1 DEF WithCandidates, KeysOf, Silent
  <2>3. ASSUME ask.response # "no", request.sender = "client", crawl.steady
        PROVE  request'.groups = Wanted(ask)
    <3>1. request.groups = Grouped(Passing(ask)) /\ Unfiltered(ask)
      BY <2>1, <2>3 DEF AtRest, Course
    <3> QED
      BY <2>1, <2>3, <3>1, GroupedIsWanted
  <2> QED
    BY <1>2, <1>5, <2>1, <2>2, <2>3 DEF AtRest, Reading
<1>6. CASE ReadResponded
  <2>1. /\ request'.groups = {g \in request.groups : HasNone(g.key)}
        /\ ask.response = "no" /\ ask.list # "statements"
        /\ request.pc = "responded" /\ request'.pc = "respond"
    BY <1>6 DEF ReadResponded, Course, TypeOK
  <2>2. ASSUME request.sender = "client", crawl.steady PROVE request'.groups = Wanted(ask)
    <3>1. request.groups = Silent(Candidates(ask))
      BY <2>1, <2>2 DEF AtRest
    <3>2. Wanted(ask) = Silent({o \in Candidates(ask) : HasNone(o)})
      BY <2>1 DEF Wanted
    <3>3. {g \in Silent(Candidates(ask)) : HasNone(g.key)} = Silent({o \in Candidates(ask) : HasNone(o)})
      BY DEF Silent
    <3> QED
      BY <2>1, <3>1, <3>2, <3>3
  <2> QED
    BY <1>2, <1>6, <2>1, <2>2 DEF AtRest, Reading
<1>7. CASE Hydrate
  <2>1. request'.groups = request.groups /\ request.pc = "hydrate" /\ request'.pc = "respond"
    BY <1>7 DEF Hydrate, TypeOK
  <2> QED
    BY <1>2, <1>7, <2>1 DEF AtRest, Reading
<1>8. CASE Respond
  BY <1>8, RespondEffect, IdleRequest DEF AtRest
<1>9. CASE Pipeline
  <2>1. UNCHANGED request /\ crawl' = [crawl EXCEPT !.steady = crawl = NoCrawl]
    BY <1>9, CommitEffect
  <2>2. crawl'.steady = (crawl = NoCrawl)
    BY <2>1 DEF TypeOK
  <2>3. request.pc # "idle" /\ request.sender = "client" => crawl # NoCrawl
    BY IdleCrawl DEF Course
  <2> QED
    BY <2>1, <2>2, <2>3 DEF AtRest
<1>10. CASE Asking
  <2>1. PICK sender \in {"page", "client"}, query \in Query, offset \in Nat : Ask(sender, query, offset)
    BY <1>10, AskingEffect
  <2>2. /\ request'.ask = query
        /\ request'.pc = CASE query.list = "statements" -> "stream"
                           [] query.response = "no" -> "candidates"
                           [] OTHER -> "statements"
    BY <2>1, AskEffect
  <2>3. request'.pc \in {"stream", "statements"} \/ (request'.pc = "candidates" /\ query.response = "no")
    BY <2>2
  <2> QED
    BY <2>2, <2>3 DEF AtRest
<1>11. CASE EndCrawl
  <2>1. crawl.state = "done" /\ UNCHANGED request
    BY <1>11 DEF EndCrawl
  <2>2. request.pc # "idle" => request.sender # "client"
    BY <2>1 DEF Course
  <2> QED
    BY <2>1, <2>2 DEF AtRest
<1>12. CASE Read \/ UNCHANGED vars
  BY <1>1, <1>12, ReaderEffect DEF vars
<1> QED
  BY <1>3, <1>4, <1>5, <1>6, <1>7, <1>8, <1>9, <1>10, <1>11, <1>12, NextCases DEF Reading
-----------------------------------------------------------------------------
(* Page after page *)

(* A row of the answer is the row of the order it was cut from.             *)
LEMMA AnswerRows ==
    ASSUME TypeOK, IsFiniteSet(request.groups), NEW order \in Orders(request.groups, request.ask)
    PROVE  LET answer == Slice(order, request.offset, request.ask.limit)
               items == [i \in DOMAIN answer |-> Item(answer[i])] IN
           /\ items \in Seq(Answer) /\ Len(order) = Cardinality(request.groups)
           /\ \A i \in 1..Len(items) :
                 /\ request.offset + i \in DOMAIN order
                 /\ items[i].key = order[request.offset + i].key
                 /\ DOMAIN items[i].outs = order[request.offset + i].stmts
           /\ request.offset <= Len(order) => request.offset + Len(items) <= Len(order)
           /\ Len(items) = 0 => Len(order) <= request.offset
<1> DEFINE groups == request.groups
           offset == request.offset
           answer == Slice(order, offset, request.ask.limit)
           items == [i \in DOMAIN answer |-> Item(answer[i])]
<1>1. /\ groups \subseteq ListRow /\ offset \in Nat /\ request.ask.limit \in Nat \ {0}
      /\ request.places \in [Statement -> SUBSET District]
  BY DEF TypeOK, Query
<1>2. /\ order \in Seq(groups) /\ DOMAIN order = 1..Len(order) /\ Len(order) = Cardinality(groups)
      /\ Len(order) \in Nat
  BY OrderProperties
<1>3. /\ answer \in Seq(groups)
      /\ \A i \in 1..Len(answer) : offset + i \in 1..Len(order) /\ answer[i] = order[offset + i]
      /\ offset <= Len(order) => offset + Len(answer) <= Len(order)
      /\ Len(answer) = 0 => Len(order) <= offset
  <2> DEFINE limit == request.ask.limit
  <2> HIDE DEF groups, offset, limit
  <2>1. order \in Seq(groups) /\ offset \in Nat /\ limit \in Nat \ {0}
    BY <1>1, <1>2 DEF limit
  <2> QED
    BY <2>1, SliceProperties DEF limit
<1> HIDE DEF answer
<1>4. /\ Len(answer) \in Nat /\ DOMAIN answer = 1..Len(answer)
      /\ \A i \in 1..Len(answer) : answer[i] \in groups
  BY <1>3, ElementOfSeq, LenProperties
<1>5. \A i \in 1..Len(answer) : /\ Item(answer[i]) \in Answer /\ Item(answer[i]).key = answer[i].key
                                /\ DOMAIN Item(answer[i]).outs = answer[i].stmts
  BY <1>1, <1>4, ItemType
<1>6. items \in [1..Len(answer) -> Answer]
  BY <1>4, <1>5
<1>7. items \in Seq(Answer) /\ Len(items) = Len(answer)
  BY <1>4, <1>6
<1>8. \A i \in 1..Len(items) : items[i] = Item(answer[i])
  BY <1>4, <1>7
<1> HIDE DEF items
<1> QED
  BY <1>2, <1>3, <1>5, <1>7, <1>8 DEF items, answer

LEMMA PagesStep == TypeOK /\ Course /\ OneAnswer /\ AtRest /\ Pages /\ [Next]_vars => Pages'
<1> SUFFICES ASSUME TypeOK, Course, OneAnswer, AtRest, Pages, [Next]_vars PROVE Pages'
  OBVIOUS
<1>1. ASSUME UNCHANGED <<tables, crawl>> PROVE Pages'
  <2>1. Wanted(crawl.ask)' = Wanted(crawl.ask)
    BY <1>1, SameTables
  <2>2. Orders(Wanted(crawl.ask), crawl.ask)' = Orders(Wanted(crawl.ask), crawl.ask)
    BY <1>1, <2>1, SameTables
  <2>3. InPlace(crawl.got, crawl.ask)' <=> InPlace(crawl.got, crawl.ask)
    BY <1>1, <2>2 DEF InPlace
  <2> QED
    BY <1>1, <2>1, <2>3 DEF Pages
<1>2. ASSUME crawl'.got = <<>>, crawl'.state # "done", crawl'.state = "none" => crawl' = NoCrawl
      PROVE  Pages'
  BY <1>2 DEF Pages, InPlace
<1>3. CASE Reading
  BY <1>1, <1>3, ReadingEffect
<1>4. CASE Respond
  <2> DEFINE answer(order) == Slice(order, request.offset, request.ask.limit)
             items(order) == [i \in DOMAIN answer(order) |-> Item(answer(order)[i])]
  <2>1. PICK order \in Orders(request.groups, request.ask) :
           \/ UNCHANGED crawl
           \/ /\ request.sender = "client"
              /\ crawl' = [crawl EXCEPT !.got = crawl.got \o items(order), !.total = Len(order),
                             !.state = IF Len(crawl.got \o items(order)) < Len(order) /\ items(order) # <<>>
                                       THEN "on" ELSE "done"]
    BY <1>4 DEF Respond
  <2>2. UNCHANGED tables /\ request.pc = "respond"
    BY <1>4, RespondEffect
  <2>3. CASE UNCHANGED crawl
    BY <1>1, <2>2, <2>3
  <2> DEFINE got == crawl.got
             ask == crawl.ask
             new == items(order)
             wanted == Wanted(ask)
  <2>4. CASE request.sender = "client" /\ ~UNCHANGED crawl
    <3>1. request.ask = ask /\ request.offset = Len(got) /\ crawl.state = "on"
      BY <2>2, <2>4 DEF Course
    <3>2. /\ new \in Seq(Answer) /\ Len(order) = Cardinality(request.groups)
          /\ \A i \in 1..Len(new) :
                /\ Len(got) + i \in DOMAIN order
                /\ new[i].key = order[Len(got) + i].key
                /\ DOMAIN new[i].outs = order[Len(got) + i].stmts
          /\ Len(got) <= Len(order) => Len(got) + Len(new) <= Len(order)
          /\ Len(new) = 0 => Len(order) <= Len(got)
      <4>1. /\ new \in Seq(Answer) /\ Len(order) = Cardinality(request.groups)
            /\ \A i \in 1..Len(new) :
                  /\ request.offset + i \in DOMAIN order
                  /\ new[i].key = order[request.offset + i].key
                  /\ DOMAIN new[i].outs = order[request.offset + i].stmts
            /\ request.offset <= Len(order) => request.offset + Len(new) <= Len(order)
            /\ Len(new) = 0 => Len(order) <= request.offset
        BY AnswerRows DEF OneAnswer
      <4> HIDE DEF items, got
      <4> QED
        BY <3>1, <4>1
    <3> HIDE DEF items
    <3>3. /\ got \in Seq(Answer) /\ got \o new \in Seq(Answer)
          /\ Len(got) \in Nat /\ Len(new) \in Nat /\ Len(got \o new) = Len(got) + Len(new)
          /\ \A i \in 1..(Len(got) + Len(new)) :
                (got \o new)[i] = IF i <= Len(got) THEN got[i] ELSE new[i - Len(got)]
      BY <3>2, ConcatProperties, LenProperties DEF TypeOK
    <3>4. /\ crawl'.got = got \o new /\ crawl'.total = Len(order) /\ crawl'.ask = ask
          /\ crawl'.steady = crawl.steady
          /\ crawl'.state = IF Len(got \o new) < Len(order) /\ new # <<>> THEN "on" ELSE "done"
      BY <2>1, <2>4 DEF TypeOK
    <3>5. CASE ~crawl.steady
      BY <3>4, <3>5 DEF Pages
    <3>6. CASE crawl.steady
      <4>1. request.groups = wanted /\ InPlace(got, ask)
        BY <2>2, <2>4, <3>1, <3>6 DEF AtRest, Pages
      <4>2. order \in Orders(wanted, ask) /\ IsFiniteSet(wanted)
        BY <3>1, <4>1, WantedProperties
      <4>3. /\ DOMAIN order = 1..Cardinality(wanted) /\ Len(order) = Cardinality(wanted)
            /\ Cardinality(wanted) \in Nat
        BY <4>2, OrderProperties
      <4>4. DOMAIN (got \o new) = 1..(Len(got) + Len(new)) /\ DOMAIN got = 1..Len(got)
        BY <3>3, LenProperties
      <4>5. ASSUME NEW n \in 1..(Len(got) + Len(new))
            PROVE  \E one \in Orders(wanted, ask) :
                      /\ n \in DOMAIN one
                      /\ (got \o new)[n].key = one[n].key /\ DOMAIN (got \o new)[n].outs = one[n].stmts
        <5>1. CASE n <= Len(got)
          <6>1. n \in DOMAIN got /\ (got \o new)[n] = got[n]
            BY <3>3, <4>4, <5>1
          <6> QED
            BY <4>1, <6>1 DEF InPlace
        <5>2. CASE ~(n <= Len(got))
          <6>1. /\ n - Len(got) \in 1..Len(new) /\ (got \o new)[n] = new[n - Len(got)]
                /\ Len(got) + (n - Len(got)) = n
            <7>1. n \in Int /\ n <= Len(got) + Len(new) /\ Len(got) < n
              BY <3>3, <5>2
            <7>2. n - Len(got) \in 1..Len(new) /\ Len(got) + (n - Len(got)) = n
              BY <3>3, <7>1
            <7> QED
              BY <3>3, <5>2, <7>2
          <6>2. /\ n \in DOMAIN order
                /\ new[n - Len(got)].key = order[n].key
                /\ DOMAIN new[n - Len(got)].outs = order[n].stmts
            BY <3>2, <6>1
          <6> QED
            BY <4>2, <6>1, <6>2
        <5> QED
          BY <5>1, <5>2
      <4>6. InPlace(got \o new, ask)
        BY <4>4, <4>5 DEF InPlace
      <4>7. Len(got) <= Len(order)
        <5>1. CASE Len(got) = 0
          BY <4>3, <5>1
        <5>2. CASE Len(got) # 0
          <6>1. Len(got) \in DOMAIN got
            BY <3>3, <4>4, <5>2
          <6>2. PICK one \in Orders(wanted, ask) : Len(got) \in DOMAIN one
            BY <4>1, <6>1 DEF InPlace
          <6>3. DOMAIN one = 1..Cardinality(wanted)
            BY <4>2, OrderProperties
          <6> QED
            BY <4>3, <6>2, <6>3
        <5> QED
          BY <5>1, <5>2
      <4>8. crawl'.state = "done" => Len(crawl'.got) = crawl'.total /\ crawl'.total = Cardinality(wanted)
        <5>1. new = <<>> => Len(new) = 0
          BY EmptySeq
        <5>2. Len(got) + Len(new) <= Len(order)
          BY <3>2, <4>7
        <5>3. ASSUME crawl'.state = "done" PROVE Len(got) + Len(new) = Len(order)
          <6>1. ~(Len(got \o new) < Len(order)) \/ new = <<>>
            BY <3>4, <5>3
          <6>2. CASE ~(Len(got \o new) < Len(order))
            <7> DEFINE a == Len(got)
                       b == Len(new)
                       c == Len(got \o new)
                       d == Len(order)
            <7>1. a \in Nat /\ b \in Nat /\ d \in Nat /\ c = a + b /\ a + b <= d /\ ~(c < d)
              BY <3>3, <4>3, <5>2, <6>2
            <7> HIDE DEF a, b, c, d
            <7>2. a + b = d
              BY <7>1
            <7> QED
              BY <7>2 DEF a, b, d
          <6>3. CASE new = <<>>
            BY <3>2, <3>3, <4>3, <5>1, <5>2, <6>3
          <6> QED
            BY <6>1, <6>2, <6>3
        <5> QED
          BY <3>3, <3>4, <4>3, <5>3
      <4>9. /\ Wanted(crawl.ask)' = wanted
            /\ Orders(Wanted(crawl.ask), crawl.ask)' = Orders(wanted, ask)
        BY <2>2, <3>4, SameTables
      <4>10. InPlace(crawl.got, crawl.ask)'
        BY <3>4, <4>6, <4>9 DEF InPlace
      <4>11. crawl'.state # "none"
        BY <3>4
      <4> QED
        BY <4>8, <4>9, <4>10, <4>11 DEF Pages
    <3> QED
      BY <3>5, <3>6
  <2> QED
    BY <2>1, <2>3, <2>4
<1>5. CASE Pipeline
  <2>1. crawl' = [crawl EXCEPT !.steady = crawl = NoCrawl]
    BY <1>5, CommitEffect
  <2>2. CASE crawl = NoCrawl
    <3>1. crawl' = NoCrawl
      BY <2>1, <2>2 DEF NoCrawl
    <3> QED
      BY <1>2, <3>1, IdleCrawl
  <2>3. CASE crawl # NoCrawl
    <3>1. ~crawl'.steady /\ crawl'.state = crawl.state
      BY <2>1, <2>3 DEF TypeOK
    <3> QED
      BY <2>3, <3>1 DEF Pages
  <2> QED
    BY <2>2, <2>3
<1>6. CASE Asking
  <2>1. CASE UNCHANGED crawl
    BY <1>1, <1>6, <2>1, AskingEffect
  <2>2. CASE crawl' = [NoCrawl EXCEPT !.state = "on", !.ask = crawl'.ask]
    <3>1. crawl'.got = <<>> /\ crawl'.state = "on"
      BY <2>2 DEF NoCrawl
    <3> QED
      BY <1>2, <3>1
  <2> QED
    BY <1>6, <2>1, <2>2, AskingEffect
<1>7. CASE EndCrawl
  BY <1>2, <1>7, IdleCrawl DEF EndCrawl
<1>8. CASE Read \/ UNCHANGED vars
  BY <1>1, <1>8, ReaderEffect DEF vars
<1> QED
  BY <1>3, <1>4, <1>5, <1>6, <1>7, <1>8, NextCases
-----------------------------------------------------------------------------
(* Types *)

TypedTables ==
    /\ created \in [Statement -> Nat]
    /\ matched \subseteq Name /\ located \subseteq Stored /\ changes \in 0..MaxChanges
TypedRequest ==
    request \in [pc : Step, sender : {None, "page", "client"}, ask : Query, offset : Nat,
                 groups : SUBSET ListRow, places : [Statement -> SUBSET District],
                 since : [Statement -> OrNone(Row)]]
TypedCrawl ==
    crawl \in [state : {"none", "on", "done"}, ask : Query, got : Seq(Answer), total : Nat,
               steady : BOOLEAN]
TypedPage ==
    /\ board \in Seq(Answer)
    /\ reader \in {"away", "served", "live"}
    /\ reader = "away" => board = <<>>
    /\ reader # "live" => filters = EMPTY
    /\ DOMAIN url \subseteq FilterKey

LEMMA TypeParts == TypeOK <=> TypedTables /\ TypedRequest /\ TypedCrawl /\ TypedPage
  BY DEF TypeOK, TypedTables, TypedRequest, TypedCrawl, TypedPage

LEMMA SameTypes ==
    /\ UNCHANGED tables /\ TypedTables => TypedTables'
    /\ UNCHANGED request /\ TypedRequest => TypedRequest'
    /\ UNCHANGED crawl /\ TypedCrawl => TypedCrawl'
    /\ UNCHANGED page /\ TypedPage => TypedPage'
  BY DEF tables, page, TypedTables, TypedRequest, TypedCrawl, TypedPage, Stored

(* The query string has keys of a filter state, whoever wrote it.           *)
LEMMA WrittenKeys == \A f : DOMAIN SerializeFilters(f) \subseteq FilterKey
  BY DEF SerializeFilters

LEMMA PageTypeStep == TypedPage /\ Read => TypedPage'
<1> SUFFICES ASSUME TypedPage, Read PROVE TypedPage'
  OBVIOUS
<1>1. ASSUME NEW f, SetFilters(f) PROVE TypedPage'
  BY <1>1, WrittenKeys DEF SetFilters, TypedPage
<1>2. CASE OpenLink
  BY <1>2, LinksAssumption DEF OpenLink, TypedPage
<1>3. CASE Hydrates \/ FollowLink
  BY <1>3, WrittenKeys DEF Hydrates, FollowLink, TypedPage
<1>4. CASE Reload
  BY <1>4 DEF Reload, TypedPage
<1>5. CASE Leave
  <2>1. DOMAIN NoQuery = {} /\ <<>> \in Seq(Answer)
    BY EmptySeq DEF NoQuery
  <2> QED
    BY <1>5, <2>1 DEF Leave, TypedPage
<1>6. CASE ToggleOption \/ RemoveChip \/ ClearAll \/ SelectLink \/ ChangeTab \/ ChangeSort \/ Search
  BY <1>1, <1>6 DEF ToggleOption, RemoveChip, ClearAll, SelectLink, ChangeTab, ChangeSort, Search
<1> QED
  BY <1>2, <1>3, <1>4, <1>5, <1>6 DEF Read

LEMMA IdleTypes ==
    /\ NoRequest \in [pc : Step, sender : {None, "page", "client"}, ask : Query, offset : Nat,
                      groups : SUBSET ListRow, places : [Statement -> SUBSET District],
                      since : [Statement -> OrNone(Row)]]
    /\ NoCrawl \in [state : {"none", "on", "done"}, ask : Query, got : Seq(Answer), total : Nat,
                    steady : BOOLEAN]
<1>1. Nowhere \in [Statement -> SUBSET District] /\ [s \in Statement |-> None] \in [Statement -> OrNone(Row)]
  BY DEF Nowhere, OrNone
<1>2. <<>> \in Seq(Answer)
  BY EmptySeq
<1> QED
  BY <1>1, <1>2, BoardAskType DEF NoRequest, NoCrawl, Step

LEMMA AskTypes ==
    ASSUME NEW sender \in {"page", "client"}, NEW ask \in Query, NEW offset \in Nat, Ask(sender, ask, offset)
    PROVE  TypedRequest'
<1> DEFINE since == [s \in Statement |-> IF s \in Stored THEN KeyOf(s) ELSE None]
           pc == CASE ask.list = "statements" -> "stream"
                   [] ask.response = "no" -> "candidates"
                   [] OTHER -> "statements"
<1>1. since \in [Statement -> OrNone(Row)]
  BY KeyProperties DEF OrNone
<1>2. pc \in Step
  BY DEF Step
<1>3. request' = [NoRequest EXCEPT !.sender = sender, !.ask = ask, !.offset = offset,
                    !.since = since, !.pc = pc]
  BY DEF Ask
<1> HIDE DEF since, pc
<1> QED
  BY <1>1, <1>2, <1>3, IdleTypes DEF TypedRequest

LEMMA ReadingTypes == ASSUME TypeOK, OneAnswer, Reading PROVE TypedRequest'
<1> DEFINE ask == request.ask
<1>1. TypedRequest /\ TypedTables
  BY TypeParts
<1>2. ASSUME NEW groups \in SUBSET ListRow, NEW pc \in Step,
             request' = [request EXCEPT !.groups = groups, !.pc = pc]
      PROVE  TypedRequest'
  BY <1>1, <1>2 DEF TypedRequest
<1>3. CASE ReadStream
  <2>1. request' = [request EXCEPT !.groups = Single(InStream(ask)), !.pc = "hydrate"]
    BY <1>3 DEF ReadStream
  <2> QED
    BY <1>2, <2>1, QueryRows DEF Step
<1>4. CASE ReadStatements
  <2>1. request' = [request EXCEPT !.groups = Grouped(Passing(ask)),
                                   !.pc = IF Unfiltered(ask) THEN "candidates" ELSE "hydrate"]
    BY <1>4 DEF ReadStatements
  <2>2. (IF Unfiltered(ask) THEN "candidates" ELSE "hydrate") \in Step
    BY DEF Step
  <2> QED
    BY <1>2, <2>1, <2>2, QueryRows
<1>5. CASE ReadCandidates
  <2>1. request' = [request EXCEPT !.groups = WithCandidates(request.groups, Candidates(ask)),
                                   !.pc = IF ask.response = "no" THEN "responded" ELSE "hydrate"]
    BY <1>5 DEF ReadCandidates
  <2>2. WithCandidates(request.groups, Candidates(ask)) \in SUBSET ListRow
    BY <1>1, QueryRows, CandidateRows DEF TypedRequest, OneAnswer
  <2>3. (IF ask.response = "no" THEN "responded" ELSE "hydrate") \in Step
    BY DEF Step
  <2> QED
    BY <1>2, <2>1, <2>2, <2>3
<1>6. CASE ReadResponded
  <2>1. request' = [request EXCEPT !.groups = {g \in request.groups : HasNone(g.key)}, !.pc = "respond"]
    BY <1>6 DEF ReadResponded
  <2>2. {g \in request.groups : HasNone(g.key)} \in SUBSET ListRow
    BY <1>1 DEF TypedRequest
  <2> QED
    BY <1>2, <2>1, <2>2 DEF Step
<1>7. CASE Hydrate
  <2>1. [s \in Statement |-> DistrictsOf(s)] \in [Statement -> SUBSET District]
    BY ConstantsAssumption DEF DistrictsOf
  <2>2. request' = [request EXCEPT !.places = [s \in Statement |-> DistrictsOf(s)], !.pc = "respond"]
    BY <1>7 DEF Hydrate
  <2> QED
    BY <1>1, <2>1, <2>2 DEF TypedRequest, Step
<1> QED
  BY <1>3, <1>4, <1>5, <1>6, <1>7 DEF Reading

LEMMA RespondTypes == ASSUME TypeOK, Course, OneAnswer, Respond PROVE TypedCrawl' /\ TypedPage'
<1> DEFINE answer(order) == Slice(order, request.offset, request.ask.limit)
           items(order) == [i \in DOMAIN answer(order) |-> Item(answer(order)[i])]
           got(order) == crawl.got \o items(order)
<1>1. TypedCrawl /\ TypedPage
  BY TypeParts
<1>2. PICK order \in Orders(request.groups, request.ask) :
         \/ /\ request.sender = "page"
            /\ board' = items(order) /\ reader' = "served"
            /\ UNCHANGED <<crawl, filters, url>>
         \/ /\ request.sender = "client"
            /\ crawl' = [crawl EXCEPT !.got = got(order), !.total = Len(order),
                           !.state = IF Len(got(order)) < Len(order) /\ items(order) # <<>> THEN "on" ELSE "done"]
            /\ UNCHANGED page
  BY DEF Respond
<1>3. items(order) \in Seq(Answer) /\ IsFiniteSet(request.groups)
  BY AnswerRows DEF OneAnswer
<1>4. Len(order) \in Nat
  BY <1>3, OrderProperties
<1>5. got(order) \in Seq(Answer)
  BY <1>1, <1>3, ConcatProperties DEF TypedCrawl
<1>6. (reader = "away" /\ filters = EMPTY) \/ request.sender # "page"
  BY <1>1, RespondEffect DEF Course, TypedPage
<1> HIDE DEF items, got
<1>7. CASE request.sender = "page"
  BY <1>1, <1>2, <1>3, <1>6, <1>7, SameTypes DEF TypedPage
<1>8. CASE request.sender # "page"
  BY <1>1, <1>2, <1>4, <1>5, <1>8, SameTypes DEF TypedCrawl
<1> QED
  BY <1>7, <1>8

LEMMA TypeStep == TypeOK /\ Course /\ OneAnswer /\ [Next]_vars => TypeOK'
<1> SUFFICES ASSUME TypeOK, Course, OneAnswer, [Next]_vars
             PROVE  TypedTables' /\ TypedRequest' /\ TypedCrawl' /\ TypedPage'
  BY TypeParts DEF TypeOK, TypedTables, TypedRequest, TypedCrawl, TypedPage
<1>0. TypedTables /\ TypedRequest /\ TypedCrawl /\ TypedPage
  BY TypeParts
<1>1. CASE Reading
  BY <1>0, <1>1, ReadingEffect, ReadingTypes, SameTypes
<1>2. CASE Respond
  BY <1>0, <1>2, RespondEffect, RespondTypes, IdleTypes, SameTypes DEF TypedRequest
<1>3. CASE Pipeline
  <2>1. /\ UNCHANGED <<request, page>> /\ crawl' = [crawl EXCEPT !.steady = crawl = NoCrawl]
        /\ TypedTables'
    BY <1>3, CommitEffect DEF TypedTables
  <2>2. TypedCrawl'
    <3> DEFINE steady == (crawl = NoCrawl)
    <3>1. steady \in BOOLEAN
      OBVIOUS
    <3> HIDE DEF steady
    <3> QED
      BY <1>0, <2>1, <3>1 DEF TypedCrawl, steady
  <2> QED
    BY <1>0, <2>1, <2>2, SameTypes
<1>4. CASE Asking
  <2>1. TypedRequest'
    BY <1>4, AskingEffect, AskTypes
  <2>2. TypedCrawl'
    BY <1>0, <1>4, AskingEffect, IdleTypes, SameTypes DEF TypedCrawl
  <2>3. UNCHANGED <<tables, page>>
    BY <1>4, AskingEffect
  <2> QED
    BY <1>0, <2>1, <2>2, <2>3, SameTypes
<1>5. CASE EndCrawl
  BY <1>0, <1>5, IdleTypes, SameTypes DEF EndCrawl, TypedCrawl
<1>6. CASE Read
  BY <1>0, <1>6, ReaderEffect, PageTypeStep, SameTypes
<1>7. CASE UNCHANGED vars
  BY <1>0, <1>7, SameTypes DEF vars
<1> QED
  BY <1>1, <1>2, <1>3, <1>4, <1>5, <1>6, <1>7, NextCases
-----------------------------------------------------------------------------
(* Theorems *)

LEMMA ListsInit == Init => Lists
<1> SUFFICES ASSUME Init PROVE Lists
  OBVIOUS
<1>1. /\ created = [s \in Statement |-> 0] /\ matched = {} /\ located = {} /\ changes = 0
      /\ request = NoRequest /\ crawl = NoCrawl
      /\ board = <<>> /\ reader = "away" /\ filters = EMPTY /\ url = NoQuery
  BY DEF Init
<1>2. TypeOK
  <2>1. TypedTables
    <3>1. created \in [Statement -> Nat]
      BY <1>1
    <3>2. changes \in 0..MaxChanges
      <4>1. MaxChanges \in Nat
        BY ConstantsAssumption
      <4> QED
        BY <1>1, <4>1
    <3> QED
      BY <1>1, <3>1, <3>2 DEF TypedTables
  <2>2. TypedRequest /\ TypedCrawl
    BY <1>1, IdleTypes DEF TypedRequest, TypedCrawl
  <2>3. TypedPage
    <3>1. DOMAIN NoQuery = {} /\ <<>> \in Seq(Answer)
      BY EmptySeq DEF NoQuery
    <3> QED
      BY <1>1, <3>1 DEF TypedPage
  <2> QED
    BY <2>1, <2>2, <2>3, TypeParts
<1>3. Course /\ Since /\ AtRest
  BY <1>1, IdleRequest DEF Course, Since, AtRest
<1>4. OneAnswer
  BY <1>1, IdleRequest, BoardAsksForAll, FS_EmptySet DEF OneAnswer, Distinct
<1>5. Pages
  BY <1>1, IdleCrawl DEF Pages, InPlace
<1> QED
  BY <1>2, <1>3, <1>4, <1>5 DEF Lists

LEMMA ListsHold == Spec => []Lists
<1>1. Lists /\ [Next]_vars => Lists'
  BY TypeStep, CourseStep, SinceStep, OneAnswerStep, AtRestStep, PagesStep DEF Lists
<1> QED
  BY <1>1, ListsInit, PTL DEF Spec

(* Every variable has its type, in every state of any instance: no query    *)
(* of an answer and no choice of a reader leaves a row, a filter state or   *)
(* an address that the code has no case for.                                *)
THEOREM BoardTypeCorrect == Spec => []TypeOK
<1>1. Lists => TypeOK
  BY DEF Lists
<1> QED
  BY <1>1, ListsHold, PTL

(* A finished list holds every row that its sort keys place exactly once.   *)
LEMMA PlacedOnce ==
    ASSUME NEW got \in Seq(Answer), NEW ask, InPlace(got, ask), Len(got) = Cardinality(Wanted(ask)),
           NEW g \in Wanted(ask), HasPlace(g, Wanted(ask), ask)
    PROVE  \E i \in DOMAIN got : \A j \in DOMAIN got : got[j].key = g.key <=> i = j
<1> DEFINE wanted == Wanted(ask)
           n == Cardinality(wanted)
<1>1. IsFiniteSet(wanted) /\ Distinct(wanted)
  BY WantedProperties
<1>2. ASSUME NEW order \in Orders(wanted, ask)
      PROVE  /\ DOMAIN order = 1..n
             /\ \A i \in DOMAIN order : order[i] \in wanted
             /\ \A h \in wanted : \E i \in DOMAIN order : order[i] = h
  BY <1>1, OrderProperties
<1>3. Len(got) \in Nat /\ DOMAIN got = 1..n
  BY LenProperties
<1>4. n # 0
  BY <1>1, FS_EmptySet
<1>5. PICK one \in Orders(wanted, ask) : TRUE
  <2>1. 1 \in DOMAIN got
    BY <1>3, <1>4
  <2> QED
    BY <2>1 DEF InPlace
<1>6. PICK i \in 1..n : one[i] = g
  BY <1>2
<1>7. ASSUME NEW order \in Orders(wanted, ask), NEW j \in 1..n, order[j] = g PROVE i = j
  BY <1>1, <1>2, <1>6, <1>7, SamePlace
<1>8. got[i].key = g.key
  <2>1. PICK order \in Orders(wanted, ask) : got[i].key = order[i].key
    BY <1>3 DEF InPlace
  <2>2. PICK k \in 1..n : order[k] = g
    BY <1>2
  <2>3. k = i
    BY <1>7, <2>2
  <2> QED
    BY <2>1, <2>2, <2>3
<1>9. ASSUME NEW j \in 1..n, got[j].key = g.key PROVE i = j
  <2>1. PICK order \in Orders(wanted, ask) : got[j].key = order[j].key
    BY <1>3 DEF InPlace
  <2>2. order[j] \in wanted
    BY <1>2
  <2>3. order[j] = g
    BY <1>1, <1>9, <2>1, <2>2 DEF Distinct
  <2> QED
    BY <1>7, <2>3
<1> QED
  BY <1>3, <1>8, <1>9

(* Nobody is listed twice and nobody is left out: in an answer put together *)
(* from several SELECTs with commits between them, and over the pages of a  *)
(* list whose tables stay as they are.                                      *)
THEOREM EverybodyHolds == Spec => []EverybodyOnce
<1>1. Lists => EverybodyOnce
  <2> SUFFICES ASSUME Lists PROVE EverybodyOnce
    OBVIOUS
  <2>1. TypeOK /\ OneAnswer /\ Pages
    BY DEF Lists
  <2>2. ASSUME request.pc = "respond"
        PROVE  /\ Distinct(request.groups)
               /\ request.ask = BoardAsk =>
                    /\ Org \subseteq KeysOf(request.groups)
                    /\ \A s \in Statement : request.since[s] # None =>
                          s \in UNION {g.stmts : g \in request.groups}
               /\ request.ask.response = "no" =>
                    \A s \in Statement : request.since[s] \notin KeysOf(request.groups)
    BY <2>1, <2>2 DEF OneAnswer
  <2>3. ASSUME crawl.state = "done", crawl.steady
        PROVE  LET got == crawl.got
                   wanted == Wanted(crawl.ask) IN
               /\ Len(got) = crawl.total /\ crawl.total = Cardinality(wanted)
               /\ \A i \in DOMAIN got : [key |-> got[i].key, stmts |-> DOMAIN got[i].outs] \in wanted
               /\ \A g \in wanted : HasPlace(g, wanted, crawl.ask) =>
                    \E i \in DOMAIN got : \A j \in DOMAIN got : got[j].key = g.key <=> i = j
    <3> DEFINE got == crawl.got
               ask == crawl.ask
               wanted == Wanted(ask)
    <3>1. /\ Len(got) = crawl.total /\ crawl.total = Cardinality(wanted)
          /\ InPlace(got, ask) /\ got \in Seq(Answer)
      BY <2>1, <2>3 DEF Pages, TypeOK
    <3>2. ASSUME NEW i \in DOMAIN got
          PROVE  [key |-> got[i].key, stmts |-> DOMAIN got[i].outs] \in wanted
      <4>1. PICK order \in Orders(wanted, ask) :
               /\ i \in DOMAIN order
               /\ got[i].key = order[i].key /\ DOMAIN got[i].outs = order[i].stmts
        BY <3>1 DEF InPlace
      <4>2. IsFiniteSet(wanted) /\ \A g \in wanted : g = [key |-> g.key, stmts |-> g.stmts]
        BY WantedProperties
      <4>3. order[i] \in wanted
        BY <4>1, <4>2, OrderProperties, ElementOfSeq
      <4> QED
        BY <4>1, <4>2, <4>3
    <3>3. ASSUME NEW g \in wanted, HasPlace(g, wanted, ask)
          PROVE  \E i \in DOMAIN got : \A j \in DOMAIN got : got[j].key = g.key <=> i = j
      BY <3>1, <3>3, PlacedOnce
    <3> QED
      BY <3>1, <3>2, <3>3
  <2> QED
    BY <2>2, <2>3 DEF EverybodyOnce, Distinct
<1> QED
  BY <1>1, ListsHold, PTL
=============================================================================

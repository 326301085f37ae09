--------------------------- MODULE RunQueue_proofs ---------------------------
(***************************************************************************)
(* Proofs about RunQueue for any number of rows, processes and jobs.       *)
(*                                                                         *)
(* Custody, with the types, is inductive: it ties the location of every    *)
(* process to the row it holds.  The safety properties of the ledger and   *)
(* the step simulation of RunLedger follow from it.                        *)
(***************************************************************************)
EXTENDS RunQueue, TLAPS

USE DEF NoRun, NoJob

-----------------------------------------------------------------------------
(* Type correctness *)

LEMMA InsertType ==
    ASSUME TypeOK, NEW r \in RunId, NEW j \in Job, NEW st \in Status,
           Insert(r, j, st)
    PROVE  /\ status' \in [RunId -> Status]
           /\ job' \in [RunId -> Job \cup {NoJob}]
           /\ startedAt' \in [RunId -> Nat]
           /\ finishedAt' \in [RunId -> Nat]
           /\ inserts' \in Nat
           /\ clock' \in Nat
    BY DEF TypeOK, Insert

LEMMA DiesType ==
    ASSUME TypeOK, NEW p \in Process, Dies(p)
    PROVE  /\ pc' \in [Process -> Location]
           /\ cur' \in [Process -> RunId \cup {NoRun}]
           /\ executed' \in [Process -> Nat]
           /\ todo' \in [Process -> Seq(Registered)]
           /\ stamp' \in [Process -> Nat]
           /\ passed' \in [Process -> SUBSET (RunId \cup {NoRun})]
    BY DEF TypeOK, Dies, Release, Goto, Location

(* Every held row is a row.                                                *)
LEMMA HeldRow ==
    ASSUME TypeOK, Custody, NEW p \in Process, Held(p)
    PROVE  cur[p] \in RunId
    BY DEF TypeOK, Custody, HoldsARow

THEOREM TypeStep == TypeOK /\ [Next]_vars => TypeOK'
<1> SUFFICES ASSUME TypeOK, [Next]_vars PROVE TypeOK'
  OBVIOUS
<1> USE ConstantsAssumption
<1>1. ASSUME NEW j \in Job, TriggerIngest(j) PROVE TypeOK'
  <2>1. PICK r \in RunId :
          /\ Insert(r, j, "queued")
          /\ requested' = requested \cup {r}
          /\ UNCHANGED <<starts, procs, faults>>
    BY <1>1 DEF TriggerIngest
  <2>2. "queued" \in Status
    BY DEF Status
  <2> QED
    BY <2>1, <2>2, InsertType DEF TypeOK, procs, closing
<1>2. ASSUME NEW p \in Process, Start(p) PROVE TypeOK'
  <2>1. ASSUME NEW loc \in {"drain", "sequence"}, NEW jobs \in Seq(Registered),
               Launch(p, loc, jobs)
        PROVE  TypeOK'
    BY <2>1 DEF Launch, Goto, TypeOK, Location, rows, closing
  <2>2. <<>> \in Seq(Registered)
    OBVIOUS
  <2>3. \A j \in Registered : <<j>> \in Seq(Registered)
    OBVIOUS
  <2> QED
    BY <1>2, <2>1, <2>2, <2>3 DEF Start, StartTick, StartDrain, StartRun
<1>3. ASSUME NEW p \in Process, Step(p) PROVE TypeOK'
  <2>1. CASE ClaimNext(p)
    BY <2>1 DEF ClaimNext, Claimable, Goto, TypeOK, Location, rows, closing
  <2>2. CASE CommitClaim(p)
    <3>1. status' \in [RunId -> Status]
      BY <2>2 DEF CommitClaim, TypeOK, Status
    <3>2. executed' \in [Process -> Nat]
      BY <2>2 DEF CommitClaim, TypeOK
    <3>3. pc' \in [Process -> Location]
      BY <2>2 DEF CommitClaim, Goto, TypeOK, Location
    <3> QED
      BY <2>2, <3>1, <3>2, <3>3 DEF CommitClaim, TypeOK, closing
  <2>3. CASE StopDraining(p)
    BY <2>3 DEF StopDraining, Goto, TypeOK, Location, rows, closing
  <2>4. CASE RejectUnregistered(p)
    BY <2>4 DEF RejectUnregistered, Goto, TypeOK, Location, rows, closing
  <2>5. CASE AdoptRun(p)
    <3>1. starts' \in [RunId -> Nat]
      <4>1. starts' = [starts EXCEPT ![cur[p]] = starts[cur[p]] + 1]
        BY <2>5 DEF AdoptRun
      <4>2. starts \in [RunId -> Nat]
        BY DEF TypeOK
      <4>3. CASE cur[p] \in RunId
        BY <4>1, <4>2, <4>3
      <4>4. CASE cur[p] \notin RunId
        BY <4>1, <4>2, <4>4
      <4> QED
        BY <4>3, <4>4
    <3>2. pc' \in [Process -> Location]
      BY <2>5 DEF AdoptRun, Goto, TypeOK, Location
    <3> QED
      BY <2>5, <3>1, <3>2 DEF AdoptRun, TypeOK, rows, closing
  <2>6. CASE OpenRun(p)
    <3>1. PICK r \in RunId :
            /\ Insert(r, Head(todo[p]), "running")
            /\ starts' = [starts EXCEPT ![r] = @ + 1]
            /\ cur' = [cur EXCEPT ![p] = r]
      BY <2>6 DEF OpenRun
    <3>2. todo[p] \in Seq(Registered) /\ todo[p] # <<>>
      BY <2>6 DEF OpenRun, TypeOK
    <3>3. Head(todo[p]) \in Job /\ Tail(todo[p]) \in Seq(Registered)
      BY <3>2
    <3>4. "running" \in Status
      BY DEF Status
    <3>5. /\ status' \in [RunId -> Status]
          /\ job' \in [RunId -> Job \cup {NoJob}]
          /\ startedAt' \in [RunId -> Nat]
          /\ finishedAt' \in [RunId -> Nat]
          /\ inserts' \in Nat
          /\ clock' \in Nat
      BY <3>1, <3>3, <3>4, InsertType
    <3>6. starts' \in [RunId -> Nat]
      BY <3>1 DEF TypeOK
    <3>7. cur' \in [Process -> RunId \cup {NoRun}]
      BY <3>1 DEF TypeOK
    <3>8. todo' \in [Process -> Seq(Registered)]
      BY <2>6, <3>3 DEF OpenRun, TypeOK
    <3>9. pc' \in [Process -> Location]
      BY <2>6 DEF OpenRun, Goto, TypeOK, Location
    <3> QED
      BY <2>6, <3>5, <3>6, <3>7, <3>8, <3>9 DEF OpenRun, TypeOK, closing
  <2>7. ASSUME NEW outcome \in Closed, JobEnds(p, outcome) PROVE TypeOK'
    BY <2>7 DEF JobEnds, Goto, Closed, TypeOK, Location, rows, closing
  <2>8. CASE CloseRun(p)
    <3>1. status' \in [RunId -> Status]
      BY <2>8 DEF CloseRun, Recorded, Closed, TypeOK, Status
    <3>2. finishedAt' \in [RunId -> Nat] /\ stamp' \in [Process -> Nat]
      BY <2>8 DEF CloseRun, Recorded, Release, TypeOK
    <3>3. pc' \in [Process -> Location]
      BY <2>8 DEF CloseRun, Recorded, Release, AfterRun, Goto, TypeOK, Location
    <3>4. cur' \in [Process -> RunId \cup {NoRun}]
      BY <2>8 DEF CloseRun, Recorded, Release, TypeOK
    <3>5. passed' \in [Process -> SUBSET (RunId \cup {NoRun})]
      BY <2>8 DEF CloseRun, Recorded, TypeOK
    <3> QED
      BY <2>8, <3>1, <3>2, <3>3, <3>4, <3>5 DEF CloseRun, Recorded, TypeOK
  <2>9. CASE Exit(p)
    BY <2>9 DEF Exit, Goto, TypeOK, Location, rows, closing
  <2>10. CASE OpenRefused(p)
    <3>1. Tail(todo[p]) \in Seq(Registered)
      BY <2>10 DEF OpenRefused, TypeOK
    <3> QED
      BY <2>10, <3>1 DEF OpenRefused, Fault, TypeOK, rows, closing
  <2>11. CASE ReadClock(p)
    BY <2>11 DEF ReadClock, TypeOK
  <2> QED
    BY <1>3, <2>1, <2>2, <2>3, <2>4, <2>5, <2>6, <2>7, <2>8, <2>9, <2>10, <2>11 DEF Step
<1>4. ASSUME NEW p \in Process, Crash(p) PROVE TypeOK'
  <2>1. CASE Kill(p)
    BY <2>1, DiesType DEF Kill, Fault, TypeOK, rows
  <2>2. CASE ClaimRefused(p)
    BY <2>2, DiesType DEF ClaimRefused, Fault, TypeOK, rows
  <2>3. CASE CloseRefused(p)
    <3>1. CASE job[cur[p]] \in Registered
      <4>1. pc' \in [Process -> Location]
        BY <2>3, <3>1
           DEF CloseRefused, Release, AfterRun, Goto, TypeOK, Location
      <4>2. cur' \in [Process -> RunId \cup {NoRun}]
        BY <2>3, <3>1 DEF CloseRefused, Release, TypeOK
      <4>3. /\ stamp' \in [Process -> Nat]
            /\ passed' \in [Process -> SUBSET (RunId \cup {NoRun})]
        <5>1. /\ stamp' = [stamp EXCEPT ![p] = 0]
              /\ passed' = [passed EXCEPT ![p] = {}]
          BY <2>3, <3>1 DEF CloseRefused, Release
        <5> QED
          BY <5>1 DEF TypeOK
      <4> QED
        BY <2>3, <3>1, <4>1, <4>2, <4>3 DEF CloseRefused, Fault, TypeOK, rows
    <3>2. CASE job[cur[p]] \notin Registered
      BY <2>3, <3>2, DiesType DEF CloseRefused, Fault, TypeOK, rows
    <3> QED
      BY <3>1, <3>2
  <2> QED
    BY <1>4, <2>1, <2>2, <2>3 DEF Crash
<1>5. CASE UNCHANGED vars
  BY <1>5 DEF TypeOK, vars, rows, procs, closing
<1> QED
  BY <1>1, <1>2, <1>3, <1>4, <1>5 DEF Next

(* Every variable keeps its type (the columns of ingestion_run, the local  *)
(* variables of drain_queue and tick).                                     *)
THEOREM TypeCorrect == Spec => []TypeOK
<1>1. Init => TypeOK
  BY ConstantsAssumption DEF Init, TypeOK, Status, Location
<1> QED
  BY <1>1, TypeStep, PTL DEF Spec

-----------------------------------------------------------------------------
(* Custody is inductive *)

(* A process that holds nothing moves to a place where it holds nothing.   *)
LEMMA IdleMove ==
    ASSUME TypeOK, Custody, NEW p \in Process, NEW loc,
           ~Held(p), loc \in Location \ Holding,
           Goto(p, loc), UNCHANGED <<cur, status, job, starts>>
    PROVE  Custody'
<1>1. \A q \in Process : pc'[q] = IF q = p THEN loc ELSE pc[q]
  BY DEF TypeOK, Goto
<1>2. \A q \in Process : Held(q)' <=> Held(q)
  BY <1>1 DEF Held
<1>3. HoldsARow'
  BY <1>2 DEF Custody, HoldsARow
<1>4. OneHolder'
  BY <1>2 DEF Custody, OneHolder
<1>5. ASSUME NEW q \in Process PROVE RowMatches(q)'
  BY <1>1, <1>2 DEF Custody, RowMatches, Held, Holding
<1>6. UnstartedIsUntaken'
  BY DEF Custody, UnstartedIsUntaken
<1> QED
  BY <1>3, <1>4, <1>5, <1>6 DEF Custody

(* A process that holds a row lets go of it, and only that row changes.    *)
LEMMA ReleaseMove ==
    ASSUME TypeOK, Custody, NEW p \in Process, NEW loc,
           Held(p), loc \in Location \ Holding, Release(p, loc),
           UNCHANGED <<job, starts>>,
           \A r \in RunId \ {cur[p]} : status'[r] = status[r],
           status'[cur[p]] \in {"absent", "queued"} => starts[cur[p]] = 0
    PROVE  Custody'
<1>1. \A q \in Process : pc'[q] = IF q = p THEN loc ELSE pc[q]
  BY DEF TypeOK, Release, Goto
<1>2. \A q \in Process : cur'[q] = IF q = p THEN NoRun ELSE cur[q]
  BY DEF TypeOK, Release
<1>3. \A q \in Process : Held(q)' <=> Held(q) /\ q # p
  BY <1>1 DEF Held
<1>4. \A q \in Process \ {p} : Held(q) => cur[q] \in RunId \ {cur[p]}
  BY HeldRow DEF Custody, OneHolder
<1>5. HoldsARow'
  BY <1>2, <1>3 DEF Custody, HoldsARow
<1>6. OneHolder'
  BY <1>2, <1>3 DEF Custody, OneHolder
<1>7. ASSUME NEW q \in Process PROVE RowMatches(q)'
  <2>1. CASE Held(q) /\ q # p
    <3>1. RowMatches(q)
      BY DEF Custody
    <3>2. /\ pc'[q] = pc[q]
          /\ cur'[q] = cur[q]
          /\ status'[cur[q]] = status[cur[q]]
      BY <1>1, <1>2, <1>4, <2>1
    <3> QED
      BY <3>1, <3>2, <2>1, <1>3 DEF RowMatches
  <2>2. CASE ~(Held(q) /\ q # p)
    BY <2>2, <1>3 DEF RowMatches, Held, Holding
  <2> QED
    BY <2>1, <2>2
<1>8. UnstartedIsUntaken'
  BY DEF Custody, UnstartedIsUntaken
<1> QED
  BY <1>5, <1>6, <1>7, <1>8 DEF Custody

(* A process goes on with the row it holds, and only that row changes.     *)
LEMMA HeldMove ==
    ASSUME TypeOK, Custody, NEW p \in Process, NEW loc,
           Held(p), loc \in Holding, Goto(p, loc), UNCHANGED <<cur, job>>,
           \A r \in RunId \ {cur[p]} : status'[r] = status[r] /\ starts'[r] = starts[r],
           status'[cur[p]] \in {"absent", "queued"} => starts'[cur[p]] = 0,
           RowMatches(p)'
    PROVE  Custody'
<1>1. \A q \in Process : pc'[q] = IF q = p THEN loc ELSE pc[q]
  BY DEF TypeOK, Goto
<1>2. \A q \in Process : Held(q)' <=> Held(q)
  BY <1>1 DEF Held
<1>3. \A q \in Process \ {p} : Held(q) => cur[q] \in RunId \ {cur[p]}
  BY HeldRow DEF Custody, OneHolder
<1>4. HoldsARow'
  BY <1>2 DEF Custody, HoldsARow
<1>5. OneHolder'
  BY <1>2 DEF Custody, OneHolder
<1>6. ASSUME NEW q \in Process \ {p} PROVE RowMatches(q)'
  <2>1. CASE Held(q)
    <3>1. RowMatches(q)
      BY DEF Custody
    <3>2. /\ pc'[q] = pc[q]
          /\ cur'[q] = cur[q]
          /\ status'[cur[q]] = status[cur[q]]
          /\ starts'[cur[q]] = starts[cur[q]]
      BY <1>1, <1>3, <2>1
    <3> QED
      BY <3>1, <3>2, <2>1, <1>2 DEF RowMatches
  <2>2. CASE ~Held(q)
    BY <2>2, <1>2 DEF RowMatches, Held, Holding
  <2> QED
    BY <2>1, <2>2
<1>7. UnstartedIsUntaken'
  BY DEF Custody, UnstartedIsUntaken
<1> QED
  BY <1>4, <1>5, <1>6, <1>7 DEF Custody

(* A process that holds nothing takes a row that nobody holds.             *)
LEMMA TakeMove ==
    ASSUME TypeOK, Custody, NEW p \in Process, NEW loc, NEW r \in RunId,
           ~Held(p), loc \in Holding, Goto(p, loc),
           status[r] \in {"absent", "queued"}, ~Locked(r),
           cur' = [cur EXCEPT ![p] = r],
           \A q \in RunId \ {r} :
              status'[q] = status[q] /\ starts'[q] = starts[q] /\ job'[q] = job[q],
           status'[r] \in {"absent", "queued"} => starts'[r] = 0,
           RowMatches(p)'
    PROVE  Custody'
<1>1. \A q \in Process : pc'[q] = IF q = p THEN loc ELSE pc[q]
  BY DEF TypeOK, Goto
<1>2. \A q \in Process : cur'[q] = IF q = p THEN r ELSE cur[q]
  BY DEF TypeOK
<1>3. \A q \in Process : Held(q)' <=> Held(q) \/ q = p
  BY <1>1 DEF Held
<1>4. \A q \in Process : Held(q) => cur[q] \in RunId \ {r}
  <2> SUFFICES ASSUME NEW q \in Process, Held(q) PROVE cur[q] # r
    BY HeldRow
  <2>1. RowMatches(q)
    BY DEF Custody
  <2> QED
    BY <2>1 DEF RowMatches, Held, Holding, Locked
<1>5. HoldsARow'
  <2>1. r # NoRun
    BY ConstantsAssumption
  <2> QED
    BY <1>2, <1>3, <2>1 DEF Custody, HoldsARow
<1>6. OneHolder'
  BY <1>2, <1>3, <1>4 DEF Custody, OneHolder
<1>7. ASSUME NEW q \in Process \ {p} PROVE RowMatches(q)'
  <2>1. CASE Held(q)
    <3>1. RowMatches(q)
      BY DEF Custody
    <3>2. /\ pc'[q] = pc[q]
          /\ cur'[q] = cur[q]
          /\ status'[cur[q]] = status[cur[q]]
          /\ starts'[cur[q]] = starts[cur[q]]
          /\ job'[cur[q]] = job[cur[q]]
      BY <1>1, <1>2, <1>4, <2>1
    <3> QED
      BY <3>1, <3>2, <2>1, <1>3 DEF RowMatches
  <2>2. CASE ~Held(q)
    BY <2>2, <1>3 DEF RowMatches, Held, Holding
  <2> QED
    BY <2>1, <2>2
<1>8. UnstartedIsUntaken'
  BY DEF Custody, UnstartedIsUntaken
<1> QED
  BY <1>5, <1>6, <1>7, <1>8 DEF Custody

LEMMA CustodyTrigger ==
    ASSUME TypeOK, Custody, NEW j \in Job, TriggerIngest(j)
    PROVE  Custody'
<1>1. PICK r \in RunId :
        Insert(r, j, "queued") /\ UNCHANGED <<starts, procs>>
  BY DEF TriggerIngest
<1>2. \A q \in RunId \ {r} : status'[q] = status[q] /\ job'[q] = job[q]
  BY <1>1 DEF Insert, TypeOK
<1>3. status[r] = "absent" /\ starts[r] = 0
  BY <1>1 DEF Insert, Custody, UnstartedIsUntaken
<1>4. \A p \in Process : Held(p)' <=> Held(p)
  BY <1>1 DEF procs, Held
<1>5. ASSUME NEW p \in Process PROVE RowMatches(p)'
  <2>1. RowMatches(p)
    BY DEF Custody
  <2>2. Held(p) => cur[p] \in RunId \ {r}
    BY <1>3, <2>1, HeldRow DEF RowMatches, Held, Holding
  <2> QED
    BY <1>1, <1>2, <1>4, <2>1, <2>2 DEF RowMatches, Held, Holding, procs
<1>6. UnstartedIsUntaken'
  BY <1>1, <1>2, <1>3 DEF Custody, UnstartedIsUntaken
<1>7. HoldsARow' /\ OneHolder'
  BY <1>1, <1>4 DEF Custody, HoldsARow, OneHolder, procs
<1> QED
  BY <1>5, <1>6, <1>7 DEF Custody

LEMMA CustodyStart ==
    ASSUME TypeOK, Custody, NEW p \in Process, Start(p)
    PROVE  Custody'
<1>1. ASSUME NEW loc \in {"drain", "sequence"}, NEW jobs, Launch(p, loc, jobs)
      PROVE  Custody'
  BY <1>1, IdleMove DEF Launch, Held, Holding, Location, rows
<1> QED
  BY <1>1 DEF Start, StartTick, StartDrain, StartRun

LEMMA CustodyStep ==
    ASSUME TypeOK, Custody, NEW p \in Process, Step(p)
    PROVE  Custody'
<1>0. RowMatches(p) /\ (Held(p) => cur[p] \in RunId)
  BY HeldRow DEF Custody
<1>1. CASE ClaimNext(p)
  <2>1. PICK r \in Claimable : cur' = [cur EXCEPT ![p] = r]
    BY <1>1 DEF ClaimNext
  <2>2. /\ r \in RunId /\ status[r] = "queued" /\ ~Locked(r)
        /\ ~Held(p) /\ Goto(p, "claiming")
        /\ UNCHANGED <<status, job, starts>>
    BY <1>1, <2>1 DEF ClaimNext, Claimable, Held, Holding, rows
  <2>3. starts[r] = 0
    BY <2>2 DEF Custody, UnstartedIsUntaken
  <2>4. pc'[p] = "claiming" /\ cur'[p] = r
    BY <2>1, <2>2 DEF TypeOK, Goto
  <2>5. RowMatches(p)'
    BY <2>2, <2>4 DEF RowMatches, Held, Holding
  <2>6. "claiming" \in Holding
    BY DEF Holding
  <2> QED
    BY <2>1, <2>2, <2>3, <2>5, <2>6, TakeMove
<1>2. CASE CommitClaim(p)
  <2>1. Held(p) /\ status[cur[p]] = "queued" /\ starts[cur[p]] = 0
    BY <1>0, <1>2 DEF CommitClaim, RowMatches, Held, Holding, Custody, UnstartedIsUntaken
  <2>2. /\ pc'[p] = "claimed"
        /\ status'[cur[p]] = "running"
        /\ \A r \in RunId \ {cur[p]} : status'[r] = status[r]
    BY <1>0, <1>2, <2>1 DEF CommitClaim, Goto, TypeOK
  <2>3. RowMatches(p)'
    BY <1>2, <2>1, <2>2 DEF CommitClaim, RowMatches, Held, Holding
  <2>4. "claimed" \in Holding
    BY DEF Holding
  <2> QED
    BY <1>2, <2>1, <2>2, <2>3, <2>4, HeldMove DEF CommitClaim
<1>3. CASE StopDraining(p)
  BY <1>3, IdleMove DEF StopDraining, Held, Holding, Location, rows
<1>4. CASE RejectUnregistered(p)
  <2>1. /\ Held(p) /\ pc'[p] = "failed" /\ "failed" \in Holding
        /\ starts[cur[p]] = 0 /\ status[cur[p]] = "running"
    BY <1>0, <1>4 DEF RejectUnregistered, RowMatches, Held, Holding, Goto, TypeOK
  <2>2. RowMatches(p)'
    BY <1>4, <2>1 DEF RejectUnregistered, RowMatches, Held, Holding, rows
  <2> QED
    BY <1>4, <2>1, <2>2, HeldMove DEF RejectUnregistered, rows
<1>5. CASE AdoptRun(p)
  <2>1. /\ Held(p) /\ pc'[p] = "job" /\ "job" \in Holding
        /\ starts[cur[p]] = 0 /\ status[cur[p]] = "running"
    BY <1>0, <1>5 DEF AdoptRun, RowMatches, Held, Holding, Goto, TypeOK
  <2>2. /\ starts'[cur[p]] = 1
        /\ \A r \in RunId \ {cur[p]} : starts'[r] = starts[r]
    BY <1>0, <1>5, <2>1 DEF AdoptRun, TypeOK
  <2>3. RowMatches(p)'
    BY <1>5, <2>1, <2>2 DEF AdoptRun, RowMatches, Held, Holding, rows
  <2> QED
    BY <1>5, <2>1, <2>2, <2>3, HeldMove DEF AdoptRun, rows
<1>6. CASE OpenRun(p)
  <2>1. PICK r \in RunId :
          /\ Insert(r, Head(todo[p]), "running")
          /\ starts' = [starts EXCEPT ![r] = @ + 1]
          /\ cur' = [cur EXCEPT ![p] = r]
    BY <1>6 DEF OpenRun
  <2>2. /\ status[r] = "absent" /\ starts[r] = 0
        /\ ~Held(p) /\ "job" \in Holding /\ Goto(p, "job")
    BY <1>6, <2>1 DEF OpenRun, Insert, Held, Holding, Custody, UnstartedIsUntaken
  <2>3. ~Locked(r)
    BY <2>2 DEF Locked, Custody, RowMatches
  <2>4. /\ status'[r] = "running" /\ starts'[r] = 1
        /\ cur'[p] = r /\ pc'[p] = "job"
        /\ \A q \in RunId \ {r} :
              status'[q] = status[q] /\ starts'[q] = starts[q] /\ job'[q] = job[q]
    BY <2>1, <2>2 DEF Insert, Goto, TypeOK
  <2>5. RowMatches(p)'
    BY <2>4 DEF RowMatches, Held, Holding
  <2> QED
    BY <2>1, <2>2, <2>3, <2>4, <2>5, TakeMove
<1>7. ASSUME NEW outcome \in Closed, JobEnds(p, outcome) PROVE Custody'
  <2>1. /\ Held(p) /\ pc'[p] = outcome /\ outcome \in Holding
        /\ starts[cur[p]] = 1 /\ status[cur[p]] = "running"
    BY <1>0, <1>7 DEF JobEnds, RowMatches, Held, Holding, Closed, Goto, TypeOK
  <2>2. RowMatches(p)'
    <3>1. UNCHANGED <<cur, status, job, starts>>
      BY <1>7 DEF JobEnds, rows
    <3>2. starts'[cur'[p]] = 1 /\ status'[cur'[p]] = "running"
      BY <2>1, <3>1
    <3>3. pc'[p] # "claiming" /\ pc'[p] # "claimed"
      BY <2>1 DEF Closed
    <3> QED
      BY <3>2, <3>3 DEF RowMatches
  <2> QED
    BY <1>7, <2>1, <2>2, HeldMove DEF JobEnds, rows
<1>8. CASE CloseRun(p)
  <2>1. /\ Held(p) /\ AfterRun(p) \in Location \ Holding
        /\ Release(p, AfterRun(p))
    BY <1>8 DEF CloseRun, Recorded, Held, Holding, Closed, AfterRun, Location
  <2>2. /\ status'[cur[p]] \in Closed
        /\ \A r \in RunId \ {cur[p]} : status'[r] = status[r]
    BY <1>0, <1>8, <2>1 DEF CloseRun, Recorded, TypeOK
  <2> QED
    BY <1>8, <2>1, <2>2, ReleaseMove DEF CloseRun, Recorded, Closed
<1>9. CASE Exit(p)
  BY <1>9, IdleMove DEF Exit, Held, Holding, Location, rows
<1>10. CASE OpenRefused(p)
  <2>1. Goto(p, "sequence")
    BY <1>10 DEF OpenRefused, Goto, TypeOK
  <2> QED
    BY <1>10, <2>1, IdleMove DEF OpenRefused, Held, Holding, Location, rows
<1>11. CASE ReadClock(p)
  BY <1>11 DEF ReadClock, Custody, HoldsARow, OneHolder, RowMatches, UnstartedIsUntaken, Held
<1> QED
  BY <1>1, <1>2, <1>3, <1>4, <1>5, <1>6, <1>7, <1>8, <1>9, <1>10, <1>11 DEF Step

LEMMA CustodyCrash ==
    ASSUME TypeOK, Custody, NEW p \in Process, Crash(p)
    PROVE  Custody'
<1>1. ASSUME NEW loc \in Location \ Holding, Release(p, loc),
             UNCHANGED <<rows, starts>>
      PROVE  Custody'
  <2>1. CASE Held(p)
    <3>1. UNCHANGED <<status, job, starts>>
      BY <1>1 DEF rows
    <3>2. status[cur[p]] \in {"absent", "queued"} => starts[cur[p]] = 0
      BY <2>1, HeldRow DEF Custody, UnstartedIsUntaken
    <3> QED
      BY <1>1, <2>1, <3>1, <3>2, ReleaseMove
  <2>2. CASE ~Held(p)
    <3>1. cur' = cur /\ Goto(p, loc)
      BY <1>1, <2>2 DEF Release, Custody, HoldsARow, TypeOK
    <3> QED
      BY <1>1, <2>2, <3>1, IdleMove DEF rows
  <2> QED
    BY <2>1, <2>2
<1>2. "off" \in Location \ Holding /\ AfterRun(p) \in Location \ Holding
  BY DEF Location, Holding, AfterRun
<1> QED
  BY <1>1, <1>2 DEF Crash, Kill, ClaimRefused, CloseRefused, Dies

THEOREM CustodyInductive == TypeOK /\ Custody /\ [Next]_vars => Custody'
<1> SUFFICES ASSUME TypeOK, Custody, [Next]_vars PROVE Custody'
  OBVIOUS
<1>1. CASE UNCHANGED vars
  BY <1>1 DEF vars, rows, procs, closing, Custody, HoldsARow, OneHolder, RowMatches,
              UnstartedIsUntaken, Held
<1> QED
  BY <1>1, CustodyTrigger, CustodyStart, CustodyStep, CustodyCrash DEF Next

(* Two processes never hold one row, and every row says what its holder's  *)
(* location says (claim_next_queued_run, adopt_run).                       *)
THEOREM CustodyHolds == Spec => []Custody
<1>1. Init => Custody
  BY DEF Init, Custody, HoldsARow, OneHolder, RowMatches, UnstartedIsUntaken,
         Held, Holding
<1> QED
  BY <1>1, TypeCorrect, CustodyInductive, PTL DEF Spec

-----------------------------------------------------------------------------
(* What a step does to the table: nothing, or one of four things to one row *)

OnlyRow(r) ==
    \A q \in RunId \ {r} :
        /\ status'[q] = status[q]
        /\ starts'[q] = starts[q]
        /\ job'[q] = job[q]
        /\ finishedAt'[q] = finishedAt[q]

RowInserted(r) ==
    /\ status[r] = "absent"
    /\ starts[r] = 0
    /\ \/ status'[r] = "queued" /\ starts'[r] = 0
       \/ status'[r] = "running" /\ starts'[r] = 1

RowTaken(r) ==
    /\ status[r] = "queued" /\ status'[r] = "running"
    /\ starts'[r] = starts[r]

RowStarted(r) ==
    /\ status[r] = "running" /\ status'[r] = "running"
    /\ starts[r] = 0 /\ starts'[r] = 1

RowClosed(r) ==
    /\ status[r] = "running" /\ status'[r] \in Closed
    /\ starts'[r] = starts[r] /\ job'[r] = job[r]
    /\ status'[r] = "succeeded" => starts[r] = 1
    /\ status'[r] = "failed" /\ starts[r] = 0 => job[r] \notin Registered

RowStep ==
    \/ UNCHANGED <<status, starts, job, finishedAt>>
    \/ \E r \in RunId :
          /\ OnlyRow(r)
          /\ RowInserted(r) \/ RowTaken(r) \/ RowStarted(r) \/ RowClosed(r)

LEMMA NextIsRowStep ==
    ASSUME TypeOK, Custody, [Next]_vars
    PROVE  RowStep
<1>1. ASSUME NEW j \in Job, TriggerIngest(j) PROVE RowStep
  <2>1. PICK r \in RunId : Insert(r, j, "queued") /\ UNCHANGED starts
    BY <1>1 DEF TriggerIngest
  <2>2. OnlyRow(r)
    BY <2>1 DEF OnlyRow, Insert, TypeOK
  <2>3. RowInserted(r)
    BY <2>1 DEF RowInserted, Insert, TypeOK, Custody, UnstartedIsUntaken
  <2> QED
    BY <2>2, <2>3 DEF RowStep
<1>2. ASSUME NEW p \in Process, Start(p) PROVE RowStep
  BY <1>2 DEF RowStep, Start, StartTick, StartDrain, StartRun, Launch, rows
<1>3. ASSUME NEW p \in Process, Step(p) PROVE RowStep
  <2>1. RowMatches(p) /\ (Held(p) => cur[p] \in RunId)
    BY HeldRow DEF Custody
  <2>2. CASE CommitClaim(p)
    <3>1. cur[p] \in RunId /\ status[cur[p]] = "queued"
      BY <2>1, <2>2 DEF CommitClaim, RowMatches, Held, Holding
    <3>2. OnlyRow(cur[p]) /\ RowTaken(cur[p])
      BY <2>2, <3>1 DEF CommitClaim, OnlyRow, RowTaken, TypeOK
    <3> QED
      BY <3>1, <3>2 DEF RowStep
  <2>3. CASE AdoptRun(p)
    <3>1. cur[p] \in RunId /\ status[cur[p]] = "running" /\ starts[cur[p]] = 0
      BY <2>1, <2>3 DEF AdoptRun, RowMatches, Held, Holding
    <3>2. OnlyRow(cur[p]) /\ RowStarted(cur[p])
      BY <2>3, <3>1 DEF AdoptRun, OnlyRow, RowStarted, TypeOK, rows
    <3> QED
      BY <3>1, <3>2 DEF RowStep
  <2>4. CASE OpenRun(p)
    <3>1. PICK r \in RunId :
            /\ Insert(r, Head(todo[p]), "running")
            /\ starts' = [starts EXCEPT ![r] = @ + 1]
      BY <2>4 DEF OpenRun
    <3>2. OnlyRow(r)
      BY <3>1 DEF OnlyRow, Insert, TypeOK
    <3>3. RowInserted(r)
      BY <3>1 DEF RowInserted, Insert, TypeOK, Custody, UnstartedIsUntaken
    <3> QED
      BY <3>2, <3>3 DEF RowStep
  <2>5. CASE CloseRun(p)
    <3>1. /\ cur[p] \in RunId /\ status[cur[p]] = "running"
          /\ pc[p] = "succeeded" => starts[cur[p]] = 1
          /\ pc[p] = "failed" /\ starts[cur[p]] = 0
               => job[cur[p]] \notin Registered
      BY <2>1, <2>5 DEF CloseRun, Recorded, RowMatches, Held, Holding, Closed
    <3>2. OnlyRow(cur[p]) /\ RowClosed(cur[p])
      BY <2>5, <3>1 DEF CloseRun, Recorded, OnlyRow, RowClosed, TypeOK
    <3> QED
      BY <3>1, <3>2 DEF RowStep
  <2>6. CASE \/ ClaimNext(p) \/ StopDraining(p) \/ RejectUnregistered(p)
             \/ \E outcome \in Closed : JobEnds(p, outcome)
             \/ Exit(p) \/ OpenRefused(p) \/ ReadClock(p)
    BY <2>6 DEF ClaimNext, StopDraining, RejectUnregistered, JobEnds, ReadClock, Exit,
                OpenRefused, ReadClock, RowStep, rows
  <2> QED
    BY <1>3, <2>2, <2>3, <2>4, <2>5, <2>6 DEF Step
<1>4. ASSUME NEW p \in Process, Crash(p) PROVE RowStep
  BY <1>4 DEF RowStep, Crash, Kill, ClaimRefused, CloseRefused, rows
<1>5. CASE UNCHANGED vars
  BY <1>5 DEF RowStep, vars, rows
<1> QED
  BY <1>1, <1>2, <1>3, <1>4, <1>5 DEF Next

-----------------------------------------------------------------------------
(* The safety properties of the ledger *)

(* A run's job is started at most once, whatever overlaps or crashes, and  *)
(* "succeeded" and "failed" say what happened (claim_next_queued_run and   *)
(* adopt_run).                                                             *)
THEOREM LedgerIsTrue == Spec => [](AtMostOnce /\ OutcomeIsTrue)
<1>1. Init => AtMostOnce /\ OutcomeIsTrue
  BY DEF Init, AtMostOnce, OutcomeIsTrue
<1>2. TypeOK /\ Custody /\ AtMostOnce /\ OutcomeIsTrue /\ [Next]_vars
        => AtMostOnce' /\ OutcomeIsTrue'
  <2> SUFFICES ASSUME TypeOK, Custody, AtMostOnce, OutcomeIsTrue, [Next]_vars
               PROVE  AtMostOnce' /\ OutcomeIsTrue'
    OBVIOUS
  <2>1. RowStep
    BY NextIsRowStep
  <2>2. CASE UNCHANGED <<status, starts, job, finishedAt>>
    BY <2>2 DEF AtMostOnce, OutcomeIsTrue
  <2>3. ASSUME NEW r \in RunId, OnlyRow(r),
               RowInserted(r) \/ RowTaken(r) \/ RowStarted(r) \/ RowClosed(r)
        PROVE  AtMostOnce' /\ OutcomeIsTrue'
    <3>1. starts'[r] <= 1
      BY <2>3 DEF RowInserted, RowTaken, RowStarted, RowClosed, AtMostOnce
    <3>2. /\ status'[r] = "succeeded" => starts'[r] = 1
          /\ status'[r] = "failed" /\ starts'[r] = 0 => job'[r] \notin Registered
      BY <2>3 DEF RowInserted, RowTaken, RowStarted, RowClosed
    <3> QED
      BY <2>3, <3>1, <3>2 DEF OnlyRow, AtMostOnce, OutcomeIsTrue
  <2> QED
    BY <2>1, <2>2, <2>3 DEF RowStep
<1> QED
  BY <1>1, <1>2, TypeCorrect, CustodyHolds, PTL DEF Spec

(* The outcome half by itself.                                             *)
THEOREM OutcomeHolds == Spec => []OutcomeIsTrue
  BY LedgerIsTrue, PTL

(* A closed run is never touched again and a taken one never goes back to  *)
(* the queue (the finally block of adopt_run is the only writer).          *)
THEOREM HistoryHolds == Spec => HistoryIsFinal
<1> DEFINE Final ==
      \A r \in RunId :
        /\ status[r] \in Closed =>
              /\ status'[r] = status[r]
              /\ job'[r] = job[r]
              /\ finishedAt'[r] = finishedAt[r]
        /\ status[r] = "running" => status'[r] \in {"running"} \cup Closed
<1>1. TypeOK /\ Custody /\ [Next]_vars => [Final]_vars
  <2> SUFFICES ASSUME TypeOK, Custody, [Next]_vars PROVE Final
    OBVIOUS
  <2>1. RowStep
    BY NextIsRowStep
  <2>2. CASE UNCHANGED <<status, starts, job, finishedAt>>
    BY <2>2
  <2>3. ASSUME NEW r \in RunId, OnlyRow(r),
               RowInserted(r) \/ RowTaken(r) \/ RowStarted(r) \/ RowClosed(r)
        PROVE  Final
    BY <2>3 DEF OnlyRow, RowInserted, RowTaken, RowStarted, RowClosed, Closed
  <2> QED
    BY <2>1, <2>2, <2>3 DEF RowStep
<1> QED
  BY <1>1, TypeCorrect, CustodyHolds, PTL DEF Spec, HistoryIsFinal

-----------------------------------------------------------------------------
(* Order *)

(* Times are given in the order of the inserts, and a request is a row.    *)
Aged ==
    /\ \A r \in RunId : startedAt[r] <= inserts
    /\ \A r \in requested : status[r] # "absent"

LEMMA AgedStep == TypeOK /\ Custody /\ Aged /\ [Next]_vars => Aged'
<1> SUFFICES ASSUME TypeOK, Custody, Aged, [Next]_vars PROVE Aged'
  OBVIOUS
<1>1. ASSUME UNCHANGED <<startedAt, inserts, requested, status>> PROVE Aged'
  BY <1>1 DEF Aged
<1>2. ASSUME NEW r \in RunId, NEW j, NEW st \in Status \ {"absent"}, Insert(r, j, st),
             requested' \in {requested, requested \cup {r}}
      PROVE  Aged'
  BY <1>2 DEF Insert, Aged, TypeOK
<1>3. ASSUME NEW j \in Job, TriggerIngest(j) PROVE Aged'
  BY <1>2, <1>3 DEF TriggerIngest, Status
<1>4. ASSUME NEW p \in Process, OpenRun(p) PROVE Aged'
  BY <1>2, <1>4 DEF OpenRun, Status
<1>5. ASSUME NEW p \in Process, CommitClaim(p) \/ CloseRun(p) PROVE Aged'
  <2>1. \A r \in RunId : status'[r] = "absent" => status[r] = "absent"
    BY <1>5 DEF CommitClaim, CloseRun, Recorded, TypeOK, Closed
  <2>2. UNCHANGED <<startedAt, inserts, requested>>
    BY <1>5 DEF CommitClaim, CloseRun, Recorded
  <2> QED
    BY <2>1, <2>2 DEF Aged, TypeOK
<1>6. ASSUME NEW p \in Process, Start(p) \/ Step(p) \/ Crash(p),
             ~OpenRun(p), ~CommitClaim(p), ~CloseRun(p)
      PROVE  Aged'
  BY <1>1, <1>6 DEF Start, StartTick, StartDrain, StartRun, Launch, Step, ClaimNext, StopDraining,
       RejectUnregistered, AdoptRun, JobEnds, ReadClock, Exit, OpenRefused, Crash, Kill, ClaimRefused,
       CloseRefused, rows
<1>7. CASE UNCHANGED vars
  BY <1>1, <1>7 DEF vars, rows
<1> QED
  BY <1>3, <1>4, <1>5, <1>6, <1>7 DEF Next

(* What is claimable changes only by a request, a claim, or a fault that   *)
(* rolls a claim back.                                                     *)
LEMMA QueueStep ==
    ASSUME TypeOK, Custody, [Next]_vars, faults' = 0,
           \A j \in Job : ~TriggerIngest(j),
           \A p \in Process : ~ClaimNext(p)
    PROVE  Claimable' = Claimable /\ UNCHANGED requested
<1>1. ASSUME NEW p \in Process, Start(p) \/ Step(p) \/ Crash(p)
      PROVE  /\ UNCHANGED requested
             /\ \A r \in RunId : Locked(r)' <=> (Locked(r) /\ (CommitClaim(p) => cur[p] # r))
             /\ UNCHANGED status \/ CommitClaim(p) \/ CloseRun(p) \/ OpenRun(p)
  <2>1. ~ClaimNext(p) /\ ~Kill(p) /\ ~ClaimRefused(p) /\ ~CloseRefused(p)
    BY DEF Kill, ClaimRefused, CloseRefused, Fault, TypeOK
  <2>2. UNCHANGED requested /\ (UNCHANGED status \/ CommitClaim(p) \/ CloseRun(p) \/ OpenRun(p))
    BY <1>1, <2>1 DEF Start, StartTick, StartDrain, StartRun, Launch, Step, CommitClaim,
         StopDraining, RejectUnregistered, AdoptRun, OpenRun, JobEnds, ReadClock, CloseRun, Recorded, Exit,
         OpenRefused, Crash, rows
  <2>3. CASE CommitClaim(p)
    <3>1. pc[p] = "claiming" /\ pc' = [pc EXCEPT ![p] = "claimed"] /\ UNCHANGED cur
      BY <2>3 DEF CommitClaim, Goto
    <3>2. \A q \in Process : q # p /\ pc[q] = "claiming" => cur[q] # cur[p]
      BY <3>1 DEF Custody, OneHolder, Held, Holding
    <3> QED
      BY <2>2, <2>3, <3>1, <3>2 DEF Locked, TypeOK
  <2>4. CASE ~CommitClaim(p)
    <3>1. /\ pc[p] = "claiming" => UNCHANGED <<pc, cur>>
          /\ pc[p] # "claiming" => pc'[p] # "claiming"
          /\ \A q \in Process \ {p} : pc'[q] = pc[q] /\ cur'[q] = cur[q]
      BY <1>1, <2>1, <2>4 DEF Start, StartTick, StartDrain, StartRun, Launch, Step, StopDraining,
           RejectUnregistered, AdoptRun, OpenRun, JobEnds, ReadClock, CloseRun, Recorded, Exit, OpenRefused, Crash,
           Goto, Release, AfterRun, Closed, rows, TypeOK
    <3> QED
      BY <2>2, <2>4, <3>1 DEF Locked
  <2> QED
    BY <2>3, <2>4
<1>2. ASSUME NEW p \in Process, Start(p) \/ Step(p) \/ Crash(p)
      PROVE  Claimable' = Claimable
  <2>1. CASE CommitClaim(p)
    <3>1. /\ pc[p] = "claiming"
          /\ status' = [status EXCEPT ![cur[p]] = "running"]
      BY <2>1 DEF CommitClaim
    <3>2. Locked(cur[p])
      BY <3>1 DEF Locked
    <3>3. \A r \in RunId : r # cur[p] =>
             status'[r] = status[r] /\ (Locked(r)' <=> Locked(r))
      BY <1>1, <1>2, <2>1, <3>1 DEF TypeOK
    <3>4. ASSUME cur[p] \in RunId PROVE status'[cur[p]] # "queued"
      BY <3>1, <3>4 DEF TypeOK
    <3> QED
      BY <3>2, <3>3, <3>4 DEF Claimable
  <2>2. CASE CloseRun(p)
    <3>1. status[cur[p]] = "running"
      BY <2>2 DEF CloseRun, Recorded, Custody, RowMatches, Held, Holding, Closed
    <3>2. \A r \in RunId : status'[r] = "queued" <=> status[r] = "queued"
      BY <2>2, <3>1 DEF CloseRun, Recorded, TypeOK, Closed
    <3>3. ~CommitClaim(p)
      BY <2>2 DEF CloseRun, Recorded, CommitClaim, Closed
    <3> QED
      BY <1>1, <1>2, <3>2, <3>3 DEF Claimable
  <2>3. CASE OpenRun(p)
    <3>1. \A r \in RunId : status'[r] = "queued" <=> status[r] = "queued"
      BY <2>3 DEF OpenRun, Insert, TypeOK
    <3>2. ~CommitClaim(p)
      BY <2>3 DEF OpenRun, CommitClaim
    <3> QED
      BY <1>1, <1>2, <3>1, <3>2 DEF Claimable
  <2>4. CASE UNCHANGED status /\ ~CommitClaim(p)
    BY <1>1, <1>2, <2>4 DEF Claimable
  <2> QED
    BY <1>1, <1>2, <2>1, <2>2, <2>3, <2>4
<1>3. CASE UNCHANGED vars
  BY <1>3 DEF vars, rows, procs, closing, Claimable, Locked
<1> QED
  BY <1>1, <1>2, <1>3 DEF Next

LEMMA OrderStep ==
    TypeOK /\ Custody /\ Aged /\ NoOvertaking /\ [Next]_vars => NoOvertaking'
<1> SUFFICES ASSUME TypeOK, Custody, Aged, NoOvertaking, [Next]_vars, faults' = 0,
                    NEW q \in requested', NEW r \in requested',
                    q \in Claimable', startedAt'[q] < startedAt'[r]
             PROVE  r \in Claimable'
  BY DEF NoOvertaking
<1>1. faults = 0
  BY DEF Next, TriggerIngest, Start, StartTick, StartDrain, StartRun, Launch, Step, ClaimNext,
     CommitClaim, StopDraining, RejectUnregistered, AdoptRun, OpenRun, JobEnds, ReadClock, CloseRun, Recorded, Exit,
     OpenRefused, Crash, Kill, ClaimRefused, CloseRefused, Fault, vars, TypeOK
<1>2. CASE \E j \in Job : TriggerIngest(j)
  <2>1. PICK x \in RunId : \E j \in Job :
          Insert(x, j, "queued") /\ requested' = requested \cup {x} /\ UNCHANGED procs
    BY <1>2 DEF TriggerIngest
  <2>2. ~Locked(x)
    BY <2>1 DEF Insert, Locked, Custody, RowMatches
  <2>3. Claimable' = Claimable \cup {x}
    BY <2>1, <2>2 DEF Insert, Claimable, Locked, procs, TypeOK
  <2>4. startedAt'[x] = inserts + 1
        /\ \A y \in RunId \ {x} : startedAt'[y] = startedAt[y] /\ startedAt[y] <= inserts
    BY <2>1 DEF Insert, Aged, TypeOK
  <2>5. q \in RunId /\ r \in RunId
    BY <2>1 DEF TypeOK
  <2>6. CASE r = x
    BY <2>3, <2>6
  <2>7. CASE r # x
    <3>1. q # x
      BY <2>4, <2>5, <2>7 DEF TypeOK
    <3>2. q \in requested /\ r \in requested /\ q \in Claimable
      BY <2>1, <2>3, <2>7, <3>1
    <3>3. startedAt[q] < startedAt[r]
      BY <2>4, <2>5, <2>7, <3>1
    <3>4. r \in Claimable
      BY <1>1, <3>2, <3>3 DEF NoOvertaking
    <3> QED
      BY <2>3, <3>4
  <2> QED
    BY <2>6, <2>7
<1>3. ASSUME NEW p \in Process, ClaimNext(p) PROVE r \in Claimable'
  <2>1. PICK c \in Claimable :
          /\ \A y \in Claimable : startedAt[c] <= startedAt[y]
          /\ cur' = [cur EXCEPT ![p] = c]
    BY <1>3 DEF ClaimNext
  <2>2. /\ pc[p] = "drain" /\ pc' = [pc EXCEPT ![p] = "claiming"]
        /\ UNCHANGED <<status, startedAt, requested>>
    BY <1>3 DEF ClaimNext, Goto, rows
  <2>3. \A y : Locked(y)' <=> (Locked(y) \/ y = c)
    BY <2>1, <2>2 DEF Locked, TypeOK
  <2>4. Claimable' = Claimable \ {c}
    BY <2>2, <2>3 DEF Claimable
  <2>5. r \in Claimable
    BY <1>1, <2>2, <2>4 DEF NoOvertaking
  <2>6. startedAt[c] \in Nat /\ startedAt[q] \in Nat /\ startedAt[r] \in Nat
    BY <2>2 DEF Claimable, TypeOK
  <2>7. startedAt[c] <= startedAt[q]
    BY <2>1, <2>4
  <2> QED
    BY <2>2, <2>4, <2>5, <2>6, <2>7
<1>4. CASE /\ \A j \in Job : ~TriggerIngest(j)
           /\ \A p \in Process : ~ClaimNext(p)
  <2>1. Claimable' = Claimable /\ UNCHANGED requested
    BY <1>4, QueueStep
  <2>2. startedAt'[q] = startedAt[q] /\ startedAt'[r] = startedAt[r]
    <3>1. CASE \E p \in Process : OpenRun(p)
      <4>1. PICK x \in RunId : \E j : Insert(x, j, "running")
        BY <3>1 DEF OpenRun
      <4>2. x \notin requested
        BY <4>1 DEF Insert, Aged
      <4> QED
        BY <2>1, <4>1, <4>2 DEF Insert, TypeOK
    <3>2. CASE \A p \in Process : ~OpenRun(p)
      BY <1>4, <3>2 DEF Next, Start, StartTick, StartDrain, StartRun, Launch, Step, CommitClaim,
         StopDraining, RejectUnregistered, AdoptRun, JobEnds, ReadClock, CloseRun, Recorded, Exit, OpenRefused, Crash,
         Kill, ClaimRefused, CloseRefused, vars, rows
    <3> QED
      BY <3>1, <3>2
  <2> QED
    BY <1>1, <2>1, <2>2 DEF NoOvertaking
<1> QED
  BY <1>2, <1>3, <1>4

(* Until something fails, no drainer takes a request while an older one    *)
(* waits, although each skips what another has locked: a locked request is *)
(* always the oldest of those that were waiting (claim_next_queued_run).   *)
THEOREM OrderHolds == Spec => []NoOvertaking
<1>1. Init => Aged /\ NoOvertaking
  BY DEF Init, Aged, NoOvertaking
<1> QED
  BY <1>1, AgedStep, OrderStep, TypeCorrect, CustodyHolds, PTL DEF Spec

-----------------------------------------------------------------------------
(* Freshness *)

(* Two rows have two start times, and a job that ever succeeded has a      *)
(* success that started last.                                              *)
HasLatest(j) ==
    Succeeded(j) # {} =>
        \E r \in Succeeded(j) : \A q \in Succeeded(j) : startedAt[q] <= startedAt[r]

Dated ==
    /\ \A r \in RunId : startedAt[r] <= inserts
    /\ \A q, r \in RunId :
           status[q] # "absent" /\ status[r] # "absent" /\ startedAt[q] = startedAt[r] => q = r
    /\ \A j \in Job : HasLatest(j)

(* A process about to record its time has been passed by every run that is *)
(* recorded with a later one.                                              *)
Stamped ==
    /\ \A r \in RunId : finishedAt[r] <= clock
    /\ \A p \in Process : stamp[p] <= clock
    /\ \A p \in Process, r \in RunId :
           stamp[p] # 0 /\ status[r] \in Closed /\ stamp[p] < finishedAt[r] => r \in passed[p]

LEMMA LatestIsLast ==
    ASSUME Dated, NEW j \in Job, Succeeded(j) # {}
    PROVE  /\ LatestSuccess(j) \in Succeeded(j)
           /\ \A q \in Succeeded(j) : startedAt[q] <= startedAt[LatestSuccess(j)]
  BY DEF Dated, HasLatest, LatestSuccess

LEMMA LatestIsLastNext ==
    ASSUME Dated', NEW j \in Job, Succeeded(j)' # {}
    PROVE  /\ LatestSuccess(j)' \in Succeeded(j)'
           /\ \A q \in Succeeded(j)' : startedAt'[q] <= startedAt'[LatestSuccess(j)']
  BY DEF Dated, HasLatest, LatestSuccess

(* What a step does to the rows: nothing that a success depends on, an     *)
(* insert, or the row of a process closed with the time it read.           *)
Closing(p) == CloseRun(p) /\ cur[p] \in RunId /\ status[cur[p]] = "running"

Inserting(x) ==
    x \in RunId /\ \E j \in Job, st \in {"queued", "running"} : Insert(x, j, st)

Keeping ==
    /\ \A r \in RunId : status'[r] = status[r] \/ (status[r] = "queued" /\ status'[r] = "running")
    /\ UNCHANGED <<job, startedAt, finishedAt, inserts>>

Changed ==
    \/ Keeping
    \/ \E x \in RunId : Inserting(x)
    \/ \E p \in Process : Closing(p)

LEMMA TimeStep ==
    ASSUME TypeOK, Custody, [Next]_vars
    PROVE  Changed
<1>1. UNCHANGED rows => Keeping
  BY DEF Keeping, rows
<1>2. ASSUME NEW j \in Job, TriggerIngest(j) PROVE \E x \in RunId : Inserting(x)
  BY <1>2 DEF TriggerIngest, Inserting
<1>3. ASSUME NEW p \in Process, OpenRun(p) PROVE \E x \in RunId : Inserting(x)
  <2>1. Head(todo[p]) \in Job
    BY <1>3, ConstantsAssumption DEF OpenRun, TypeOK
  <2> QED
    BY <1>3, <2>1 DEF OpenRun, Inserting
<1>4. ASSUME NEW p \in Process, CloseRun(p) PROVE Closing(p)
  <2>1. Held(p) /\ pc[p] # "claiming"
    BY <1>4 DEF CloseRun, Recorded, Held, Holding, Closed
  <2>2. cur[p] \in RunId /\ status[cur[p]] = "running"
    BY <2>1, HeldRow DEF Custody, RowMatches
  <2> QED
    BY <1>4, <2>2 DEF Closing
<1>5. ASSUME NEW p \in Process, CommitClaim(p) PROVE Keeping
  <2>1. Held(p) /\ pc[p] = "claiming"
    BY <1>5 DEF CommitClaim, Held, Holding
  <2>2. cur[p] \in RunId /\ status[cur[p]] = "queued"
    BY <2>1, HeldRow DEF Custody, RowMatches
  <2> QED
    BY <1>5, <2>2 DEF CommitClaim, Keeping, TypeOK
<1>6. ASSUME NEW p \in Process, Start(p) \/ Step(p) \/ Crash(p),
             ~OpenRun(p), ~CommitClaim(p), ~CloseRun(p)
      PROVE  Keeping
  <2>1. CASE ReadClock(p)
    BY <2>1 DEF ReadClock, Keeping
  <2>2. CASE ~ReadClock(p)
    BY <1>1, <1>6, <2>2 DEF Start, StartTick, StartDrain, StartRun, Launch, Step, ClaimNext,
         StopDraining, RejectUnregistered, AdoptRun, JobEnds, Exit, OpenRefused, Crash, Kill,
         ClaimRefused, CloseRefused
  <2> QED
    BY <2>1, <2>2
<1>7. CASE UNCHANGED vars
  BY <1>1, <1>7 DEF vars, Changed
<1> QED
  BY <1>2, <1>3, <1>4, <1>5, <1>6, <1>7 DEF Next, Changed

(* The successes of a job after a step: the same, or one more.             *)
LEMMA SuccessStep ==
    ASSUME TypeOK, Changed, NEW j \in Job
    PROVE  \/ /\ Succeeded(j)' = Succeeded(j)
              /\ \A r \in Succeeded(j) : startedAt'[r] = startedAt[r] /\ finishedAt'[r] = finishedAt[r]
           \/ \E p \in Process :
                 /\ Closing(p) /\ cur[p] \notin Succeeded(j) /\ pc[p] = "succeeded"
                 /\ Succeeded(j)' = Succeeded(j) \cup {cur[p]}
                 /\ \A r \in Succeeded(j) : startedAt'[r] = startedAt[r] /\ finishedAt'[r] = finishedAt[r]
<1>1. CASE Keeping
  BY <1>1 DEF Keeping, Succeeded
<1>2. CASE \E x \in RunId : Inserting(x)
  <2>1. PICK x \in RunId : \E i \in Job, st \in {"queued", "running"} : Insert(x, i, st)
    BY <1>2 DEF Inserting
  <2> QED
    BY <2>1 DEF Insert, Succeeded, TypeOK
<1>3. CASE \E p \in Process : Closing(p)
  <2>1. PICK p \in Process : Closing(p)
    BY <1>3
  <2>2. /\ cur[p] \in RunId /\ status[cur[p]] = "running"
        /\ status' = [status EXCEPT ![cur[p]] = pc[p]] /\ pc[p] \in Closed
        /\ finishedAt' = [finishedAt EXCEPT ![cur[p]] = stamp[p]]
        /\ UNCHANGED <<job, startedAt>>
    BY <2>1 DEF Closing, CloseRun, Recorded
  <2>3. cur[p] \notin Succeeded(j)
    BY <2>2 DEF Succeeded
  <2>4. \A r \in Succeeded(j) : startedAt'[r] = startedAt[r] /\ finishedAt'[r] = finishedAt[r]
    BY <2>2, <2>3 DEF Succeeded, TypeOK
  <2>5. \/ Succeeded(j)' = Succeeded(j)
        \/ Succeeded(j)' = Succeeded(j) \cup {cur[p]} /\ pc[p] = "succeeded"
    BY <2>2 DEF Succeeded, TypeOK, Closed
  <2> QED
    BY <2>1, <2>3, <2>4, <2>5
<1> QED
  BY <1>1, <1>2, <1>3 DEF Changed

LEMMA DatedStep == TypeOK /\ Custody /\ Dated /\ [Next]_vars => Dated'
<1> SUFFICES ASSUME TypeOK, Custody, Dated, [Next]_vars PROVE Dated'
  OBVIOUS
<1>1. Changed
  BY TimeStep
<1>2. ASSUME Keeping \/ \E p \in Process : Closing(p)
      PROVE  /\ UNCHANGED <<startedAt, inserts>>
             /\ \A r \in RunId : status'[r] # "absent" => status[r] # "absent"
  BY <1>2 DEF Keeping, Closing, CloseRun, Recorded, TypeOK
<1>3. CASE Keeping \/ \E p \in Process : Closing(p)
  <2>1. /\ \A r \in RunId : startedAt'[r] <= inserts'
        /\ \A q, r \in RunId :
              status'[q] # "absent" /\ status'[r] # "absent" /\ startedAt'[q] = startedAt'[r] => q = r
    BY <1>2, <1>3 DEF Dated
  <2>2. ASSUME NEW j \in Job PROVE HasLatest(j)'
    <3>1. CASE Succeeded(j)' = Succeeded(j)
      BY <1>2, <1>3, <3>1 DEF Dated, HasLatest
    <3>2. ASSUME NEW x \in RunId, Succeeded(j)' = Succeeded(j) \cup {x}
          PROVE  HasLatest(j)'
      <4>1. UNCHANGED startedAt /\ Succeeded(j) \subseteq RunId
        BY <1>2, <1>3 DEF Succeeded
      <4>2. \A r \in RunId : startedAt[r] \in Nat
        BY DEF TypeOK
      <4>3. CASE Succeeded(j) = {}
        BY <3>2, <4>1, <4>2, <4>3 DEF HasLatest
      <4>4. CASE Succeeded(j) # {}
        <5>1. PICK m \in Succeeded(j) : \A q \in Succeeded(j) : startedAt[q] <= startedAt[m]
          BY <4>4 DEF Dated, HasLatest
        <5>2. CASE startedAt[m] <= startedAt[x]
          <6>1. \A q \in Succeeded(j)' : startedAt[q] <= startedAt[x]
            BY <3>2, <4>1, <4>2, <5>1, <5>2
          <6> QED
            BY <3>2, <4>1, <6>1 DEF HasLatest
        <5>3. CASE startedAt[x] <= startedAt[m]
          <6>1. \A q \in Succeeded(j)' : startedAt[q] <= startedAt[m]
            BY <3>2, <5>1, <5>3
          <6> QED
            BY <3>2, <4>1, <5>1, <6>1 DEF HasLatest
        <5> QED
          BY <4>1, <4>2, <5>2, <5>3
      <4> QED
        BY <4>3, <4>4
    <3> QED
      BY <1>1, <3>1, <3>2, SuccessStep DEF Closing
  <2> QED
    BY <2>1, <2>2 DEF Dated
<1>4. CASE \E x \in RunId : Inserting(x)
  <2>1. PICK x \in RunId, i \in Job, st \in {"queued", "running"} : Insert(x, i, st)
    BY <1>4 DEF Inserting
  <2>2. \A r \in RunId : startedAt'[r] <= inserts'
    BY <2>1 DEF Insert, Dated, TypeOK
  <2>3. \A q, r \in RunId :
           status'[q] # "absent" /\ status'[r] # "absent" /\ startedAt'[q] = startedAt'[r] => q = r
    BY <2>1 DEF Insert, Dated, TypeOK
  <2>4. ASSUME NEW j \in Job PROVE HasLatest(j)'
    <3>1. /\ Succeeded(j)' = Succeeded(j)
          /\ \A r \in Succeeded(j) : startedAt'[r] = startedAt[r]
      BY <2>1 DEF Insert, Succeeded, TypeOK
    <3> QED
      BY <3>1 DEF Dated, HasLatest
  <2> QED
    BY <2>2, <2>3, <2>4 DEF Dated
<1> QED
  BY <1>1, <1>3, <1>4 DEF Changed

(* What a step does to the times read and not yet recorded.                *)
Forgetting ==
    /\ UNCHANGED <<finishedAt, clock>>
    /\ \A q \in Process :
          stamp'[q] = 0 \/ (stamp'[q] = stamp[q] /\ passed'[q] = passed[q])
    /\ \A r \in RunId : status'[r] \in Closed => status[r] \in Closed

LEMMA ClockStep ==
    ASSUME TypeOK, Custody, [Next]_vars
    PROVE  Forgetting \/ \E p \in Process : ReadClock(p) \/ Closing(p)
<1>1. ASSUME UNCHANGED <<rows, closing>> PROVE Forgetting
  BY <1>1 DEF Forgetting, rows, closing
<1>2. ASSUME NEW r \in RunId, NEW j, NEW st \in {"queued", "running"}, Insert(r, j, st),
             UNCHANGED closing
      PROVE  Forgetting
  BY <1>2 DEF Forgetting, Insert, closing, TypeOK, Closed
<1>3. ASSUME NEW p \in Process, Release(p, "off") \/ Release(p, AfterRun(p)),
             passed' = [passed EXCEPT ![p] = {}], UNCHANGED rows
      PROVE  Forgetting
  BY <1>3 DEF Forgetting, Release, rows, TypeOK
<1>4. ASSUME NEW j \in Job, TriggerIngest(j) PROVE Forgetting
  BY <1>2, <1>4 DEF TriggerIngest, procs
<1>5. ASSUME NEW p \in Process, Start(p) PROVE Forgetting
  BY <1>1, <1>5 DEF Start, StartTick, StartDrain, StartRun, Launch
<1>6. ASSUME NEW p \in Process, Crash(p) PROVE Forgetting
  BY <1>3, <1>6 DEF Crash, Kill, ClaimRefused, CloseRefused, Dies
<1>7. ASSUME NEW p \in Process, OpenRun(p) PROVE Forgetting
  BY <1>2, <1>7 DEF OpenRun
<1>8. ASSUME NEW p \in Process, CommitClaim(p) PROVE Forgetting
  BY <1>8 DEF CommitClaim, Forgetting, closing, TypeOK, Closed
<1>9. ASSUME NEW p \in Process, CloseRun(p) PROVE Closing(p)
  <2>1. Held(p) /\ pc[p] # "claiming"
    BY <1>9 DEF CloseRun, Recorded, Held, Holding, Closed
  <2>2. cur[p] \in RunId /\ status[cur[p]] = "running"
    BY <2>1, HeldRow DEF Custody, RowMatches
  <2> QED
    BY <1>9, <2>2 DEF Closing
<1>10. ASSUME NEW p \in Process, Step(p),
              ~OpenRun(p), ~CommitClaim(p), ~CloseRun(p), ~ReadClock(p)
       PROVE  UNCHANGED <<rows, closing>>
  BY <1>10 DEF Step, ClaimNext, StopDraining, RejectUnregistered, AdoptRun, JobEnds, Exit,
       OpenRefused
<1>11. CASE UNCHANGED vars
  BY <1>1, <1>11 DEF vars, procs
<1> QED
  BY <1>1, <1>4, <1>5, <1>6, <1>7, <1>8, <1>9, <1>10, <1>11 DEF Next

LEMMA StampedStep == TypeOK /\ Custody /\ Stamped /\ [Next]_vars => Stamped'
<1> SUFFICES ASSUME TypeOK, Custody, Stamped, [Next]_vars PROVE Stamped'
  OBVIOUS
<1>0. /\ clock \in Nat
      /\ \A r \in RunId : finishedAt[r] \in Nat
      /\ \A p \in Process : stamp[p] \in Nat
  BY DEF TypeOK
<1>1. CASE Forgetting
  BY <1>0, <1>1 DEF Forgetting, Stamped
<1>2. ASSUME NEW p \in Process, ReadClock(p) PROVE Stamped'
  <2>1. \A q \in Process : stamp'[q] = IF q = p THEN clock + 1 ELSE stamp[q]
    BY <1>2 DEF ReadClock, TypeOK
  <2>2. clock' = clock + 1 /\ UNCHANGED <<finishedAt, status, passed>>
    BY <1>2 DEF ReadClock
  <2> QED
    BY <1>0, <2>1, <2>2 DEF Stamped
<1>3. ASSUME NEW p \in Process, Closing(p) PROVE Stamped'
  <2>1. /\ cur[p] \in RunId
        /\ \A q \in Process : /\ stamp'[q] = IF q = p THEN 0 ELSE stamp[q]
                              /\ q # p /\ stamp[q] # 0 => passed'[q] = passed[q] \cup {cur[p]}
        /\ \A r \in RunId \ {cur[p]} : status'[r] = status[r] /\ finishedAt'[r] = finishedAt[r]
        /\ finishedAt'[cur[p]] = stamp[p]
        /\ UNCHANGED clock
    BY <1>3 DEF Closing, CloseRun, Recorded, Release, TypeOK
  <2> QED
    BY <1>0, <2>1 DEF Stamped
<1> QED
  BY <1>1, <1>2, <1>3, ClockStep

LEMMA FreshStep ==
    ASSUME TypeOK, TypeOK', Custody, Dated, Dated', Stamped, [Next]_vars, NEW j \in Job,
           ReportedFreshness(j)' < ReportedFreshness(j)
    PROVE  \E p \in Process : /\ pc[p] = "succeeded"
                              /\ LatestSuccess(j) \in passed[p]
                              /\ LatestSuccess(j)' = cur[p]
<1> DEFINE old == LatestSuccess(j)
           new == LatestSuccess(j)'
<1>1. \A r \in RunId : /\ startedAt[r] \in Nat /\ finishedAt[r] \in Nat
                       /\ startedAt'[r] \in Nat /\ finishedAt'[r] \in Nat
  BY DEF TypeOK
<1>2. Succeeded(j) \subseteq RunId /\ Succeeded(j)' \subseteq RunId
  BY DEF Succeeded
<1>3. ReportedFreshness(j)' \in Nat
  <2>1. CASE Succeeded(j)' = {}
    BY <2>1 DEF ReportedFreshness
  <2>2. CASE Succeeded(j)' # {}
    <3>1. new \in RunId
      BY <1>2, <2>2, LatestIsLastNext
    <3>2. ReportedFreshness(j)' = finishedAt'[new]
      BY <2>2 DEF ReportedFreshness
    <3> QED
      BY <1>1, <3>1, <3>2
  <2> QED
    BY <2>1, <2>2
<1>4. Succeeded(j) # {}
  <2> SUFFICES ASSUME Succeeded(j) = {} PROVE FALSE
    OBVIOUS
  <2>1. ReportedFreshness(j) = 0
    BY DEF ReportedFreshness
  <2> QED
    BY <1>3, <2>1
<1>5. /\ old \in Succeeded(j)
      /\ \A q \in Succeeded(j) : startedAt[q] <= startedAt[old]
      /\ ReportedFreshness(j) = finishedAt[old]
  BY <1>4, LatestIsLast DEF ReportedFreshness
<1>6. Changed
  BY TimeStep
<1>7. Succeeded(j)' # {}
  BY <1>4, <1>6, SuccessStep
<1>8. /\ new \in Succeeded(j)'
      /\ \A q \in Succeeded(j)' : startedAt'[q] <= startedAt'[new]
      /\ ReportedFreshness(j)' = finishedAt'[new]
  BY <1>7, LatestIsLastNext DEF ReportedFreshness
<1>9. ASSUME new \in Succeeded(j), Succeeded(j) \subseteq Succeeded(j)',
             \A r \in Succeeded(j) : startedAt'[r] = startedAt[r] /\ finishedAt'[r] = finishedAt[r]
      PROVE  FALSE
  <2> HIDE DEF old, new
  <2>1. startedAt[new] = startedAt[old]
    BY <1>1, <1>2, <1>5, <1>8, <1>9
  <2>2. status[new] # "absent" /\ status[old] # "absent"
    BY <1>5, <1>9 DEF Succeeded
  <2>3. new = old
    BY <1>2, <1>5, <1>9, <2>1, <2>2 DEF Dated
  <2>4. finishedAt'[new] = finishedAt[old] /\ finishedAt[old] \in Nat
    BY <1>1, <1>2, <1>5, <1>9, <2>3
  <2> QED
    BY <1>5, <1>8, <2>4
<1>10. PICK p \in Process :
          /\ Closing(p) /\ pc[p] = "succeeded"
          /\ Succeeded(j)' = Succeeded(j) \cup {cur[p]}
          /\ \A r \in Succeeded(j) : startedAt'[r] = startedAt[r] /\ finishedAt'[r] = finishedAt[r]
  BY <1>6, <1>8, <1>9, SuccessStep
<1>11. new = cur[p]
  BY <1>8, <1>9, <1>10
<1>12. /\ cur[p] \in RunId /\ stamp[p] # 0
       /\ finishedAt'[cur[p]] = stamp[p]
  BY <1>10 DEF Closing, CloseRun, Recorded, TypeOK
<1>13. status[old] \in Closed /\ old \in RunId
  BY <1>5 DEF Succeeded, Closed
<1>14. stamp[p] < finishedAt[old]
  <2> HIDE DEF old, new
  <2> QED
    BY <1>5, <1>8, <1>11, <1>12
<1>15. old \in passed[p]
  <2> HIDE DEF old, new
  <2> QED
    BY <1>12, <1>13, <1>14 DEF Stamped
<1> QED
  BY <1>10, <1>11, <1>15

(* The finish time the API reports of a job goes back only when a run that *)
(* was passed between its clock and its commit is recorded (adopt_run),    *)
(* though get_freshness chooses by one clock and reports the other.        *)
THEOREM FreshnessHolds == Spec => FreshnessFallsOnlyWhenPassed
<1>1. Init => Dated /\ Stamped
  BY DEF Init, Dated, HasLatest, Succeeded, Stamped, Closed
<1>2. TypeOK /\ TypeOK' /\ Custody /\ Dated /\ Dated' /\ Stamped /\ [Next]_vars =>
        [\A j \in Job :
            ReportedFreshness(j)' < ReportedFreshness(j) =>
               \E p \in Process :
                  /\ pc[p] = "succeeded"
                  /\ LatestSuccess(j) \in passed[p]
                  /\ LatestSuccess(j)' = cur[p]]_vars
  BY FreshStep
<1> QED
  BY <1>1, <1>2, DatedStep, StampedStep, TypeCorrect, CustodyHolds, PTL
     DEF Spec, FreshnessFallsOnlyWhenPassed

-----------------------------------------------------------------------------
(* Refinement *)

(* The queue with its processes, locks and faults implements RunLedger.    *)
THEOREM LedgerImplemented == Spec => ImplementsLedger
<1>1. Init => Ledger!LedgerInit
  BY DEF Init, Ledger!LedgerInit
<1>2. TypeOK /\ Custody /\ [Next]_vars => [Ledger!LedgerNext]_(Ledger!lvars)
  <2> SUFFICES ASSUME TypeOK, Custody, [Next]_vars
               PROVE  [Ledger!LedgerNext]_(Ledger!lvars)
    OBVIOUS
  <2>1. RowStep /\ TypeOK'
    BY NextIsRowStep, TypeStep
  <2>2. CASE UNCHANGED <<status, starts, job, finishedAt>>
    BY <2>2 DEF Ledger!lvars
  <2>3. ASSUME NEW r \in RunId, OnlyRow(r),
               RowInserted(r) \/ RowTaken(r) \/ RowStarted(r) \/ RowClosed(r)
        PROVE  Ledger!LedgerNext
    <3>1. /\ status' = [status EXCEPT ![r] = status'[r]]
          /\ starts' = [starts EXCEPT ![r] = starts'[r]]
      BY <2>1, <2>3 DEF OnlyRow, TypeOK
    <3>2. CASE RowInserted(r)
      <4>1. CASE status'[r] = "queued" /\ starts'[r] = 0
        <5>1. starts' = starts
          BY <3>1, <3>2, <4>1 DEF RowInserted, TypeOK
        <5>2. Ledger!Request(r)
          BY <3>1, <3>2, <4>1, <5>1 DEF RowInserted, Ledger!Request
        <5> QED
          BY <5>2 DEF Ledger!LedgerNext
      <4>2. CASE status'[r] = "running" /\ starts'[r] = 1
        <5>1. Ledger!Open(r)
          BY <3>1, <3>2, <4>2 DEF RowInserted, Ledger!Open
        <5> QED
          BY <5>1 DEF Ledger!LedgerNext
      <4> QED
        BY <3>2, <4>1, <4>2 DEF RowInserted
    <3>3. CASE RowTaken(r)
      <4>1. starts' = starts
        BY <3>1, <3>3 DEF RowTaken, TypeOK
      <4>2. Ledger!Take(r)
        BY <3>1, <3>3, <4>1 DEF RowTaken, Ledger!Take
      <4> QED
        BY <4>2 DEF Ledger!LedgerNext
    <3>4. CASE RowStarted(r)
      <4>1. status' = status
        <5>1. status'[r] = status[r]
          BY <3>4 DEF RowStarted
        <5>2. status' = [status EXCEPT ![r] = status[r]]
          BY <3>1, <5>1
        <5> QED
          BY <5>2 DEF TypeOK
      <4>2. Ledger!Start(r)
        BY <3>1, <3>4, <4>1 DEF RowStarted, Ledger!Start
      <4> QED
        BY <4>2 DEF Ledger!LedgerNext
    <3>5. CASE RowClosed(r)
      <4>1. starts' = starts
        BY <3>1, <3>5 DEF RowClosed, TypeOK
      <4>2. PICK outcome \in Closed : outcome = status'[r]
        BY <3>5 DEF RowClosed
      <4>3. Ledger!Close(r, outcome)
        BY <3>1, <3>5, <4>1, <4>2 DEF RowClosed, Ledger!Close
      <4>4. outcome \in Ledger!Closed
        BY DEF Closed, Ledger!Closed
      <4> QED
        BY <4>3, <4>4 DEF Ledger!LedgerNext
    <3> QED
      BY <2>3, <3>2, <3>3, <3>4, <3>5
  <2> QED
    BY <2>1, <2>2, <2>3 DEF RowStep
<1> QED
  BY <1>1, <1>2, TypeCorrect, CustodyHolds, PTL
     DEF Spec, ImplementsLedger, Ledger!LedgerSpec
=============================================================================

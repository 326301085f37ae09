------------------------------ MODULE RunQueue -------------------------------
(***************************************************************************)
(* The run ledger and the processes that work on it: the admin endpoint    *)
(* that queues a run (apps/api/app/routers/admin.py), the cron tick, the   *)
(* manual "drain" and "run" commands (pipeline/cli.py), the queue drainer  *)
(* (pipeline/queue.py), the context manager that opens and closes a run    *)
(* (pipeline/runs.py), and the freshness endpoint that reads the result    *)
(* (apps/api/app/routers/meta.py).                                         *)
(*                                                                         *)
(* A row of ingestion_run is a RunId with a status, a job and two times.   *)
(* What a job does is left open: it ends, with or without an exception.    *)
(* Each database transaction is one step, except the claim, whose row lock *)
(* is held over two: between them another process skips the locked row;    *)
(* and the clock is read in a step of its own, before the close commits.   *)
(*                                                                         *)
(* A definition named X_... just before a definition X is a slip the code  *)
(* could have made there; PROJECT.json pairs it with the property that     *)
(* notices it.  No specification uses it.                                  *)
(***************************************************************************)
EXTENDS Naturals, Sequences

CONSTANTS
    RunId,           \* identities of the rows of ingestion_run
    Job,             \* the names the admin endpoint accepts (JOB_NAMES)
    Registered,      \* the names the pipeline has a callable for (JOBS)
    TickSequence,    \* the scheduled jobs of one tick, in order
    MaxRunsPerTick,  \* how many queued runs one drain executes
    Ticks,           \* processes the cron schedule starts
    Operators,       \* processes somebody starts by hand
    MaxFaults        \* bound: kills and refused database calls in a behaviour

Process == Ticks \cup Operators

ASSUME ConstantsAssumption ==
    /\ Registered \subseteq Job
    /\ TickSequence \in Seq(Registered)
    /\ MaxRunsPerTick \in Nat
    /\ MaxFaults \in Nat
    /\ Ticks \cap Operators = {}
    /\ "none" \notin RunId \cup Job

VARIABLES
    status,      \* column status, "absent" before the row is inserted
    job,         \* column job
    startedAt,   \* column started_at, set by the database at the insert
    finishedAt,  \* column finished_at, 0 while it is null
    inserts,     \* the database's clock: it moves when a row is inserted
    clock,       \* the pipeline's clock: it moves when a process reads it
    requested,   \* the rows the admin endpoint inserted
    starts,      \* history: how often each row's job was called
    pc,          \* where each process is
    cur,         \* the row the process works on, while it holds one
    executed,    \* drain_queue's local counter
    todo,        \* the jobs the process still has to open runs for
    stamp,       \* the time adopt_run has read to close with, 0 before
    passed,      \* history: rows that others closed since it was read
    faults       \* kills and refused calls so far

rows == <<status, job, startedAt, finishedAt, inserts, clock,
          requested>>
closing == <<stamp, passed>>
procs == <<pc, cur, executed, todo, closing>>
vars == <<rows, starts, procs, faults>>

NoRun == "none"
NoJob == "none"
Status == {"absent", "queued", "running", "succeeded", "failed"}
Closed == {"succeeded", "failed"}

(* "off": no process.  "drain": at the loop condition of drain_queue.      *)
(* "claiming": the claim's UPDATE has run and is not committed.            *)
(* "claimed": the claim is committed.  "job": inside the job.              *)
(* "succeeded", "failed": the job is over and the row is not yet closed.   *)
(* "sequence": about to open the next run of its own, or to exit.          *)
Location == {"off", "drain", "claiming", "claimed", "job", "succeeded",
             "failed", "sequence"}

Holding == {"claiming", "claimed", "job", "succeeded", "failed"}

TypeOK ==
    /\ status \in [RunId -> Status]
    /\ job \in [RunId -> Job \cup {NoJob}]
    /\ startedAt \in [RunId -> Nat]
    /\ finishedAt \in [RunId -> Nat]
    /\ inserts \in Nat
    /\ clock \in Nat
    /\ requested \subseteq RunId
    /\ starts \in [RunId -> Nat]
    /\ pc \in [Process -> Location]
    /\ cur \in [Process -> RunId \cup {NoRun}]
    /\ executed \in [Process -> Nat]
    /\ todo \in [Process -> Seq(Registered)]
    /\ stamp \in [Process -> Nat]
    /\ passed \in [Process -> SUBSET (RunId \cup {NoRun})]
    /\ faults \in Nat

Init ==
    /\ status = [r \in RunId |-> "absent"]
    /\ job = [r \in RunId |-> NoJob]
    /\ startedAt = [r \in RunId |-> 0]
    /\ finishedAt = [r \in RunId |-> 0]
    /\ inserts = 0
    /\ clock = 0
    /\ requested = {}
    /\ starts = [r \in RunId |-> 0]
    /\ pc = [p \in Process |-> "off"]
    /\ cur = [p \in Process |-> NoRun]
    /\ executed = [p \in Process |-> 0]
    /\ todo = [p \in Process |-> <<>>]
    /\ stamp = [p \in Process |-> 0]
    /\ passed = [p \in Process |-> {}]
    /\ faults = 0
-----------------------------------------------------------------------------
(* Rows *)

Held(p) == pc[p] \in Holding

Locked(r) == \E p \in Process : pc[p] = "claiming" /\ cur[p] = r

Claimable_IgnoreLocks == {r \in RunId : status[r] = "queued"}

(* What FOR UPDATE SKIP LOCKED leaves of the queue.                        *)
Claimable == {r \in RunId : status[r] = "queued" /\ ~Locked(r)}

Insert(r, j, st) ==
    /\ status[r] = "absent"
    /\ status' = [status EXCEPT ![r] = st]
    /\ job' = [job EXCEPT ![r] = j]
    /\ inserts' = inserts + 1
    /\ startedAt' = [startedAt EXCEPT ![r] = inserts']
    /\ UNCHANGED <<finishedAt, clock>>

Goto(p, loc) == pc' = [pc EXCEPT ![p] = loc]

Fault == faults < MaxFaults /\ faults' = faults + 1

(* Where the process goes once the row it holds is closed: back to the     *)
(* loop of drain_queue for a requested run, else on with its own sequence. *)
AfterRun(p) == IF cur[p] \in requested THEN "drain" ELSE "sequence"

Release(p, loc) ==
    /\ Goto(p, loc)
    /\ cur' = [cur EXCEPT ![p] = NoRun]
    /\ stamp' = [stamp EXCEPT ![p] = 0]

-----------------------------------------------------------------------------
(* The admin endpoint *)

TriggerIngest(j) ==
    \E r \in RunId :
        /\ Insert(r, j, "queued")
        /\ requested' = requested \cup {r}
        /\ UNCHANGED <<starts, procs, faults>>

Succeeded_AnyStatus(j) == {r \in RunId : job[r] = j}

(* What /v1/meta/freshness reports of a job: the finish time of the        *)
(* succeeded run that started last.                                        *)
Succeeded(j) == {r \in RunId : status[r] = "succeeded" /\ job[r] = j}

LatestSuccess(j) ==
    CHOOSE r \in Succeeded(j) :
        \A q \in Succeeded(j) : startedAt[q] <= startedAt[r]

ReportedFreshness(j) ==
    IF Succeeded(j) = {} THEN 0 ELSE finishedAt[LatestSuccess(j)]

-----------------------------------------------------------------------------
(* Starting a process *)

Launch(p, loc, jobs) ==
    /\ pc[p] = "off"
    /\ Goto(p, loc)
    /\ todo' = [todo EXCEPT ![p] = jobs]
    /\ UNCHANGED <<rows, starts, cur, executed, closing, faults>>

StartTick(p) == p \in Ticks /\ Launch(p, "drain", TickSequence)

StartDrain(p) == p \in Operators /\ Launch(p, "drain", <<>>)

StartRun(p, j) == p \in Operators /\ Launch(p, "sequence", <<j>>)

-----------------------------------------------------------------------------
(* Draining the queue *)

ClaimNext_AnyOrder(p) ==
    /\ pc[p] = "drain"
    /\ executed[p] < MaxRunsPerTick
    /\ \E r \in Claimable : cur' = [cur EXCEPT ![p] = r]
    /\ Goto(p, "claiming")
    /\ UNCHANGED <<rows, starts, executed, todo, closing, faults>>

ClaimNext_SkipUnregistered(p) ==
    /\ pc[p] = "drain"
    /\ executed[p] < MaxRunsPerTick
    /\ \E r \in Claimable :
          /\ job[r] \in Registered
          /\ cur' = [cur EXCEPT ![p] = r]
    /\ Goto(p, "claiming")
    /\ UNCHANGED <<rows, starts, executed, todo, closing, faults>>

ClaimNext(p) ==
    /\ pc[p] = "drain"
    /\ executed[p] < MaxRunsPerTick
    /\ \E r \in Claimable :
          /\ \A q \in Claimable : startedAt[r] <= startedAt[q]
          /\ cur' = [cur EXCEPT ![p] = r]
    /\ Goto(p, "claiming")
    /\ UNCHANGED <<rows, starts, executed, todo, closing, faults>>

CommitClaim(p) ==
    /\ pc[p] = "claiming"
    /\ status' = [status EXCEPT ![cur[p]] = "running"]
    /\ executed' = [executed EXCEPT ![p] = @ + 1]
    /\ Goto(p, "claimed")
    /\ UNCHANGED <<job, startedAt, finishedAt, inserts, clock, requested,
                   starts, cur, todo, closing, faults>>

StopDraining(p) ==
    /\ pc[p] = "drain"
    /\ executed[p] >= MaxRunsPerTick \/ Claimable = {}
    /\ Goto(p, "sequence")
    /\ executed' = [executed EXCEPT ![p] = 0]
    /\ UNCHANGED <<rows, starts, cur, todo, closing, faults>>

RejectUnregistered_Succeeds(p) ==
    /\ pc[p] = "claimed"
    /\ job[cur[p]] \notin Registered
    /\ Goto(p, "succeeded")
    /\ UNCHANGED <<rows, starts, cur, executed, todo, closing, faults>>

RejectUnregistered_LeavesOpen(p) ==
    /\ pc[p] = "claimed"
    /\ job[cur[p]] \notin Registered
    /\ Release(p, "drain")
    /\ UNCHANGED <<rows, starts, executed, todo, passed, faults>>

RejectUnregistered(p) ==
    /\ pc[p] = "claimed"
    /\ job[cur[p]] \notin Registered
    /\ Goto(p, "failed")
    /\ UNCHANGED <<rows, starts, cur, executed, todo, closing, faults>>

AdoptRun(p) ==
    /\ pc[p] = "claimed"
    /\ job[cur[p]] \in Registered
    /\ starts' = [starts EXCEPT ![cur[p]] = @ + 1]
    /\ Goto(p, "job")
    /\ UNCHANGED <<rows, cur, executed, todo, closing, faults>>

-----------------------------------------------------------------------------
(* Running a job *)

OpenRun(p) ==
    /\ pc[p] = "sequence"
    /\ todo[p] # <<>>
    /\ \E r \in RunId :
          /\ Insert(r, Head(todo[p]), "running")
          /\ starts' = [starts EXCEPT ![r] = @ + 1]
          /\ cur' = [cur EXCEPT ![p] = r]
    /\ todo' = [todo EXCEPT ![p] = Tail(@)]
    /\ Goto(p, "job")
    /\ UNCHANGED <<requested, executed, closing, faults>>

JobEnds(p, outcome) ==
    /\ pc[p] = "job"
    /\ Goto(p, outcome)
    /\ UNCHANGED <<rows, starts, cur, executed, todo, closing, faults>>

(* finished_at is read from the clock when the job is over; between that  *)
(* and the commit lies the UPDATE, and other processes may close theirs.   *)
ReadClock(p) ==
    /\ pc[p] \in Closed
    /\ stamp[p] = 0
    /\ clock' = clock + 1
    /\ stamp' = [stamp EXCEPT ![p] = clock']
    /\ UNCHANGED <<status, job, startedAt, finishedAt, inserts, requested,
                   starts, pc, cur, executed, todo, passed, faults>>

Recorded(p) ==
    /\ pc[p] \in Closed
    /\ stamp[p] # 0
    /\ finishedAt' = [finishedAt EXCEPT ![cur[p]] = stamp[p]]
    /\ passed' = [q \in Process |->
          IF q = p \/ stamp[q] = 0 THEN {} ELSE passed[q] \cup {cur[p]}]
    /\ Release(p, AfterRun(p))
    /\ UNCHANGED <<job, startedAt, inserts, clock, requested, starts,
                   executed, todo, faults>>

CloseRun_MisspeltStatus(p) ==
    /\ Recorded(p)
    /\ status' = [status EXCEPT ![cur[p]] = "success"]

CloseRun_RequeueFailed(p) ==
    /\ Recorded(p)
    /\ status' = [status EXCEPT ![cur[p]] =
                     IF pc[p] = "failed" THEN "queued" ELSE "succeeded"]

CloseRun(p) ==
    /\ Recorded(p)
    /\ status' = [status EXCEPT ![cur[p]] = pc[p]]

Exit(p) ==
    /\ pc[p] = "sequence"
    /\ todo[p] = <<>>
    /\ Goto(p, "off")
    /\ UNCHANGED <<rows, starts, cur, executed, todo, closing, faults>>

-----------------------------------------------------------------------------
(* Faults *)

(* The process is gone, its local variables with it.  A claim that is not  *)
(* committed is rolled back.                                               *)
Dies(p) ==
    /\ Release(p, "off")
    /\ passed' = [passed EXCEPT ![p] = {}]
    /\ executed' = [executed EXCEPT ![p] = 0]
    /\ todo' = [todo EXCEPT ![p] = <<>>]

Kill(p) ==
    /\ Fault
    /\ pc[p] # "off"
    /\ Dies(p)
    /\ UNCHANGED <<rows, starts>>

(* The claim's transaction fails: the exception leaves drain_queue, and    *)
(* tick calls drain_queue outside its try.                                 *)
ClaimRefused(p) ==
    /\ Fault
    /\ pc[p] \in {"drain", "claiming"}
    /\ Dies(p)
    /\ UNCHANGED <<rows, starts>>

(* The insert of run_context fails.  tick goes on with the next job; "run" *)
(* had only this one.  Once every RunId is used no insert succeeds.        *)
OpenRefused(p) ==
    /\ pc[p] = "sequence"
    /\ todo[p] # <<>>
    /\ \/ Fault
       \/ (\A r \in RunId : status[r] # "absent") /\ UNCHANGED faults
    /\ todo' = [todo EXCEPT ![p] = Tail(@)]
    /\ UNCHANGED <<rows, starts, pc, cur, executed, closing>>

(* The transaction that closes the row fails, before the clock is read or  *)
(* after it.  The row stays "running" and the process goes on, except with *)
(* an unregistered job, where the drain expects a LookupError only.        *)
CloseRefused(p) ==
    /\ Fault
    /\ pc[p] \in Closed
    /\ IF job[cur[p]] \in Registered
       THEN /\ Release(p, AfterRun(p))
            /\ passed' = [passed EXCEPT ![p] = {}]
            /\ UNCHANGED <<executed, todo>>
       ELSE Dies(p)
    /\ UNCHANGED <<rows, starts>>

-----------------------------------------------------------------------------
Step(p) ==
    \/ ClaimNext(p)
    \/ CommitClaim(p)
    \/ StopDraining(p)
    \/ RejectUnregistered(p)
    \/ AdoptRun(p)
    \/ OpenRun(p)
    \/ \E outcome \in Closed : JobEnds(p, outcome)
    \/ ReadClock(p)
    \/ CloseRun(p)
    \/ Exit(p)
    \/ OpenRefused(p)

Start(p) ==
    \/ StartTick(p)
    \/ StartDrain(p)
    \/ \E j \in Registered : StartRun(p, j)

Crash(p) == Kill(p) \/ ClaimRefused(p) \/ CloseRefused(p)

Next ==
    \/ \E j \in Job : TriggerIngest(j)
    \/ \E p \in Process : Start(p) \/ Step(p) \/ Crash(p)

Spec == Init /\ [][Next]_vars

(* A process that runs goes on, every job ends, and the cron schedule keeps *)
(* starting ticks.  Nothing makes anybody press the admin button or start   *)
(* a command by hand, and no fault has to happen.                           *)
FairSpec ==
    /\ Spec
    /\ \A p \in Process : WF_vars(Step(p))
    /\ \A p \in Ticks : WF_vars(StartTick(p))
-----------------------------------------------------------------------------
(* Safety *)

(* Custody: what the location of a process says about the row it holds.    *)
(* Two processes never hold the same row; an uncommitted claim still reads *)
(* "queued" to everybody else and a held row "running"; and its job has    *)
(* been started exactly when the process is past adopt_run.                *)
HoldsARow == \A p \in Process : Held(p) <=> cur[p] # NoRun

OneHolder ==
    \A p, q \in Process : Held(p) /\ Held(q) /\ cur[p] = cur[q] => p = q

RowMatches(p) ==
    /\ pc[p] = "claiming" => status[cur[p]] = "queued"
    /\ Held(p) /\ pc[p] # "claiming" => status[cur[p]] = "running"
    /\ pc[p] = "claimed" => starts[cur[p]] = 0
    /\ pc[p] \in {"job", "succeeded"} => starts[cur[p]] = 1
    /\ pc[p] = "failed" =>
          \/ starts[cur[p]] = 1
          \/ starts[cur[p]] = 0 /\ job[cur[p]] \notin Registered

UnstartedIsUntaken ==
    \A r \in RunId : status[r] \in {"absent", "queued"} => starts[r] = 0

Custody ==
    /\ HoldsARow
    /\ OneHolder
    /\ \A p \in Process : RowMatches(p)
    /\ UnstartedIsUntaken

(* The job of one row is started at most once, however ticks, drains and   *)
(* manual runs overlap and whoever is killed between the claim and the     *)
(* close: what claim_next_queued_run says a non-atomic claim would break.  *)
AtMostOnce == \A r \in RunId : starts[r] <= 1

(* The ledger does not lie about what happened: a succeeded run's job was  *)
(* really started, and a run that failed without being started had no      *)
(* callable (the LookupError branch of drain_queue).                       *)
OutcomeIsTrue ==
    \A r \in RunId :
        /\ status[r] = "succeeded" => starts[r] = 1
        /\ status[r] = "failed" /\ starts[r] = 0 => job[r] \notin Registered

(* Oldest first, with several drainers: while nothing has failed, no       *)
(* request has been taken ahead of an older one that is still waiting.     *)
NoOvertaking ==
    faults = 0 =>
        \A q, r \in requested :
            q \in Claimable /\ startedAt[q] < startedAt[r] => r \in Claimable

(* A closed run is never touched again and a taken one never goes back to  *)
(* the queue, whatever is killed or refused.                               *)
HistoryIsFinal ==
    [][\A r \in RunId :
          /\ status[r] \in Closed =>
                /\ status'[r] = status[r]
                /\ job'[r] = job[r]
                /\ finishedAt'[r] = finishedAt[r]
          /\ status[r] = "running" => status'[r] \in {"running"} \cup Closed
      ]_vars

(* The time freshness reports for a job goes back only when a run is        *)
(* recorded that was passed on its way: it started after the run reported  *)
(* so far, read the clock before that one did, and committed after it.     *)
(* Nothing else takes a success back: no request, claim, failure or kill,  *)
(* and no queued run that keeps the started_at of its request.             *)
FreshnessFallsOnlyWhenPassed ==
    [][\A j \in Job :
          ReportedFreshness(j)' < ReportedFreshness(j) =>
             \E p \in Process :
                /\ pc[p] = "succeeded"
                /\ LatestSuccess(j) \in passed[p]
                /\ LatestSuccess(j)' = cur[p]
      ]_vars

(* The detailed ledger implements the abstract one.                        *)
Ledger == INSTANCE RunLedger WITH ledger <- status, starts <- starts

ImplementsLedger == Ledger!LedgerSpec

-----------------------------------------------------------------------------
(* Liveness *)

(* What the endpoint accepted is taken up by some tick, even if finitely   *)
(* many processes are killed or refused by the database.                   *)
EveryRequestTaken ==
    \A r \in RunId : status[r] = "queued" ~> status[r] # "queued"

(* Every run that is running gets closed, unless a fault comes in between. *)
EveryRunCloses ==
    \A r \in RunId :
        status[r] = "running" ~> status[r] \in Closed \/ faults > 0

=============================================================================

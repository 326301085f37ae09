------------------------------ MODULE RunLedger ------------------------------
(***************************************************************************)
(* What the run ledger (the table ingestion_run) promises to whoever reads *)
(* it, with no processes, locks or transactions in it.  A run is requested *)
(* by an administrator or opened by the pipeline itself; its job is        *)
(* started at most once; it is closed at most once, as succeeded only when *)
(* the job was really started; and a closed run never changes again.  A    *)
(* run may stay "running" for ever, because the process that took it can   *)
(* be killed.  RunQueue is the detailed specification that implements it.  *)
(***************************************************************************)
EXTENDS Naturals

CONSTANT RunId      \* identities of the rows of ingestion_run

VARIABLES ledger,   \* the status of each row
          starts    \* how often the job of each row was started

lvars == <<ledger, starts>>

Status == {"absent", "queued", "running", "succeeded", "failed"}

Closed == {"succeeded", "failed"}

LedgerInit ==
    /\ ledger = [r \in RunId |-> "absent"]
    /\ starts = [r \in RunId |-> 0]

Request(r) ==
    /\ ledger[r] = "absent"
    /\ ledger' = [ledger EXCEPT ![r] = "queued"]
    /\ UNCHANGED starts

Take(r) ==
    /\ ledger[r] = "queued"
    /\ ledger' = [ledger EXCEPT ![r] = "running"]
    /\ UNCHANGED starts

Start(r) ==
    /\ ledger[r] = "running"
    /\ starts[r] = 0
    /\ starts' = [starts EXCEPT ![r] = 1]
    /\ UNCHANGED ledger

Open(r) ==
    /\ ledger[r] = "absent"
    /\ starts[r] = 0
    /\ ledger' = [ledger EXCEPT ![r] = "running"]
    /\ starts' = [starts EXCEPT ![r] = 1]

Close(r, outcome) ==
    /\ ledger[r] = "running"
    /\ outcome = "succeeded" => starts[r] = 1
    /\ ledger' = [ledger EXCEPT ![r] = outcome]
    /\ UNCHANGED starts

LedgerNext ==
    \E r \in RunId :
        \/ Request(r)
        \/ Take(r)
        \/ Start(r)
        \/ Open(r)
        \/ \E outcome \in Closed : Close(r, outcome)

LedgerSpec == LedgerInit /\ [][LedgerNext]_lvars
=============================================================================

----------------------------- MODULE MCRunQueue ------------------------------
(* Small instances of RunQueue.  "fetch" stands for a scheduled job that can *)
(* also be requested, "renamed" for a name a queued row may still carry      *)
(* although the pipeline has no callable for it any more.                    *)
EXTENDS RunQueue

FetchAndRenamed == {"fetch", "renamed"}
OnlyFetch == {"fetch"}
FetchOnce == <<"fetch">>
=============================================================================

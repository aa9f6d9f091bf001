---------------------------- MODULE JobLifecycle ----------------------------
(***************************************************************************)
(* What an ingest job promises its owner, whatever runs it: it is accepted *)
(* PENDING, attempted by one party at a time, and each attempt completes   *)
(* it for good or costs it one retry, the last of which fails it for good. *)
(* An attempt may also be abandoned, which leaves the job PROCESSING.      *)
(***************************************************************************)
EXTENDS Naturals

CONSTANTS JobIds, MaxRetries, Contents, NoContent, NoRow

VARIABLE jobs

Init == jobs = [j \in JobIds |-> NoRow]

Accept(j) ==
    /\ jobs[j] = NoRow
    /\ jobs' = [jobs EXCEPT ![j] = [status |-> "PENDING", retryCount |-> 0,
                                    contentId |-> NoContent]]

Attempt(j) ==
    /\ jobs[j] # NoRow
    /\ jobs[j].status = "PENDING"
    /\ jobs' = [jobs EXCEPT ![j].status = "PROCESSING"]

Complete(j) ==
    /\ jobs[j] # NoRow
    /\ jobs[j].status = "PROCESSING"
    /\ \E c \in Contents :
          jobs' = [jobs EXCEPT ![j].status = "COMPLETED", ![j].contentId = c]

Fail(j) ==
    /\ jobs[j] # NoRow
    /\ jobs[j].status = "PROCESSING"
    /\ jobs' = [jobs EXCEPT
          ![j].retryCount = @ + 1,
          ![j].status = IF jobs[j].retryCount + 1 < MaxRetries
                        THEN "PENDING" ELSE "FAILED"]

Withdraw(j) ==
    /\ jobs[j] # NoRow
    /\ jobs' = [jobs EXCEPT ![j] = NoRow]

Next ==
    \E j \in JobIds :
        Accept(j) \/ Attempt(j) \/ Complete(j) \/ Fail(j) \/ Withdraw(j)

Spec == Init /\ [][Next]_jobs
=============================================================================

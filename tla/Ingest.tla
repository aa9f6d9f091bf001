------------------------------- MODULE Ingest -------------------------------
(***************************************************************************)
(* Ingest service: the life of an IngestJob row.                           *)
(*                                                                         *)
(* A job is created by POST /ingest/jobs, picked up by the cron tick of    *)
(* IngestProcessor together with the oldest other PENDING jobs, and run by *)
(* an asynchronous invocation of IngestService.processJob whose steps are  *)
(* separated by awaits.  Ticks do not wait for the batch of an earlier     *)
(* tick, so several invocations may be under way, for one job too.         *)
(*                                                                         *)
(* call[j][s] is the s-th invocation of processJob (or retryJob) that may  *)
(* be under way for job j.  ingest.completed and ingest.failed are keyed   *)
(* by the job's id, so each topic is a sequence per job.                   *)
(***************************************************************************)
EXTENDS Naturals, Sequences, FiniteSets

CONSTANTS
    JobIds,      \* ids the database may hand out
    YouTubeJobs, \* those whose sourceType is YOUTUBE
    RSSJobs,     \* those whose sourceType is RSS; the others are API jobs
    Slots,       \* bound: invocations under way at once for one job
    BatchSize,   \* INGEST_CONFIG.BATCH_SIZE
    Limits,      \* values of INGEST_CONFIG.MAX_RETRIES the deployments use
    MaxNow,      \* bound: instants of Date.now() told apart
    Stalls,      \* may a tick fire while an earlier one has read its batch
                 \* and not yet marked it PROCESSING (a minute's delay)?
    Faults,      \* subset of {"restart", "db"}
    MaxFaults,   \* bound: faults in one behaviour
    NoRow        \* the row of a job that is not (or no longer) stored

ASSUME IngestAssumption ==
    /\ YouTubeJobs \subseteq JobIds /\ RSSJobs \subseteq JobIds
    /\ YouTubeJobs \cap RSSJobs = {}
    /\ BatchSize \in Nat \ {0}
    /\ Limits # {} /\ Limits \subseteq Nat
    /\ MaxNow \in Nat
    /\ Stalls \in BOOLEAN
    /\ Faults \subseteq {"restart", "db"}
    /\ MaxFaults \in Nat

VARIABLES
    jobs,        \* ingest_jobs: JobIds -> row or NoRow
    created,     \* ids in the order of createdAt
    call,        \* invocations of processJob and retryJob
    maxRetries,  \* MAX_RETRIES of the running process
    now,         \* Date.now()
    completed,   \* topic ingest.completed, by key: the contentIds
    failed,      \* topic ingest.failed, by key: the retryCounts
    faults       \* faults left to happen

vars == <<jobs, created, call, maxRetries, now, completed, failed, faults>>
topics == <<completed, failed>>

-----------------------------------------------------------------------------
IngestStatus == {"PENDING", "PROCESSING", "COMPLETED", "FAILED"}

Times == 0..MaxNow
NoContent == MaxNow + 1

IngestJob == [status : IngestStatus,
              retryCount : Nat,
              contentId : Times \cup {NoContent}]

Pcs == {"idle", "reset", "find", "mark", "fetch", "complete", "announce",
        "fail", "report"}

\* seen is the retryCount of the row that findById returned, content the
\* contentId made of Date.now(): the locals that survive an await.
Call == [pc : Pcs, seen : Nat, content : Times \cup {NoContent}]

Idle == [pc |-> "idle", seen |-> 0, content |-> NoContent]

Init ==
    /\ jobs = [j \in JobIds |-> NoRow]
    /\ created = <<>>
    /\ call = [j \in JobIds |-> [s \in Slots |-> Idle]]
    /\ maxRetries \in Limits
    /\ now = 0
    /\ completed = [j \in JobIds |-> <<>>]
    /\ failed = [j \in JobIds |-> <<>>]
    /\ faults = MaxFaults

Stored(j) == jobs[j] # NoRow

\* IngestRepository.update: throws when the row is gone.
Update(j, row) == Stored(j) /\ jobs' = [jobs EXCEPT ![j] = row]

Move(j, s, c) == call' = [call EXCEPT ![j][s] = c]
Goto(j, s, pc) == Move(j, s, [call[j][s] EXCEPT !.pc = pc])
End(j, s) == Move(j, s, Idle)

\* One use of a fault of kind k.
Fault(k) == k \in Faults /\ faults > 0 /\ faults' = faults - 1

-----------------------------------------------------------------------------
(* Requests of the ingest controller.                                      *)

CreateJob(j) ==
    /\ j \notin {created[i] : i \in DOMAIN created}
    /\ jobs' = [jobs EXCEPT ![j] = [status |-> "PENDING", retryCount |-> 0,
                                    contentId |-> NoContent]]
    /\ created' = Append(created, j)
    /\ UNCHANGED <<call, maxRetries, now, topics, faults>>

DeleteJob(j) ==
    /\ Stored(j)
    /\ jobs' = [jobs EXCEPT ![j] = NoRow]
    /\ UNCHANGED <<created, call, maxRetries, now, topics, faults>>

\* Mutant of Retryable: a check of retryJob is dropped.
RetryableAnyStatus(j) == jobs[j].retryCount < maxRetries

Retryable(j) ==
    jobs[j].status = "FAILED" /\ jobs[j].retryCount < maxRetries

\* retryJob up to its first write: findOne and the two checks.  A request
\* that fails a check is answered 400 and changes nothing.
RetryJob(j, s) ==
    /\ call[j][s].pc = "idle"
    /\ Stored(j)
    /\ Retryable(j)
    /\ Goto(j, s, "reset")
    /\ UNCHANGED <<jobs, created, maxRetries, now, topics, faults>>

\* retryJob makes the job PENDING and calls processJob itself.
\* errorMessage: undefined is not written, so the old message stays.
ResetToPending(j, s) ==
    /\ call[j][s].pc = "reset"
    /\ \/ /\ Update(j, [jobs[j] EXCEPT !.status = "PENDING"])
          /\ Goto(j, s, "find")
          /\ UNCHANGED faults
       \/ /\ ~Stored(j)
          /\ End(j, s)
          /\ UNCHANGED <<jobs, faults>>
       \/ /\ Fault("db")
          /\ End(j, s)
          /\ UNCHANGED jobs
    /\ UNCHANGED <<created, maxRetries, now, topics>>

-----------------------------------------------------------------------------
(* The cron tick.                                                          *)

\* Mutant of Pending: a tick also takes the jobs left PROCESSING.
PendingOrProcessing(j) ==
    Stored(j) /\ jobs[j].status \in {"PENDING", "PROCESSING"}

Pending(j) == Stored(j) /\ jobs[j].status = "PENDING"

\* findPendingJobs: the BatchSize oldest PENDING rows.
PendingBatch ==
    LET pending == {i \in DOMAIN created : Pending(created[i])}
    IN {created[i] : i \in
          {p \in pending : Cardinality({q \in pending : q < p}) < BatchSize}}

\* Has every invocation a tick started marked its job PROCESSING by the time
\* the next tick fires?
Timely ==
    \A j \in JobIds, s \in Slots : call[j][s].pc \notin {"find", "mark"}

\* processPendingJobs: every job of the batch gets an invocation of
\* processJob; none waits for another, nor for those of earlier ticks.
Tick ==
    /\ Stalls \/ Timely
    /\ PendingBatch # {}
    /\ \E slot \in [PendingBatch -> Slots] :
          /\ \A j \in PendingBatch : call[j][slot[j]].pc = "idle"
          /\ call' = [j \in JobIds |->
                        IF j \in PendingBatch
                        THEN [call[j] EXCEPT ![slot[j]].pc = "find"]
                        ELSE call[j]]
    /\ UNCHANGED <<jobs, created, maxRetries, now, topics, faults>>

-----------------------------------------------------------------------------
(* processJob, one action per await.                                       *)

\* The status of the row that is read is not looked at.
FindById(j, s) ==
    /\ call[j][s].pc = "find"
    /\ \/ /\ Stored(j)
          /\ Move(j, s, [call[j][s] EXCEPT !.pc = "mark",
                                           !.seen = jobs[j].retryCount])
          /\ UNCHANGED faults
       \/ ~Stored(j) /\ End(j, s) /\ UNCHANGED faults
       \/ Fault("db") /\ End(j, s)
    /\ UNCHANGED <<jobs, created, maxRetries, now, topics>>

\* Outside the try block: a failure here ends the invocation.
MarkProcessing(j, s) ==
    /\ call[j][s].pc = "mark"
    /\ \/ /\ Update(j, [jobs[j] EXCEPT !.status = "PROCESSING"])
          /\ Goto(j, s, "fetch")
          /\ UNCHANGED faults
       \/ /\ ~Stored(j)
          /\ End(j, s)
          /\ UNCHANGED <<jobs, faults>>
       \/ /\ Fault("db")
          /\ End(j, s)
          /\ UNCHANGED jobs
    /\ UNCHANGED <<created, maxRetries, now, topics>>

\* The source is read and normalised, or any step of that throws.  A content
\* id is `content-${Date.now()}`.
FetchFrom(j, s) ==
    /\ call[j][s].pc = "fetch"
    /\ \/ \E t \in now..MaxNow :
             /\ now' = t
             /\ Move(j, s, [call[j][s] EXCEPT !.pc = "complete",
                                              !.content = t])
       \/ Goto(j, s, "fail") /\ UNCHANGED now
    /\ UNCHANGED <<jobs, created, maxRetries, topics, faults>>

ProcessYouTube(j, s) == j \in YouTubeJobs /\ FetchFrom(j, s)
ProcessRSS(j, s) == j \in RSSJobs /\ FetchFrom(j, s)
ProcessAPI(j, s) == j \in JobIds \ (YouTubeJobs \cup RSSJobs) /\ FetchFrom(j, s)

\* Inside the try block: a failed write is a failed attempt.
CompleteJob(j, s) ==
    /\ call[j][s].pc = "complete"
    /\ \/ /\ Update(j, [jobs[j] EXCEPT !.status = "COMPLETED",
                                       !.contentId = call[j][s].content])
          /\ Goto(j, s, "announce")
          /\ UNCHANGED faults
       \/ /\ ~Stored(j)
          /\ Goto(j, s, "fail")
          /\ UNCHANGED <<jobs, faults>>
       \/ /\ Fault("db")
          /\ Goto(j, s, "fail")
          /\ UNCHANGED jobs
    /\ UNCHANGED <<created, maxRetries, now, topics>>

\* emitIngestCompleted swallows the producer's errors: the event may be lost.
EmitIngestCompleted(j, s) ==
    /\ call[j][s].pc = "announce"
    /\ \/ completed' = [completed EXCEPT ![j] = Append(@, call[j][s].content)]
       \/ UNCHANGED completed
    /\ End(j, s)
    /\ UNCHANGED <<jobs, created, maxRetries, now, failed, faults>>

\* Mutants of RetryCount: it counts down; it forgets what was read.
RetryCountDown(c) == c.seen - 1
RetryCountForgotten(c) == 1

\* The new retryCount is the one FindById read, plus one.
RetryCount(c) == c.seen + 1

\* Mutants of StatusAfterFailure: one retry too many; one too few; the job is
\* not handed back.
StatusOneMore(retryCount) ==
    IF retryCount <= maxRetries THEN "PENDING" ELSE "FAILED"
StatusOneLess(retryCount) ==
    IF retryCount + 1 < maxRetries THEN "PENDING" ELSE "FAILED"
StatusKeptProcessing(retryCount) ==
    IF retryCount < maxRetries THEN "PROCESSING" ELSE "FAILED"

StatusAfterFailure(retryCount) ==
    IF retryCount < maxRetries THEN "PENDING" ELSE "FAILED"

\* The catch block.  A write that fails here ends the invocation.
FailAttempt(j, s) ==
    /\ call[j][s].pc = "fail"
    /\ LET retryCount == RetryCount(call[j][s])
       IN \/ /\ Update(j, [jobs[j] EXCEPT
                      !.status = StatusAfterFailure(retryCount),
                      !.retryCount = retryCount])
             /\ Goto(j, s, "report")
             /\ UNCHANGED faults
          \/ /\ ~Stored(j)
             /\ End(j, s)
             /\ UNCHANGED <<jobs, faults>>
          \/ /\ Fault("db")
             /\ End(j, s)
             /\ UNCHANGED jobs
    /\ UNCHANGED <<created, maxRetries, now, topics>>

EmitIngestFailed(j, s) ==
    /\ call[j][s].pc = "report"
    /\ \/ failed' = [failed EXCEPT ![j] = Append(@, RetryCount(call[j][s]))]
       \/ UNCHANGED failed
    /\ End(j, s)
    /\ UNCHANGED <<jobs, created, maxRetries, now, completed, faults>>

\* The process stops and starts again: what was under way is gone, and the
\* environment may hold another MAX_RETRIES.
Restart ==
    /\ Fault("restart")
    /\ call' = [j \in JobIds |-> [s \in Slots |-> Idle]]
    /\ maxRetries' \in Limits
    /\ UNCHANGED <<jobs, created, now, topics>>

-----------------------------------------------------------------------------
ProcessJob(j, s) ==
    \/ FindById(j, s)
    \/ MarkProcessing(j, s)
    \/ ProcessRSS(j, s)
    \/ ProcessAPI(j, s)
    \/ CompleteJob(j, s)
    \/ EmitIngestCompleted(j, s)
    \/ FailAttempt(j, s)
    \/ EmitIngestFailed(j, s)

Request ==
    \E j \in JobIds :
        \/ CreateJob(j)
        \/ DeleteJob(j)
        \/ \E s \in Slots : RetryJob(j, s) \/ ResetToPending(j, s)

Next ==
    \/ Request
    \/ Tick
    \/ \E j \in JobIds, s \in Slots : ProcessJob(j, s) \/ ProcessYouTube(j, s)
    \/ Restart

Spec == Init /\ [][Next]_vars

\* The cron keeps firing, and every await returns but one: the RSS and API
\* parsers, Prisma and the Kafka producer have a timeout, the YouTube parser's
\* axios.get has none.
Fairness ==
    /\ WF_vars(Tick)
    /\ \A j \in JobIds, s \in Slots :
          WF_vars(ProcessJob(j, s) \/ ResetToPending(j, s))

FairSpec == Spec /\ Fairness
-----------------------------------------------------------------------------
(* Properties.                                                             *)

\* Every variable holds what the schema and the code's types allow.
TypeOK ==
    /\ jobs \in [JobIds -> IngestJob \cup {NoRow}]
    /\ created \in Seq(JobIds)
    /\ call \in [JobIds -> [Slots -> Call]]
    /\ maxRetries \in Limits
    /\ now \in Times
    /\ completed \in [JobIds -> Seq(Times \cup {NoContent})]
    /\ failed \in [JobIds -> Seq(Nat)]
    /\ faults \in Nat

\* A FAILED job has used up the retries of a MAX_RETRIES it ran under, and,
\* where that limit never changes, a PENDING one has not: the catch block of
\* processJob writes status and retryCount together, from a count that was
\* read before the fetch, and no other write separates them again.
OneLimit == \A m, n \in Limits : m = n
StatusMatchesRetries ==
    \A j \in JobIds : Stored(j) =>
        /\ jobs[j].status = "FAILED" =>
              \E m \in Limits : jobs[j].retryCount >= m
        /\ jobs[j].status = "PENDING" /\ OneLimit =>
              \/ jobs[j].retryCount = 0
              \/ \E m \in Limits : jobs[j].retryCount < m

\* The cause of what FailedIsRetryable is found violated by, and a part of the
\* proofs' invariant: POST /ingest/jobs/:id/retry gets past its two checks only
\* when the job failed under one MAX_RETRIES and the process now runs under
\* another.
RetryNeedsRaisedLimit ==
    \A j \in JobIds, s \in Slots : call[j][s].pc = "reset" => ~OneLimit

\* An invocation whose next write to the row decides the job's fate.
Attempting(j, s) ==
    call[j][s].pc \in {"find", "mark", "fetch", "complete", "fail"}

\* No job is worked on by two invocations, although findPendingJobs takes no
\* lock and processJob never looks at the status it read: the PROCESSING mark
\* keeps later ticks away.
OneAttemptAtATime ==
    \A j \in JobIds : \A s, t \in Slots :
        Attempting(j, s) /\ Attempting(j, t) => s = t

\* A job is announced on ingest.completed at most once, and the row of an
\* announced job stays COMPLETED with the announced content.
AnnouncedMatchesRow ==
    \A j \in JobIds : completed[j] # <<>> =>
        /\ Len(completed[j]) = 1
        /\ Stored(j) => /\ jobs[j].status = "COMPLETED"
                        /\ jobs[j].contentId = completed[j][1]

\* The service implements the life cycle a job promises (JobLifecycle), as
\* long as no invocation stalls and MAX_RETRIES stays the same: no transition
\* is lost, repeated or undone, and every failed attempt costs one retry.
Lifecycle == INSTANCE JobLifecycle WITH
    MaxRetries <- CHOOSE m \in Limits : TRUE,
    Contents <- Times,
    NoContent <- NoContent
ImplementsLifecycle == Lifecycle!Spec

\* Every accepted job comes to an end: it completes, fails for good or is
\* deleted.
Settled(j) == Stored(j) => jobs[j].status \in {"COMPLETED", "FAILED"}
JobsSettle == \A j \in JobIds : Stored(j) ~> Settled(j)

\* A PENDING job settles unless a restart or a failed write comes first: also
\* after such a fault, under a limit it changed, while ticks overtake each other
\* and retries race them.
PendingSettles ==
    \A j \in JobIds, f \in 0..MaxFaults :
        Stored(j) /\ jobs[j].status = "PENDING" /\ faults = f
            ~> Settled(j) \/ faults < f

\* "POST /ingest/jobs/:id/retry - Retry failed job": a job that FAILED gets past
\* the two checks of retryJob.  It never does under one MAX_RETRIES: the count
\* that makes a job FAILED is the count that makes retryJob refuse it.
FailedIsRetryable ==
    \A j \in JobIds : Stored(j) /\ jobs[j].status = "FAILED" => Retryable(j)

\* "Process jobs in parallel (with concurrency limit)": no more jobs are
\* worked on at once than one batch holds.
WithinConcurrencyLimit ==
    Cardinality({c \in JobIds \X Slots : Attempting(c[1], c[2])}) <= BatchSize
=============================================================================

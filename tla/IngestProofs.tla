---------------------------- MODULE IngestProofs ----------------------------
(***************************************************************************)
(* Theorems about Ingest for every set of jobs, number of overlapping      *)
(* invocations, batch size, set of retry limits and fault budget.          *)
(***************************************************************************)
EXTENDS Ingest, TLAPS

\* The inductive invariant.  The two safety properties need each other: a
\* retry is admitted on the strength of a row's status and count, and the
\* reset that follows would break the row's bound under a single limit.
IInv == TypeOK /\ StatusMatchesRetries /\ RetryNeedsRaisedLimit

\* No job is stored at first.
LEMMA InitIInv == Init => IInv
<1> SUFFICES ASSUME Init PROVE IInv
  OBVIOUS
<1> USE IngestAssumption DEF Init
<1>1. TypeOK
  BY DEF TypeOK, Call, Pcs, Idle, Times, NoContent
<1>2. StatusMatchesRetries
  BY DEF StatusMatchesRetries, Stored
<1>3. RetryNeedsRaisedLimit
  BY DEF RetryNeedsRaisedLimit, Idle
<1> QED BY <1>1, <1>2, <1>3 DEF IInv

-----------------------------------------------------------------------------
(* Type correctness, one lemma per group of actions.                       *)

\* Writing a row back leaves a table of rows.
LEMMA UpdateTypes ==
    ASSUME TypeOK, NEW j \in JobIds, NEW row \in IngestJob, Update(j, row)
    PROVE  jobs' \in [JobIds -> IngestJob \cup {NoRow}]
BY DEF TypeOK, Update

\* Moving an invocation leaves a table of invocations.
LEMMA MoveTypes ==
    ASSUME TypeOK, NEW j \in JobIds, NEW s \in Slots, NEW c \in Call, Move(j, s, c)
    PROVE  call' \in [JobIds -> [Slots -> Call]]
BY DEF TypeOK, Move

LEMMA GotoTypes ==
    ASSUME TypeOK, NEW j \in JobIds, NEW s \in Slots, NEW pc \in Pcs, Goto(j, s, pc)
    PROVE  call' \in [JobIds -> [Slots -> Call]]
<1>1. call[j][s] \in Call
  BY DEF TypeOK
<1>2. [call[j][s] EXCEPT !.pc = pc] \in Call
  BY <1>1 DEF Call
<1> QED BY <1>2, MoveTypes DEF Goto

LEMMA EndTypes ==
    ASSUME TypeOK, NEW j \in JobIds, NEW s \in Slots, End(j, s)
    PROVE  call' \in [JobIds -> [Slots -> Call]]
<1>1. Idle \in Call
  BY DEF Idle, Call, Pcs
<1> QED BY <1>1, MoveTypes DEF End

\* A stored row is a row.
LEMMA StoredType ==
    ASSUME TypeOK, NEW j \in JobIds, Stored(j)
    PROVE  jobs[j] \in IngestJob
BY DEF TypeOK, Stored

LEMMA RequestTypes ==
    ASSUME TypeOK, Request PROVE TypeOK'
<1>1. PICK j \in JobIds : \/ CreateJob(j) \/ DeleteJob(j)
                          \/ \E s \in Slots : RetryJob(j, s) \/ ResetToPending(j, s)
  BY DEF Request
<1>2. CASE CreateJob(j)
  BY <1>2 DEF CreateJob, IngestJob, IngestStatus, TypeOK, topics
<1>3. CASE DeleteJob(j)
  BY <1>3 DEF DeleteJob, TypeOK, topics
<1>4. ASSUME NEW s \in Slots, RetryJob(j, s) PROVE TypeOK'
  <2>1. call' \in [JobIds -> [Slots -> Call]]
    BY <1>4, GotoTypes DEF RetryJob, Pcs
  <2> QED BY <1>4, <2>1 DEF RetryJob, TypeOK, topics
<1>5. ASSUME NEW s \in Slots, ResetToPending(j, s) PROVE TypeOK'
  <2>1. Stored(j) => [jobs[j] EXCEPT !.status = "PENDING"] \in IngestJob
    BY StoredType DEF IngestJob, IngestStatus
  <2>2. jobs' \in [JobIds -> IngestJob \cup {NoRow}]
    <3>1. CASE Update(j, [jobs[j] EXCEPT !.status = "PENDING"])
      BY <2>1, <3>1, UpdateTypes DEF Update
    <3>2. CASE UNCHANGED jobs
      BY <3>2 DEF TypeOK
    <3> QED BY <1>5, <3>1, <3>2 DEF ResetToPending
  <2>3. call' \in [JobIds -> [Slots -> Call]]
    BY <1>5, GotoTypes, EndTypes DEF ResetToPending, Pcs
  <2>4. faults' \in Nat
    BY <1>5 DEF ResetToPending, Fault, TypeOK
  <2> QED BY <1>5, <2>2, <2>3, <2>4 DEF ResetToPending, TypeOK, topics
<1> QED BY <1>1, <1>2, <1>3, <1>4, <1>5

LEMMA ProcessTypes ==
    ASSUME TypeOK, NEW j \in JobIds, NEW s \in Slots,
           ProcessJob(j, s) \/ ProcessYouTube(j, s)
    PROVE  TypeOK'
<1>1. call[j][s] \in Call
  BY DEF TypeOK
<1>2. CASE FindById(j, s)
  <2>1. Stored(j) => [call[j][s] EXCEPT !.pc = "mark", !.seen = jobs[j].retryCount] \in Call
    BY <1>1, StoredType DEF IngestJob, Call, Pcs
  <2>2. call' \in [JobIds -> [Slots -> Call]]
    BY <1>2, <2>1, MoveTypes, EndTypes DEF FindById
  <2> QED BY <1>2, <2>2 DEF FindById, Fault, TypeOK, topics
<1>3. CASE MarkProcessing(j, s)
  <2>1. Stored(j) => [jobs[j] EXCEPT !.status = "PROCESSING"] \in IngestJob
    BY StoredType DEF IngestJob, IngestStatus
  <2>2. jobs' \in [JobIds -> IngestJob \cup {NoRow}]
    <3>1. CASE Update(j, [jobs[j] EXCEPT !.status = "PROCESSING"])
      BY <2>1, <3>1, UpdateTypes DEF Update
    <3>2. CASE UNCHANGED jobs
      BY <3>2 DEF TypeOK
    <3> QED BY <1>3, <3>1, <3>2 DEF MarkProcessing
  <2>3. call' \in [JobIds -> [Slots -> Call]]
    BY <1>3, GotoTypes, EndTypes DEF MarkProcessing, Pcs
  <2> QED BY <1>3, <2>2, <2>3 DEF MarkProcessing, Fault, TypeOK, topics
<1>4. CASE FetchFrom(j, s)
  <2>1. now' \in Times /\ call' \in [JobIds -> [Slots -> Call]]
    <3>1. ASSUME NEW t \in now..MaxNow, now' = t,
                 Move(j, s, [call[j][s] EXCEPT !.pc = "complete", !.content = t])
          PROVE  now' \in Times /\ call' \in [JobIds -> [Slots -> Call]]
      <4>1. t \in Times
        BY IngestAssumption DEF TypeOK, Times
      <4>2. [call[j][s] EXCEPT !.pc = "complete", !.content = t] \in Call
        BY <1>1, <4>1 DEF Call, Pcs
      <4> QED BY <3>1, <4>1, <4>2, MoveTypes
    <3>2. CASE Goto(j, s, "fail") /\ UNCHANGED now
      BY <3>2, GotoTypes DEF Pcs, TypeOK
    <3> QED BY <1>4, <3>1, <3>2 DEF FetchFrom
  <2> QED BY <1>4, <2>1 DEF FetchFrom, TypeOK, topics
<1>5. CASE CompleteJob(j, s)
  <2> DEFINE row == [jobs[j] EXCEPT !.status = "COMPLETED", !.contentId = call[j][s].content]
  <2>1. Stored(j) => row \in IngestJob
    BY <1>1, StoredType DEF IngestJob, IngestStatus, Call
  <2>2. jobs' \in [JobIds -> IngestJob \cup {NoRow}]
    <3>1. CASE Update(j, row)
      BY <2>1, <3>1, UpdateTypes DEF Update
    <3>2. CASE UNCHANGED jobs
      BY <3>2 DEF TypeOK
    <3> QED BY <1>5, <3>1, <3>2 DEF CompleteJob
  <2>3. call' \in [JobIds -> [Slots -> Call]]
    BY <1>5, GotoTypes DEF CompleteJob, Pcs
  <2> QED BY <1>5, <2>2, <2>3 DEF CompleteJob, Fault, TypeOK, topics
<1>6. CASE EmitIngestCompleted(j, s)
  <2>1. call' \in [JobIds -> [Slots -> Call]]
    BY <1>6, EndTypes DEF EmitIngestCompleted
  <2>2. call[j][s].content \in Times \cup {NoContent}
    BY <1>1 DEF Call
  <2>3. completed' \in [JobIds -> Seq(Times \cup {NoContent})]
    <3>1. completed[j] \in Seq(Times \cup {NoContent})
      BY DEF TypeOK
    <3>2. Append(completed[j], call[j][s].content) \in Seq(Times \cup {NoContent})
      BY <2>2, <3>1
    <3> QED BY <1>6, <3>2 DEF EmitIngestCompleted, TypeOK
  <2> QED BY <1>6, <2>1, <2>3 DEF EmitIngestCompleted, TypeOK
<1>7. CASE FailAttempt(j, s)
  <2> DEFINE retryCount == RetryCount(call[j][s])
             row == [jobs[j] EXCEPT !.status = StatusAfterFailure(retryCount),
                                    !.retryCount = retryCount]
  <2>1. retryCount \in Nat
    BY <1>1 DEF Call, RetryCount
  <2>2. Stored(j) => row \in IngestJob
    BY <2>1, StoredType DEF IngestJob, IngestStatus, StatusAfterFailure
  <2>3. jobs' \in [JobIds -> IngestJob \cup {NoRow}]
    <3>1. CASE Update(j, row)
      BY <2>2, <3>1, UpdateTypes DEF Update
    <3>2. CASE UNCHANGED jobs
      BY <3>2 DEF TypeOK
    <3>3. Update(j, row) \/ UNCHANGED jobs
      BY <1>7 DEF FailAttempt
    <3> QED BY <3>1, <3>2, <3>3
  <2>4. call' \in [JobIds -> [Slots -> Call]]
    BY <1>7, GotoTypes, EndTypes DEF FailAttempt, Pcs
  <2> QED BY <1>7, <2>3, <2>4 DEF FailAttempt, Fault, TypeOK, topics
<1>8. CASE EmitIngestFailed(j, s)
  <2>1. call' \in [JobIds -> [Slots -> Call]]
    BY <1>8, EndTypes DEF EmitIngestFailed
  <2>2. RetryCount(call[j][s]) \in Nat
    BY <1>1 DEF Call, RetryCount
  <2>3. failed' \in [JobIds -> Seq(Nat)]
    <3>1. failed[j] \in Seq(Nat)
      BY DEF TypeOK
    <3>2. Append(failed[j], RetryCount(call[j][s])) \in Seq(Nat)
      BY <2>2, <3>1
    <3> QED BY <1>8, <3>2 DEF EmitIngestFailed, TypeOK
  <2> QED BY <1>8, <2>1, <2>3 DEF EmitIngestFailed, TypeOK
<1> QED BY <1>2, <1>3, <1>4, <1>5, <1>6, <1>7, <1>8
        DEF ProcessJob, ProcessYouTube, ProcessRSS, ProcessAPI

LEMMA NextTypes == TypeOK /\ [Next]_vars => TypeOK'
<1> SUFFICES ASSUME TypeOK, [Next]_vars PROVE TypeOK'
  OBVIOUS
<1>1. CASE Request
  BY <1>1, RequestTypes
<1>2. CASE Tick
  <2>1. PICK slot \in [PendingBatch -> Slots] :
           call' = [j \in JobIds |->
                      IF j \in PendingBatch
                      THEN [call[j] EXCEPT ![slot[j]].pc = "find"]
                      ELSE call[j]]
    BY <1>2 DEF Tick
  <2>2. ASSUME NEW j \in JobIds PROVE call'[j] \in [Slots -> Call]
    <3>1. call[j] \in [Slots -> Call]
      BY DEF TypeOK
    <3>2. CASE j \in PendingBatch
      <4>1. slot[j] \in Slots
        BY <3>2
      <4>2. [call[j][slot[j]] EXCEPT !.pc = "find"] \in Call
        BY <3>1, <4>1 DEF Call, Pcs
      <4> QED BY <2>1, <3>1, <3>2, <4>1, <4>2
    <3>3. CASE j \notin PendingBatch
      BY <2>1, <3>1, <3>3
    <3> QED BY <3>2, <3>3
  <2>3. call' \in [JobIds -> [Slots -> Call]]
    BY <2>1, <2>2
  <2> QED BY <1>2, <2>3 DEF TypeOK, Tick, topics
<1>3. CASE \E j \in JobIds, s \in Slots : ProcessJob(j, s) \/ ProcessYouTube(j, s)
  BY <1>3, ProcessTypes
<1>4. CASE Restart
  BY <1>4 DEF TypeOK, Restart, Fault, topics, Call, Idle, Pcs
<1>5. CASE UNCHANGED vars
  BY <1>5 DEF TypeOK, vars
<1> QED BY <1>1, <1>2, <1>3, <1>4, <1>5 DEF Next

\* Every variable keeps its type in every behaviour of the ingest service.
THEOREM TypeCorrect == Spec => []TypeOK
<1>1. Init => TypeOK
  BY InitIInv DEF IInv
<1> QED BY <1>1, NextTypes, PTL DEF Spec

-----------------------------------------------------------------------------
(* The safety properties.                                                  *)

\* A write that keeps a row's status and count, or whose status is neither
\* FAILED nor PENDING, keeps the bound of every row.
LEMMA StatusKept ==
    ASSUME StatusMatchesRetries,
           NEW j \in JobIds, NEW row, Update(j, row), TypeOK,
           \/ row.status \in {"PROCESSING", "COMPLETED"}
           \/ row.status = "PENDING" /\ ~OneLimit
           \/ row.status = "PENDING" /\ \E m \in Limits : row.retryCount < m
           \/ row.status = "FAILED" /\ \E m \in Limits : row.retryCount >= m
    PROVE  StatusMatchesRetries'
<1> SUFFICES ASSUME NEW i \in JobIds, jobs'[i] # NoRow
             PROVE  /\ jobs'[i].status = "FAILED" =>
                          \E m \in Limits : jobs'[i].retryCount >= m
                    /\ jobs'[i].status = "PENDING" /\ OneLimit =>
                          \/ jobs'[i].retryCount = 0
                          \/ \E m \in Limits : jobs'[i].retryCount < m
  BY DEF StatusMatchesRetries, Stored, OneLimit
<1>1. CASE i = j
  <2>1. jobs'[i] = row
    BY <1>1 DEF Update, TypeOK
  <2> QED BY <2>1
<1>2. CASE i # j
  <2>1. jobs'[i] = jobs[i]
    BY <1>2 DEF Update, TypeOK
  <2> QED BY <2>1 DEF StatusMatchesRetries, Stored
<1> QED BY <1>1, <1>2

\* Only retryJob puts an invocation at "reset".
LEMMA ResetKept ==
    ASSUME TypeOK, RetryNeedsRaisedLimit, NEW j \in JobIds, NEW s \in Slots,
           NEW c, Move(j, s, c), c.pc = "reset" => ~OneLimit
    PROVE  RetryNeedsRaisedLimit'
<1> SUFFICES ASSUME NEW i \in JobIds, NEW t \in Slots, call'[i][t].pc = "reset"
             PROVE  ~OneLimit
  BY DEF RetryNeedsRaisedLimit, OneLimit
<1>1. CASE i = j /\ t = s
  BY <1>1 DEF Move, TypeOK
<1>2. CASE ~(i = j /\ t = s)
  <2>1. call'[i][t] = call[i][t]
    BY <1>2 DEF Move, TypeOK
  <2> QED BY <2>1 DEF RetryNeedsRaisedLimit
<1> QED BY <1>1, <1>2

LEMMA GotoResetKept ==
    ASSUME TypeOK, RetryNeedsRaisedLimit, NEW j \in JobIds, NEW s \in Slots,
           NEW pc, Goto(j, s, pc), pc = "reset" => ~OneLimit
    PROVE  RetryNeedsRaisedLimit'
<1>1. [call[j][s] EXCEPT !.pc = pc].pc = pc
  BY DEF TypeOK, Call
<1> QED BY <1>1, ResetKept DEF Goto

LEMMA EndResetKept ==
    ASSUME TypeOK, RetryNeedsRaisedLimit, NEW j \in JobIds, NEW s \in Slots,
           End(j, s)
    PROVE  RetryNeedsRaisedLimit'
BY ResetKept DEF End, Idle

LEMMA RequestSafe ==
    ASSUME IInv, Request
    PROVE  StatusMatchesRetries' /\ RetryNeedsRaisedLimit'
<1> USE DEF IInv
<1>1. PICK j \in JobIds : \/ CreateJob(j) \/ DeleteJob(j)
                          \/ \E s \in Slots : RetryJob(j, s) \/ ResetToPending(j, s)
  BY DEF Request
<1>2. CASE CreateJob(j)
  BY <1>2 DEF CreateJob, StatusMatchesRetries, RetryNeedsRaisedLimit, Stored,
              OneLimit, TypeOK
<1>3. CASE DeleteJob(j)
  BY <1>3 DEF DeleteJob, StatusMatchesRetries, RetryNeedsRaisedLimit, Stored,
              OneLimit, TypeOK
<1>4. ASSUME NEW s \in Slots, RetryJob(j, s)
      PROVE  StatusMatchesRetries' /\ RetryNeedsRaisedLimit'
  <2>1. ~OneLimit
    <3>1. PICK m \in Limits : jobs[j].retryCount >= m
      BY <1>4 DEF RetryJob, Retryable, StatusMatchesRetries
    <3>2. jobs[j].retryCount \in Nat /\ m \in Nat /\ maxRetries \in Nat
      BY <1>4, StoredType, IngestAssumption DEF RetryJob, IngestJob, TypeOK
    <3>3. m # maxRetries
      BY <1>4, <3>1, <3>2 DEF RetryJob, Retryable
    <3> QED BY <3>3 DEF OneLimit, TypeOK
  <2>2. RetryNeedsRaisedLimit'
    BY <1>4, <2>1, GotoResetKept DEF RetryJob
  <2>3. StatusMatchesRetries'
    BY <1>4 DEF RetryJob, StatusMatchesRetries, Stored, OneLimit
  <2> QED BY <2>2, <2>3
<1>5. ASSUME NEW s \in Slots, ResetToPending(j, s)
      PROVE  StatusMatchesRetries' /\ RetryNeedsRaisedLimit'
  <2>1. ~OneLimit
    BY <1>5 DEF ResetToPending, RetryNeedsRaisedLimit
  <2>2. RetryNeedsRaisedLimit'
    BY <1>5, GotoResetKept, EndResetKept DEF ResetToPending
  <2>3. CASE Update(j, [jobs[j] EXCEPT !.status = "PENDING"])
    <3>1. [jobs[j] EXCEPT !.status = "PENDING"].status = "PENDING"
      BY <2>3, StoredType DEF Update, IngestJob
    <3>2. StatusMatchesRetries'
      BY <2>1, <2>3, <3>1, StatusKept
    <3> QED BY <2>2, <3>2
  <2>4. CASE UNCHANGED jobs
    BY <2>2, <2>4 DEF StatusMatchesRetries, Stored, OneLimit
  <2> QED BY <1>5, <2>3, <2>4 DEF ResetToPending
<1> QED BY <1>1, <1>2, <1>3, <1>4, <1>5

LEMMA ProcessSafe ==
    ASSUME IInv, NEW j \in JobIds, NEW s \in Slots,
           ProcessJob(j, s) \/ ProcessYouTube(j, s)
    PROVE  StatusMatchesRetries' /\ RetryNeedsRaisedLimit'
<1> USE DEF IInv
<1>1. CASE FindById(j, s)
  <2>1. [call[j][s] EXCEPT !.pc = "mark", !.seen = jobs[j].retryCount].pc # "reset"
    BY DEF TypeOK, Call
  <2>2. RetryNeedsRaisedLimit'
    BY <1>1, <2>1, ResetKept, EndResetKept DEF FindById
  <2> QED BY <1>1, <2>2 DEF FindById, StatusMatchesRetries, Stored, OneLimit
<1>2. CASE MarkProcessing(j, s)
  <2> DEFINE row == [jobs[j] EXCEPT !.status = "PROCESSING"]
  <2>1. RetryNeedsRaisedLimit'
    BY <1>2, GotoResetKept, EndResetKept DEF MarkProcessing
  <2>2. CASE Update(j, row)
    <3>1. row.status = "PROCESSING"
      BY <2>2, StoredType DEF Update, IngestJob
    <3> QED BY <2>1, <2>2, <3>1, StatusKept
  <2>3. CASE UNCHANGED jobs
    BY <2>1, <2>3 DEF StatusMatchesRetries, Stored, OneLimit
  <2> QED BY <1>2, <2>2, <2>3 DEF MarkProcessing
<1>3. CASE FetchFrom(j, s)
  <2>1. \A t : [call[j][s] EXCEPT !.pc = "complete", !.content = t].pc # "reset"
    BY DEF TypeOK, Call
  <2>2. RetryNeedsRaisedLimit'
    BY <1>3, <2>1, ResetKept, GotoResetKept DEF FetchFrom
  <2> QED BY <1>3, <2>2 DEF FetchFrom, StatusMatchesRetries, Stored, OneLimit
<1>4. CASE CompleteJob(j, s)
  <2> DEFINE row == [jobs[j] EXCEPT !.status = "COMPLETED", !.contentId = call[j][s].content]
  <2>1. RetryNeedsRaisedLimit'
    BY <1>4, GotoResetKept DEF CompleteJob
  <2>2. CASE Update(j, row)
    <3>1. row.status = "COMPLETED"
      BY <2>2, StoredType DEF Update, IngestJob
    <3> QED BY <2>1, <2>2, <3>1, StatusKept
  <2>3. CASE UNCHANGED jobs
    BY <2>1, <2>3 DEF StatusMatchesRetries, Stored, OneLimit
  <2> QED BY <1>4, <2>2, <2>3 DEF CompleteJob
<1>5. CASE EmitIngestCompleted(j, s)
  BY <1>5, EndResetKept DEF EmitIngestCompleted, StatusMatchesRetries, Stored, OneLimit
<1>6. CASE FailAttempt(j, s)
  <2> DEFINE retryCount == RetryCount(call[j][s])
             row == [jobs[j] EXCEPT !.status = StatusAfterFailure(retryCount),
                                    !.retryCount = retryCount]
  <2>1. RetryNeedsRaisedLimit'
    BY <1>6, GotoResetKept, EndResetKept DEF FailAttempt
  <2>2. CASE Update(j, row)
    <3>1. /\ row.status = IF retryCount < maxRetries THEN "PENDING" ELSE "FAILED"
          /\ row.retryCount = retryCount
      BY <2>2, StoredType DEF Update, IngestJob, StatusAfterFailure
    <3>2. retryCount \in Nat /\ maxRetries \in Limits /\ maxRetries \in Nat
      BY IngestAssumption DEF TypeOK, Call, RetryCount
    <3>3. \/ row.status = "PENDING" /\ \E m \in Limits : row.retryCount < m
          \/ row.status = "FAILED" /\ \E m \in Limits : row.retryCount >= m
      BY <3>1, <3>2
    <3> HIDE DEF row, retryCount
    <3> QED BY <2>1, <2>2, <3>3, StatusKept
  <2>3. CASE UNCHANGED jobs
    BY <2>1, <2>3 DEF StatusMatchesRetries, Stored, OneLimit
  <2>4. Update(j, row) \/ UNCHANGED jobs
    BY <1>6 DEF FailAttempt
  <2> QED BY <2>2, <2>3, <2>4
<1>7. CASE EmitIngestFailed(j, s)
  BY <1>7, EndResetKept DEF EmitIngestFailed, StatusMatchesRetries, Stored, OneLimit
<1> QED BY <1>1, <1>2, <1>3, <1>4, <1>5, <1>6, <1>7
        DEF ProcessJob, ProcessYouTube, ProcessRSS, ProcessAPI

\* A tick starts invocations and writes no row; a restart ends them all.
LEMMA TickSafe ==
    ASSUME IInv, Tick \/ Restart
    PROVE  StatusMatchesRetries' /\ RetryNeedsRaisedLimit'
<1>1. StatusMatchesRetries'
  BY DEF IInv, StatusMatchesRetries, Tick, Restart, Stored, OneLimit
<1>2. RetryNeedsRaisedLimit'
  <2> SUFFICES ASSUME NEW i \in JobIds, NEW t \in Slots, call'[i][t].pc = "reset"
               PROVE  ~OneLimit
    BY DEF RetryNeedsRaisedLimit, OneLimit
  <2>1. CASE Restart
    BY <2>1 DEF Restart, Idle
  <2>2. CASE Tick
    <3>1. PICK slot \in [PendingBatch -> Slots] :
             call' = [j \in JobIds |->
                        IF j \in PendingBatch
                        THEN [call[j] EXCEPT ![slot[j]].pc = "find"]
                        ELSE call[j]]
      BY <2>2 DEF Tick
    <3>2. call'[i][t].pc = "find" \/ call'[i][t].pc = call[i][t].pc
      BY <3>1 DEF IInv, TypeOK, Call
    <3> QED BY <3>2 DEF IInv, RetryNeedsRaisedLimit
  <2> QED BY <2>1, <2>2
<1> QED BY <1>1, <1>2

LEMMA NextIInv == IInv /\ [Next]_vars => IInv'
<1> SUFFICES ASSUME IInv, [Next]_vars PROVE IInv'
  OBVIOUS
<1>1. TypeOK'
  BY NextTypes DEF IInv
<1>2. CASE UNCHANGED vars
  BY <1>1, <1>2 DEF IInv, vars, StatusMatchesRetries, RetryNeedsRaisedLimit,
                    Stored, OneLimit
<1>3. CASE Next
  BY <1>1, <1>3, RequestSafe, ProcessSafe, TickSafe DEF IInv, Next
<1> QED BY <1>2, <1>3

\* A FAILED job has used up its retries, and under one limit a PENDING one has
\* not, whatever overlaps, restarts, database failures and deletions occur.
THEOREM StatusSound == Spec => []StatusMatchesRetries
<1>1. IInv => StatusMatchesRetries
  BY DEF IInv
<1> QED BY InitIInv, NextIInv, <1>1, PTL DEF Spec

\* The retry endpoint never gets past its checks under one limit.
THEOREM RetryUnreachable == Spec => []RetryNeedsRaisedLimit
<1>1. IInv => RetryNeedsRaisedLimit
  BY DEF IInv
<1> QED BY InitIInv, NextIInv, <1>1, PTL DEF Spec

-----------------------------------------------------------------------------
(***************************************************************************)
(* One attempt of a job at a time, and what follows from it: the service   *)
(* implements the life cycle it promises.  For every set of jobs, number   *)
(* of invocations, batch size and fault budget, under a single MAX_RETRIES *)
(* and as long as no tick finds invocations of an earlier one between      *)
(* their batch read and their PROCESSING mark.                             *)
(***************************************************************************)

\* An invocation that may still write the job's outcome, or announce it.
WorkingPcs == {"find", "mark", "fetch", "complete", "fail", "announce"}
Working(j, s) == call[j][s].pc \in WorkingPcs

\* No tick takes a job an earlier one took and has not marked PROCESSING yet; for
\* different jobs ticks may overtake each other.
NotOvertaken ==
    \A j \in JobIds : \A s, t \in Slots :
        call[j][s].pc \in {"find", "mark"} /\ call[j][t].pc \in {"find", "mark"} => s = t

\* The job was created once, and its id is never handed out again.
Known(j) == j \in {created[i] : i \in DOMAIN created}

\* What the locals of invocation c tell of its row.
Agrees(c, row) ==
    /\ c.pc \in {"find", "mark"} => row.status = "PENDING"
    /\ c.pc \in {"fetch", "complete", "fail"} => row.status = "PROCESSING"
    /\ c.pc \in {"mark", "fetch", "complete", "fail"} => c.seen = row.retryCount
    /\ c.pc = "announce" => row.status = "COMPLETED" /\ row.contentId = c.content

\* What holds of a job whose invocation s works on it.
Alone(j, s) ==
    /\ Known(j)
    /\ completed[j] = <<>>
    /\ \A t \in Slots : Working(j, t) => t = s
    /\ Stored(j) => Agrees(call[j][s], jobs[j])
    /\ call[j][s].pc \in {"complete", "announce"} => call[j][s].content \in Times

Announced(j) ==
    completed[j] # <<>> =>
        /\ Known(j)
        /\ Len(completed[j]) = 1
        /\ Stored(j) => /\ jobs[j].status = "COMPLETED"
                        /\ jobs[j].contentId = completed[j][1]

\* The strengthening of OneAttemptAtATime that is inductive: later ticks keep
\* away from a job because its row tells how far its attempt has come.
Exclusive ==
    \A j \in JobIds :
        /\ Stored(j) => Known(j)
        /\ Announced(j)
        /\ \A s \in Slots : Working(j, s) => Alone(j, s)

-----------------------------------------------------------------------------
(* Frames: what a step at one invocation leaves alone.                     *)

\* Move writes one invocation.
LEMMA Moved ==
    ASSUME TypeOK, NEW j \in JobIds, NEW s \in Slots, NEW c, Move(j, s, c)
    PROVE  /\ call'[j][s] = c
           /\ \A t \in Slots : t # s => call'[j][t] = call[j][t]
           /\ \A i \in JobIds : i # j => call'[i] = call[i]
BY DEF TypeOK, Move

\* Goto is a Move that keeps the locals.
LEMMA WentTo ==
    ASSUME TypeOK, NEW j \in JobIds, NEW s \in Slots, NEW pc, Goto(j, s, pc)
    PROVE  /\ Move(j, s, [call[j][s] EXCEPT !.pc = pc])
           /\ [call[j][s] EXCEPT !.pc = pc].pc = pc
           /\ [call[j][s] EXCEPT !.pc = pc].seen = call[j][s].seen
           /\ [call[j][s] EXCEPT !.pc = pc].content = call[j][s].content
BY DEF TypeOK, Goto, Call

\* Update writes the job's row, and only that.
LEMMA Updated ==
    ASSUME TypeOK, NEW j \in JobIds, NEW row, Update(j, row)
    PROVE  /\ Stored(j)
           /\ jobs'[j] = row
           /\ \A i \in JobIds : i # j => jobs'[i] = jobs[i]
BY DEF TypeOK, Update

\* A job none of whose state a step touches is as it was.
LEMMA Untouched ==
    ASSUME Exclusive, NEW i \in JobIds, Known(i) => Known(i)',
           jobs'[i] = jobs[i], call'[i] = call[i], completed'[i] = completed[i]
    PROVE  /\ (Stored(i) => Known(i))'
           /\ Announced(i)'
           /\ \A s \in Slots : Working(i, s)' => Alone(i, s)'
BY DEF Exclusive, Stored, Announced, Working, Alone

\* A step of invocation s of job j, which worked on it before or does not now.
LEMMA StepOfOne ==
    ASSUME TypeOK, Exclusive, NEW j \in JobIds, NEW s \in Slots, NEW c,
           Move(j, s, c),
           Working(j, s) \/ c.pc \notin WorkingPcs,
           UNCHANGED created,
           \A i \in JobIds : i # j =>
               jobs'[i] = jobs[i] /\ completed'[i] = completed[i],
           Stored(j)' => Stored(j),
           Announced(j)',
           c.pc \in WorkingPcs =>
               /\ completed'[j] = <<>>
               /\ Stored(j)' => Agrees(c, jobs'[j])
               /\ c.pc \in {"complete", "announce"} => c.content \in Times,
           \A t \in Slots : t # s /\ Working(j, t) =>
               jobs'[j] = jobs[j] /\ completed'[j] = completed[j]
    PROVE  Exclusive'
<1>1. /\ call'[j][s] = c
      /\ \A t \in Slots : t # s => call'[j][t] = call[j][t]
      /\ \A i \in JobIds : i # j => call'[i] = call[i]
  BY Moved
<1>2. \A i \in JobIds : Known(i)' <=> Known(i)
  BY DEF Known
<1>3. ASSUME NEW i \in JobIds, i # j
      PROVE  /\ (Stored(i) => Known(i))'
             /\ Announced(i)'
             /\ \A t \in Slots : Working(i, t)' => Alone(i, t)'
  BY <1>1, <1>2, <1>3, Untouched
<1>4. (Stored(j) => Known(j))'
  BY <1>2 DEF Exclusive
<1>5. ASSUME NEW t \in Slots, Working(j, t)' PROVE Alone(j, t)'
  <2>1. CASE t = s
    <3>1. c.pc \in WorkingPcs /\ Working(j, s) /\ Alone(j, s)
      BY <1>1, <1>5, <2>1 DEF Working, Exclusive
    <3>2. \A u \in Slots : Working(j, u)' => u = s
      BY <1>1, <3>1 DEF Working, Alone
    <3>3. Known(j)'
      BY <1>2, <3>1 DEF Alone
    <3> QED BY <1>1, <2>1, <3>1, <3>2, <3>3 DEF Alone
  <2>2. CASE t # s
    <3>1. Working(j, t) /\ Alone(j, t)
      BY <1>1, <1>5, <2>2 DEF Working, Exclusive
    <3>2. ~Working(j, s)
      BY <2>2, <3>1 DEF Alone
    <3>3. \A u \in Slots : Working(j, u)' => u = t
      BY <1>1, <3>1, <3>2 DEF Working, Alone
    <3>4. Known(j)' /\ jobs'[j] = jobs[j] /\ completed'[j] = completed[j]
      BY <1>2, <2>2, <3>1 DEF Alone
    <3> QED BY <1>1, <2>2, <3>1, <3>3, <3>4 DEF Alone, Stored
  <2> QED BY <2>1, <2>2
<1> QED BY <1>3, <1>4, <1>5 DEF Exclusive

-----------------------------------------------------------------------------
(* The steps.                                                              *)

\* What an invocation that works on its job finds.
LEMMA Found ==
    ASSUME TypeOK, Exclusive, NEW j \in JobIds, NEW s \in Slots, Working(j, s)
    PROVE  /\ completed[j] = <<>>
           /\ Stored(j) => Agrees(call[j][s], jobs[j]) /\ jobs[j] \in IngestJob
           /\ \A t \in Slots : t # s => ~Working(j, t)
           /\ call[j][s] \in Call
<1>1. Alone(j, s)
  BY DEF Exclusive
<1>2. Stored(j) => jobs[j] \in IngestJob
  BY StoredType
<1> QED BY <1>1, <1>2 DEF Alone, TypeOK

\* An invocation that ends, with nothing written.
LEMMA Ended ==
    ASSUME TypeOK, Exclusive, NEW j \in JobIds, NEW s \in Slots, End(j, s),
           UNCHANGED <<jobs, created, completed>>
    PROVE  Exclusive'
<1>1. Move(j, s, Idle) /\ Idle.pc \notin WorkingPcs
  BY DEF End, Idle, WorkingPcs
<1>2. Announced(j)'
  BY DEF Exclusive, Announced, Known, Stored
<1>3. Stored(j)' => Stored(j)
  BY DEF Stored
<1> QED BY <1>1, <1>2, <1>3, StepOfOne

\* An invocation that only moves on, to work that agrees with the row.
LEMMA MovedOn ==
    ASSUME TypeOK, Exclusive, NEW j \in JobIds, NEW s \in Slots, NEW c,
           Working(j, s), Move(j, s, c), UNCHANGED <<jobs, created, completed>>,
           Stored(j) => Agrees(c, jobs[j]),
           c.pc \in {"complete", "announce"} => c.content \in Times
    PROVE  Exclusive'
<1>1. completed[j] = <<>>
  BY Found
<1>2. Announced(j)'
  BY <1>1 DEF Announced
<1>3. Stored(j)' <=> Stored(j)
  BY DEF Stored
<1> QED BY <1>1, <1>2, <1>3, StepOfOne

\* An invocation that writes its job's row and moves on.
LEMMA Wrote ==
    ASSUME TypeOK, Exclusive, NEW j \in JobIds, NEW s \in Slots, NEW c, NEW row,
           Working(j, s), Move(j, s, c), Update(j, row),
           UNCHANGED <<created, completed>>,
           Agrees(c, row), c.pc \in {"complete", "announce"} => c.content \in Times
    PROVE  Exclusive'
<1>1. completed[j] = <<>> /\ \A t \in Slots : t # s => ~Working(j, t)
  BY Found
<1>2. Announced(j)'
  BY <1>1 DEF Announced
<1>3. /\ Stored(j)
      /\ jobs'[j] = row
      /\ \A i \in JobIds : i # j => jobs'[i] = jobs[i]
  BY Updated
<1> QED BY <1>1, <1>2, <1>3, StepOfOne

LEMMA ProcessExclusive ==
    ASSUME TypeOK, Exclusive, NEW j \in JobIds, NEW s \in Slots,
           ProcessJob(j, s) \/ ProcessYouTube(j, s)
    PROVE  Exclusive'
<1>1. CASE FindById(j, s)
  <2> DEFINE c == [call[j][s] EXCEPT !.pc = "mark", !.seen = jobs[j].retryCount]
  <2>1. Working(j, s)
    BY <1>1 DEF FindById, Working, WorkingPcs
  <2>2. ASSUME Stored(j), Move(j, s, c) PROVE Exclusive'
    <3>1. jobs[j].status = "PENDING" /\ call[j][s] \in Call
      BY <1>1, <2>1, <2>2, Found DEF Agrees, FindById
    <3>2. c.pc = "mark" /\ c.seen = jobs[j].retryCount
      BY <3>1 DEF Call
    <3>3. Agrees(c, jobs[j])
      BY <3>1, <3>2 DEF Agrees
    <3> HIDE DEF c
    <3> QED BY <1>1, <2>1, <2>2, <3>2, <3>3, MovedOn DEF FindById, topics
  <2>3. CASE End(j, s)
    BY <1>1, <2>3, Ended DEF FindById, topics
  <2> QED BY <1>1, <2>2, <2>3 DEF FindById
<1>2. CASE MarkProcessing(j, s)
  <2> DEFINE c == [call[j][s] EXCEPT !.pc = "fetch"]
             row == [jobs[j] EXCEPT !.status = "PROCESSING"]
  <2>1. Working(j, s)
    BY <1>2 DEF MarkProcessing, Working, WorkingPcs
  <2>2. ASSUME Update(j, row), Goto(j, s, "fetch") PROVE Exclusive'
    <3>1. Move(j, s, c) /\ c.pc = "fetch" /\ c.seen = call[j][s].seen
      BY <2>2, WentTo
    <3>2. call[j][s].seen = jobs[j].retryCount /\ jobs[j] \in IngestJob
      BY <1>2, <2>1, <2>2, Found DEF Agrees, MarkProcessing, Update
    <3>3. row.status = "PROCESSING" /\ row.retryCount = jobs[j].retryCount
      BY <3>2 DEF IngestJob
    <3>4. Agrees(c, row)
      BY <3>1, <3>2, <3>3 DEF Agrees
    <3> HIDE DEF c, row
    <3> QED BY <1>2, <2>1, <2>2, <3>1, <3>4, Wrote DEF MarkProcessing, topics
  <2>3. CASE End(j, s) /\ UNCHANGED jobs
    BY <1>2, <2>3, Ended DEF MarkProcessing, topics
  <2> QED BY <1>2, <2>2, <2>3 DEF MarkProcessing
<1>3. CASE FetchFrom(j, s)
  <2>1. Working(j, s)
    BY <1>3 DEF FetchFrom, Working, WorkingPcs
  <2>2. /\ call[j][s] \in Call
        /\ Stored(j) => /\ jobs[j].status = "PROCESSING"
                        /\ call[j][s].seen = jobs[j].retryCount
    BY <1>3, <2>1, Found DEF Agrees, FetchFrom
  <2>3. ASSUME NEW t \in now..MaxNow,
               Move(j, s, [call[j][s] EXCEPT !.pc = "complete", !.content = t])
        PROVE  Exclusive'
    <3> DEFINE c == [call[j][s] EXCEPT !.pc = "complete", !.content = t]
    <3>1. c.pc = "complete" /\ c.content = t /\ c.seen = call[j][s].seen
      BY <2>2 DEF Call
    <3>2. t \in Times
      BY IngestAssumption DEF TypeOK, Times
    <3>3. Stored(j) => Agrees(c, jobs[j])
      BY <2>2, <3>1 DEF Agrees
    <3> HIDE DEF c
    <3>4. Move(j, s, c)
      BY <2>3 DEF c
    <3> QED BY <1>3, <2>1, <3>1, <3>2, <3>3, <3>4, MovedOn DEF FetchFrom, topics
  <2>4. CASE Goto(j, s, "fail")
    <3> DEFINE c == [call[j][s] EXCEPT !.pc = "fail"]
    <3>1. Move(j, s, c) /\ c.pc = "fail" /\ c.seen = call[j][s].seen
      BY <2>4, WentTo
    <3>2. Stored(j) => Agrees(c, jobs[j])
      BY <2>2, <3>1 DEF Agrees
    <3> HIDE DEF c
    <3> QED BY <1>3, <2>1, <3>1, <3>2, MovedOn DEF FetchFrom, topics
  <2> QED BY <1>3, <2>3, <2>4 DEF FetchFrom
<1>4. CASE CompleteJob(j, s)
  <2> DEFINE row == [jobs[j] EXCEPT !.status = "COMPLETED", !.contentId = call[j][s].content]
  <2>1. Working(j, s)
    BY <1>4 DEF CompleteJob, Working, WorkingPcs
  <2>2. /\ call[j][s].content \in Times
        /\ Stored(j) => /\ jobs[j] \in IngestJob
                        /\ jobs[j].status = "PROCESSING"
                        /\ call[j][s].seen = jobs[j].retryCount
    <3>1. Alone(j, s)
      BY <2>1 DEF Exclusive
    <3> QED BY <1>4, <2>1, <3>1, Found DEF Alone, Agrees, CompleteJob
  <2>3. ASSUME Update(j, row), Goto(j, s, "announce") PROVE Exclusive'
    <3> DEFINE c == [call[j][s] EXCEPT !.pc = "announce"]
    <3>1. Move(j, s, c) /\ c.pc = "announce" /\ c.content = call[j][s].content
      BY <2>3, WentTo
    <3>2. row.status = "COMPLETED" /\ row.contentId = call[j][s].content
      BY <2>2, <2>3 DEF IngestJob, Update
    <3>3. Agrees(c, row)
      BY <3>1, <3>2 DEF Agrees
    <3> HIDE DEF c, row
    <3> QED BY <1>4, <2>1, <2>2, <2>3, <3>1, <3>3, Wrote DEF CompleteJob, topics
  <2>4. CASE Goto(j, s, "fail") /\ UNCHANGED jobs
    <3> DEFINE c == [call[j][s] EXCEPT !.pc = "fail"]
    <3>1. Move(j, s, c) /\ c.pc = "fail" /\ c.seen = call[j][s].seen
      BY <2>4, WentTo
    <3>2. Stored(j) => Agrees(c, jobs[j])
      BY <2>2, <3>1 DEF Agrees
    <3> HIDE DEF c
    <3> QED BY <1>4, <2>1, <2>4, <3>1, <3>2, MovedOn DEF CompleteJob, topics
  <2> QED BY <1>4, <2>3, <2>4 DEF CompleteJob
<1>5. CASE EmitIngestCompleted(j, s)
  <2>1. Working(j, s)
    BY <1>5 DEF EmitIngestCompleted, Working, WorkingPcs
  <2>2. CASE UNCHANGED completed
    BY <1>5, <2>2, Ended DEF EmitIngestCompleted
  <2>3. CASE completed' = [completed EXCEPT ![j] = Append(@, call[j][s].content)]
    <3>1. /\ Known(j)
          /\ completed[j] = <<>>
          /\ Stored(j) => /\ jobs[j].status = "COMPLETED"
                          /\ jobs[j].contentId = call[j][s].content
      BY <1>5, <2>1 DEF Exclusive, Alone, Agrees, EmitIngestCompleted
    <3>2. /\ completed'[j] = <<call[j][s].content>>
          /\ \A i \in JobIds : i # j => completed'[i] = completed[i]
      BY <2>3, <3>1 DEF TypeOK
    <3>3. Announced(j)'
      BY <1>5, <3>1, <3>2 DEF Announced, Known, Stored, EmitIngestCompleted
    <3>4. Move(j, s, Idle) /\ Idle.pc \notin WorkingPcs
      BY <1>5 DEF EmitIngestCompleted, End, Idle, WorkingPcs
    <3>5. \A t \in Slots : t # s => ~Working(j, t)
      BY <2>1, Found
    <3>6. Stored(j)' <=> Stored(j)
      BY <1>5 DEF EmitIngestCompleted, Stored
    <3>7. UNCHANGED <<jobs, created>>
      BY <1>5 DEF EmitIngestCompleted
    <3> QED BY <3>2, <3>3, <3>4, <3>5, <3>6, <3>7, StepOfOne
  <2> QED BY <1>5, <2>2, <2>3 DEF EmitIngestCompleted
<1>6. CASE FailAttempt(j, s)
  <2> DEFINE n == RetryCount(call[j][s])
             row == [jobs[j] EXCEPT !.status = StatusAfterFailure(n), !.retryCount = n]
  <2>1. Working(j, s)
    BY <1>6 DEF FailAttempt, Working, WorkingPcs
  <2>2. ASSUME Update(j, row), Goto(j, s, "report") PROVE Exclusive'
    <3> DEFINE c == [call[j][s] EXCEPT !.pc = "report"]
    <3>1. Move(j, s, c) /\ c.pc = "report"
      BY <2>2, WentTo
    <3>2. Agrees(c, row)
      BY <3>1 DEF Agrees
    <3> HIDE DEF c, row
    <3> QED BY <1>6, <2>1, <2>2, <3>1, <3>2, Wrote DEF FailAttempt, topics
  <2>3. CASE End(j, s) /\ UNCHANGED jobs
    BY <1>6, <2>3, Ended DEF FailAttempt, topics
  <2> QED BY <1>6, <2>2, <2>3 DEF FailAttempt
<1>7. CASE EmitIngestFailed(j, s)
  BY <1>7, Ended DEF EmitIngestFailed
<1> QED BY <1>1, <1>2, <1>3, <1>4, <1>5, <1>6, <1>7
        DEF ProcessJob, ProcessYouTube, ProcessRSS, ProcessAPI

\* Requests change the rows of jobs only where nothing works on them, or
\* remove them.  This is where retryJob would be a second way to an attempt:
\* under one limit its checks never pass.
LEMMA RequestExclusive ==
    ASSUME OneLimit, IInv, Exclusive, Request
    PROVE  Exclusive'
<1> USE DEF IInv
<1>1. PICK j \in JobIds : \/ CreateJob(j) \/ DeleteJob(j)
                          \/ \E s \in Slots : RetryJob(j, s) \/ ResetToPending(j, s)
  BY DEF Request
<1>2. CASE CreateJob(j)
  <2>1. created \in Seq(JobIds) /\ created' = Append(created, j)
    BY <1>2 DEF CreateJob, TypeOK
  <2>2. /\ Len(created') = Len(created) + 1
        /\ created'[Len(created) + 1] = j
        /\ \A k \in 1..Len(created) : created'[k] = created[k]
        /\ DOMAIN created = 1..Len(created)
        /\ DOMAIN created' = 1..(Len(created) + 1)
    BY <2>1
  <2>3. \A i \in JobIds : Known(i) => Known(i)'
    BY <2>2 DEF Known
  <2>4. ~Known(j) /\ Known(j)'
    BY <1>2, <2>2 DEF CreateJob, Known
  <2>5. \A s \in Slots : ~Working(j, s)
    BY <2>4 DEF Exclusive, Alone
  <2>6. completed[j] = <<>>
    BY <2>4 DEF Exclusive, Announced
  <2>7. call' = call /\ completed' = completed
    BY <1>2 DEF CreateJob, topics
  <2>8. \A i \in JobIds : i # j => jobs'[i] = jobs[i]
    BY <1>2 DEF CreateJob, TypeOK
  <2>9. ASSUME NEW i \in JobIds, i # j
        PROVE  /\ (Stored(i) => Known(i))'
               /\ Announced(i)'
               /\ \A s \in Slots : Working(i, s)' => Alone(i, s)'
    BY <2>3, <2>7, <2>8, <2>9, Untouched
  <2> QED BY <2>4, <2>5, <2>6, <2>7, <2>9 DEF Exclusive, Announced, Working
<1>3. CASE DeleteJob(j)
  <2>1. ~Stored(j)' /\ UNCHANGED <<created, call, completed>>
    BY <1>3 DEF DeleteJob, Stored, TypeOK, topics
  <2>2. \A i \in JobIds : i # j => jobs'[i] = jobs[i]
    BY <1>3 DEF DeleteJob, TypeOK
  <2>3. ASSUME NEW i \in JobIds, i # j
        PROVE  /\ (Stored(i) => Known(i))'
               /\ Announced(i)'
               /\ \A s \in Slots : Working(i, s)' => Alone(i, s)'
    BY <2>1, <2>2, <2>3, Untouched DEF Known
  <2>4. \A s \in Slots : Working(j, s)' => Alone(j, s)'
    BY <2>1 DEF Exclusive, Working, Alone, Known
  <2>5. Announced(j)'
    BY <2>1 DEF Exclusive, Announced, Known
  <2> QED BY <2>1, <2>3, <2>4, <2>5 DEF Exclusive
<1>4. ASSUME NEW s \in Slots, RetryJob(j, s) PROVE FALSE
  <2>1. Stored(j) /\ jobs[j].status = "FAILED" /\ jobs[j].retryCount < maxRetries
    BY <1>4 DEF RetryJob, Retryable
  <2>2. PICK m \in Limits : jobs[j].retryCount >= m
    BY <2>1 DEF StatusMatchesRetries
  <2>3. m = maxRetries
    BY <2>2 DEF OneLimit, TypeOK
  <2>4. jobs[j].retryCount \in Nat /\ m \in Nat
    BY <2>1, IngestAssumption, StoredType DEF IngestJob
  <2> QED BY <2>1, <2>2, <2>3, <2>4
<1>5. ASSUME NEW s \in Slots, ResetToPending(j, s) PROVE FALSE
  BY <1>5 DEF ResetToPending, RetryNeedsRaisedLimit
<1> QED BY <1>1, <1>2, <1>3, <1>4, <1>5

\* A tick takes PENDING jobs.  An invocation still working on one of them is
\* between its batch read and its mark, and is overtaken.
LEMMA TickExclusive ==
    ASSUME TypeOK, Exclusive, Tick, NotOvertaken'
    PROVE  Exclusive'
<1>1. PICK slot \in [PendingBatch -> Slots] :
         /\ \A j \in PendingBatch : call[j][slot[j]].pc = "idle"
         /\ call' = [j \in JobIds |->
                       IF j \in PendingBatch
                       THEN [call[j] EXCEPT ![slot[j]].pc = "find"]
                       ELSE call[j]]
  BY DEF Tick
<1>2. UNCHANGED <<jobs, created, completed>>
  BY DEF Tick, topics
<1>3. SUFFICES ASSUME NEW j \in JobIds
               PROVE  /\ (Stored(j) => Known(j))'
                      /\ Announced(j)'
                      /\ \A s \in Slots : Working(j, s)' => Alone(j, s)'
  BY DEF Exclusive
<1>4. CASE j \notin PendingBatch
  BY <1>1, <1>2, <1>4, Untouched DEF Known
<1>5. CASE j \in PendingBatch
  <2>1. Pending(j) /\ Known(j)
    BY <1>5 DEF PendingBatch, Known
  <2>2. /\ slot[j] \in Slots
        /\ call[j][slot[j]].pc = "idle" /\ call'[j][slot[j]].pc = "find"
        /\ \A t \in Slots : t # slot[j] => call'[j][t] = call[j][t]
    BY <1>1, <1>5 DEF TypeOK, Call
  <2>3. completed[j] = <<>>
    BY <2>1 DEF Exclusive, Announced, Pending
  <2>4. \A t \in Slots : ~Working(j, t)
    <3> SUFFICES ASSUME NEW t \in Slots, Working(j, t) PROVE FALSE
      OBVIOUS
    <3>1. Agrees(call[j][t], jobs[j])
      BY <2>1 DEF Exclusive, Alone, Pending
    <3>2. call[j][t].pc \in {"find", "mark"}
      BY <2>1, <3>1 DEF Agrees, Working, WorkingPcs, Pending
    <3>3. t # slot[j]
      BY <2>2, <3>2
    <3>4. call'[j][t].pc \in {"find", "mark"}
      BY <2>2, <3>2, <3>3
    <3> QED BY <2>2, <3>3, <3>4 DEF NotOvertaken
  <2>5. \A t \in Slots : Working(j, t)' => t = slot[j]
    BY <2>2, <2>4 DEF Working
  <2>6. Known(j)' /\ completed'[j] = <<>>
    BY <1>2, <2>1, <2>3 DEF Known
  <2>7. Agrees(call'[j][slot[j]], jobs'[j])
    BY <1>2, <2>1, <2>2 DEF Agrees, Pending
  <2>8. Alone(j, slot[j])'
    BY <2>2, <2>5, <2>6, <2>7 DEF Alone
  <2> QED BY <2>5, <2>6, <2>8 DEF Announced
<1> QED BY <1>4, <1>5

LEMMA InitExclusive == Init => Exclusive
BY DEF Init, Exclusive, Stored, Announced, Working, WorkingPcs, Idle

\* Whatever is not a tick.
LEMMA OtherExclusive ==
    ASSUME OneLimit, IInv, Exclusive, [Next]_vars, ~Tick
    PROVE  Exclusive'
<1>1. CASE Request
  BY <1>1, RequestExclusive
<1>2. CASE \E j \in JobIds, s \in Slots : ProcessJob(j, s) \/ ProcessYouTube(j, s)
  BY <1>2, ProcessExclusive DEF IInv
<1>3. CASE Restart
  <2>1. \A j \in JobIds, s \in Slots : ~Working(j, s)'
    BY <1>3 DEF Restart, Working, WorkingPcs, Idle
  <2>2. UNCHANGED <<jobs, created, completed>>
    BY <1>3 DEF Restart, topics
  <2> QED BY <2>1, <2>2 DEF Exclusive, Stored, Known, Announced
<1>4. CASE UNCHANGED vars
  BY <1>4 DEF vars, Exclusive, Stored, Known, Announced, Working, Alone
<1> QED BY <1>1, <1>2, <1>3, <1>4 DEF Next

LEMMA NextExclusive ==
    ASSUME OneLimit, IInv, Exclusive, [Next]_vars, NotOvertaken'
    PROVE  Exclusive'
BY OtherExclusive, TickExclusive DEF IInv

LEMMA SpecExclusive ==
    ASSUME OneLimit
    PROVE  Spec /\ []NotOvertaken => [](IInv /\ Exclusive)
<1>1. Init => IInv /\ Exclusive
  BY InitIInv, InitExclusive
<1>2. IInv /\ Exclusive /\ [Next]_vars /\ NotOvertaken' => (IInv /\ Exclusive)'
  BY NextIInv, NextExclusive
<1> QED BY <1>1, <1>2, PTL DEF Spec

-----------------------------------------------------------------------------
(* Theorems.                                                               *)

\* Where a tick waits for the marks of earlier ones no job is overtaken: processJob
\* begins with them.
THEOREM TimelyTicks ==
    ASSUME OneLimit, ~Stalls
    PROVE  Spec => []NotOvertaken
<1>1. Init => IInv /\ Exclusive
  BY InitIInv, InitExclusive
<1>2. Exclusive => NotOvertaken
  BY DEF Exclusive, NotOvertaken, Alone, Working, WorkingPcs
<1>3. ASSUME IInv, Tick PROVE NotOvertaken'
  <2>1. PICK slot \in [PendingBatch -> Slots] :
           call' = [j \in JobIds |->
                      IF j \in PendingBatch
                      THEN [call[j] EXCEPT ![slot[j]].pc = "find"]
                      ELSE call[j]]
    BY <1>3 DEF Tick
  <2>2. Timely
    BY <1>3 DEF Tick
  <2>3. ASSUME NEW j \in JobIds, NEW s \in Slots, call'[j][s].pc \in {"find", "mark"}
        PROVE  j \in PendingBatch /\ s = slot[j]
    BY <2>1, <2>2, <2>3 DEF Timely, IInv, TypeOK
  <2> QED BY <2>3 DEF NotOvertaken
<1>4. IInv /\ Exclusive /\ [Next]_vars => (IInv /\ Exclusive)'
  <2> SUFFICES ASSUME IInv, Exclusive, [Next]_vars PROVE IInv' /\ Exclusive'
    OBVIOUS
  <2>1. CASE Tick
    BY <1>3, <2>1, NextIInv, NextExclusive
  <2>2. CASE [Next]_vars /\ ~Tick
    BY <2>2, NextIInv, OtherExclusive
  <2> QED BY <2>1, <2>2
<1> QED BY <1>1, <1>2, <1>4, PTL DEF Spec

\* No job is worked on by two invocations, though no lock is taken and no
\* status looked at: findPendingJobs and the PROCESSING mark of processJob.
THEOREM OneAttempt ==
    ASSUME OneLimit
    PROVE  Spec /\ []NotOvertaken => []OneAttemptAtATime
<1>1. Exclusive => OneAttemptAtATime
  BY DEF Exclusive, OneAttemptAtATime, Alone, Working, WorkingPcs, Attempting
<1> QED BY <1>1, SpecExclusive, PTL

\* What is announced on ingest.completed was announced once and stays true of
\* the row: the end of processJob's try block.
THEOREM AnnouncementsHold ==
    ASSUME OneLimit
    PROVE  Spec /\ []NotOvertaken => []AnnouncedMatchesRow
<1>1. Exclusive => AnnouncedMatchesRow
  BY DEF Exclusive, Announced, AnnouncedMatchesRow
<1> QED BY <1>1, SpecExclusive, PTL

-----------------------------------------------------------------------------
(* The refinement: each step of the service is a step of the life cycle or *)
(* leaves the rows alone.                                                  *)

Limit == CHOOSE m \in Limits : TRUE

\* The limit the life cycle is instantiated with is the one in force.
LEMMA LimitInForce ==
    ASSUME OneLimit, TypeOK
    PROVE  maxRetries = Limit /\ Limit \in Nat
<1>1. Limit \in Limits
  BY IngestAssumption DEF Limit
<1> QED BY <1>1, IngestAssumption DEF OneLimit, TypeOK

\* The three writes of processJob.
LEMMA MarkImplements ==
    ASSUME TypeOK, Exclusive, NEW j \in JobIds, NEW s \in Slots, MarkProcessing(j, s)
    PROVE  Lifecycle!Next \/ UNCHANGED jobs
<1>1. Working(j, s)
  BY DEF MarkProcessing, Working, WorkingPcs
<1>2. CASE Update(j, [jobs[j] EXCEPT !.status = "PROCESSING"])
  <2>1. jobs[j].status = "PENDING" /\ jobs[j] # NoRow
    BY <1>1, <1>2, Found DEF Agrees, MarkProcessing, Update, Stored
  <2>2. jobs' = [jobs EXCEPT ![j].status = "PROCESSING"]
    BY <1>2 DEF Update, TypeOK
  <2> QED BY <2>1, <2>2 DEF Lifecycle!Attempt, Lifecycle!Next
<1> QED BY <1>2 DEF MarkProcessing

LEMMA CompleteImplements ==
    ASSUME TypeOK, Exclusive, NEW j \in JobIds, NEW s \in Slots, CompleteJob(j, s)
    PROVE  Lifecycle!Next \/ UNCHANGED jobs
<1> DEFINE c == call[j][s].content
<1>1. Working(j, s)
  BY DEF CompleteJob, Working, WorkingPcs
<1>2. CASE Update(j, [jobs[j] EXCEPT !.status = "COMPLETED", !.contentId = c])
  <2>1. jobs[j].status = "PROCESSING" /\ jobs[j] # NoRow
    BY <1>1, <1>2, Found DEF Agrees, CompleteJob, Update, Stored
  <2>2. c \in Times
    BY <1>1 DEF Exclusive, Alone, CompleteJob
  <2>3. jobs' = [jobs EXCEPT ![j].status = "COMPLETED", ![j].contentId = c]
    BY <1>2 DEF Update, TypeOK
  <2> QED BY <2>1, <2>2, <2>3 DEF Lifecycle!Complete, Lifecycle!Next
<1> QED BY <1>2 DEF CompleteJob

\* The count that is written was read before the fetch; it still is the row's.
LEMMA FailImplements ==
    ASSUME OneLimit, TypeOK, Exclusive, NEW j \in JobIds, NEW s \in Slots,
           FailAttempt(j, s)
    PROVE  Lifecycle!Next \/ UNCHANGED jobs
<1> DEFINE n == RetryCount(call[j][s])
           row == [jobs[j] EXCEPT !.status = StatusAfterFailure(n), !.retryCount = n]
<1>1. Working(j, s)
  BY DEF FailAttempt, Working, WorkingPcs
<1>2. CASE Update(j, row)
  <2>1. /\ jobs[j].status = "PROCESSING" /\ jobs[j] # NoRow
        /\ jobs[j] \in IngestJob
        /\ call[j][s].seen = jobs[j].retryCount
    BY <1>1, <1>2, Found DEF Agrees, FailAttempt, Update, Stored
  <2>2. n = jobs[j].retryCount + 1
    BY <2>1 DEF RetryCount
  <2>3. StatusAfterFailure(n) = IF jobs[j].retryCount + 1 < Limit
                                THEN "PENDING" ELSE "FAILED"
    BY <2>2, LimitInForce DEF StatusAfterFailure
  <2>4. row = [jobs[j] EXCEPT
                 !.retryCount = jobs[j].retryCount + 1,
                 !.status = IF jobs[j].retryCount + 1 < Limit
                            THEN "PENDING" ELSE "FAILED"]
    BY <2>1, <2>2, <2>3 DEF IngestJob
  <2>5. jobs' = [jobs EXCEPT
                   ![j].retryCount = @ + 1,
                   ![j].status = IF jobs[j].retryCount + 1 < Limit
                                 THEN "PENDING" ELSE "FAILED"]
    BY <1>2, <2>4 DEF Update, TypeOK
  <2> QED BY <2>1, <2>5 DEF Lifecycle!Fail, Lifecycle!Next, Limit
<1> QED BY <1>2 DEF FailAttempt

LEMMA RequestImplements ==
    ASSUME OneLimit, IInv, Exclusive, Request
    PROVE  Lifecycle!Next \/ UNCHANGED jobs
<1>1. PICK j \in JobIds : \/ CreateJob(j) \/ DeleteJob(j)
                          \/ \E s \in Slots : RetryJob(j, s) \/ ResetToPending(j, s)
  BY DEF Request
<1>2. CASE CreateJob(j)
  <2>1. jobs[j] = NoRow
    BY <1>2 DEF CreateJob, Exclusive, Known, Stored
  <2> QED BY <1>2, <2>1 DEF CreateJob, Lifecycle!Accept, Lifecycle!Next
<1>3. CASE DeleteJob(j)
  BY <1>3 DEF DeleteJob, Stored, Lifecycle!Withdraw, Lifecycle!Next
<1>4. CASE \E s \in Slots : RetryJob(j, s)
  BY <1>4 DEF RetryJob
<1>5. CASE \E s \in Slots : ResetToPending(j, s)
  BY <1>5 DEF ResetToPending, IInv, RetryNeedsRaisedLimit
<1> QED BY <1>1, <1>2, <1>3, <1>4, <1>5

LEMMA StepImplements ==
    ASSUME OneLimit, IInv, Exclusive, [Next]_vars
    PROVE  Lifecycle!Next \/ UNCHANGED jobs
<1>1. TypeOK
  BY DEF IInv
<1>2. CASE Request
  BY <1>2, RequestImplements
<1>3. CASE Tick \/ Restart \/ UNCHANGED vars
  BY <1>3 DEF Tick, Restart, vars
<1>4. ASSUME NEW j \in JobIds, NEW s \in Slots, ProcessJob(j, s) \/ ProcessYouTube(j, s)
      PROVE  Lifecycle!Next \/ UNCHANGED jobs
  <2>1. CASE MarkProcessing(j, s)
    BY <1>1, <2>1, MarkImplements
  <2>2. CASE CompleteJob(j, s)
    BY <1>1, <2>2, CompleteImplements
  <2>3. CASE FailAttempt(j, s)
    BY <1>1, <2>3, FailImplements
  <2>4. CASE \/ FindById(j, s) \/ FetchFrom(j, s)
             \/ EmitIngestCompleted(j, s) \/ EmitIngestFailed(j, s)
    BY <2>4 DEF FindById, FetchFrom, EmitIngestCompleted, EmitIngestFailed
  <2> QED BY <1>4, <2>1, <2>2, <2>3, <2>4
          DEF ProcessJob, ProcessYouTube, ProcessRSS, ProcessAPI
<1> QED BY <1>2, <1>3, <1>4 DEF Next

\* The service implements the life cycle of JobLifecycle: IngestService and
\* IngestProcessor lose, repeat and undo no transition of a job.
THEOREM Implementation ==
    ASSUME OneLimit
    PROVE  Spec /\ []NotOvertaken => ImplementsLifecycle
<1>1. Init => Lifecycle!Init
  BY DEF Init, Lifecycle!Init
<1>2. IInv /\ Exclusive /\ [Next]_vars => [Lifecycle!Next]_jobs
  BY StepImplements
<1> QED BY <1>1, <1>2, SpecExclusive, PTL DEF Spec, ImplementsLifecycle, Lifecycle!Spec
=============================================================================

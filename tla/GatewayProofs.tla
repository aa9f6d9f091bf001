--------------------------- MODULE GatewayProofs ----------------------------
(***************************************************************************)
(* Theorems about Gateway for every set of requests, number of attempts,   *)
(* pair of thresholds and pair of periods with MonitoringPeriod <= Timeout,*)
(* and about Access for every Unit.                                        *)
(***************************************************************************)
EXTENDS Gateway, Access, FiniteSetTheorems, SequenceTheorems, TLAPS

\* Every failure the circuit remembers has left the monitoring period.
Quiet(b) == \A i \in DOMAIN b.failureTimestamps :
                b.failureTimestamps[i] >= MonitoringPeriod

\* What the states of a circuit say of its timestamps.  lastFailureTime is
\* the age of the youngest one: that is why a breaker that has rested is
\* quiet, and it is what CleanSlate lacks to be inductive.
Sound(b) ==
    /\ b.state = "OPEN" =>
          \A i \in DOMAIN b.failureTimestamps :
              b.failureTimestamps[i]
                  >= Lesser(b.lastFailureTime, MonitoringPeriod)
    /\ b.state = "HALF_OPEN" => Rested(b) /\ Quiet(b)
    /\ b.state = "CLOSED" =>
          /\ Cardinality(RecentFailures(b)) < FailureThreshold
          /\ b.failures < FailureThreshold

IInv == TypeOK /\ Sound(breaker)

-----------------------------------------------------------------------------
(* The list of timestamps.                                                 *)

\* The sets of positions are finite and no larger than the list.
LEMMA Positions ==
    ASSUME NEW ts \in Seq(Ages)
    PROVE  /\ Cardinality(Expired(ts)) \in 0..Len(ts)
           /\ IsFiniteSet(DOMAIN ts \ Expired(ts))
           /\ Cardinality(DOMAIN ts \ Expired(ts)) \in 0..Len(ts)
<1>1. /\ DOMAIN ts = 1..Len(ts)
      /\ Len(ts) \in Nat
  OBVIOUS
<1>2. /\ IsFiniteSet(DOMAIN ts)
      /\ Cardinality(DOMAIN ts) = Len(ts)
  BY <1>1, FS_Interval
<1>3. /\ Expired(ts) \in SUBSET (DOMAIN ts)
      /\ DOMAIN ts \ Expired(ts) \in SUBSET (DOMAIN ts)
  BY DEF Expired
<1>4. /\ Cardinality(Expired(ts)) <= Len(ts)
      /\ IsFiniteSet(Expired(ts))
  BY <1>2, <1>3, FS_Subset
<1>5. /\ Cardinality(DOMAIN ts \ Expired(ts)) <= Len(ts)
      /\ IsFiniteSet(DOMAIN ts \ Expired(ts))
  BY <1>2, <1>3, FS_Subset
<1>6. /\ Cardinality(Expired(ts)) \in Nat
      /\ Cardinality(DOMAIN ts \ Expired(ts)) \in Nat
  BY <1>4, <1>5, FS_CardinalityType
<1> QED BY <1>1, <1>4, <1>5, <1>6

\* The filter keeps a suffix of the list.
LEMMA InPeriodSuffix ==
    ASSUME NEW ts \in Seq(Ages)
    PROVE  /\ InPeriod(ts) \in Seq(Ages)
           /\ \E k \in 0..Len(ts) :
                 /\ Len(InPeriod(ts)) = Len(ts) - k
                 /\ \A i \in DOMAIN InPeriod(ts) :
                       /\ i + k \in DOMAIN ts
                       /\ InPeriod(ts)[i] = ts[i + k]
<1> DEFINE k == Cardinality(Expired(ts))
<1>1. k \in 0..Len(ts)
  BY Positions
<1>2. InPeriod(ts) = SubSeq(ts, k + 1, Len(ts))
  BY DEF InPeriod
<1>3. \A i \in (k + 1)..Len(ts) : ts[i] \in Ages
  BY <1>1, ElementOfSeq
<1> HIDE DEF k
<1>4. /\ k + 1 \in Int
      /\ Len(ts) \in Int
  BY <1>1
<1>5. /\ SubSeq(ts, k + 1, Len(ts)) \in Seq(Ages)
      /\ Len(SubSeq(ts, k + 1, Len(ts))) =
            IF k + 1 <= Len(ts) THEN Len(ts) - (k + 1) + 1 ELSE 0
      /\ \A i \in 1..(Len(ts) - (k + 1) + 1) :
            SubSeq(ts, k + 1, Len(ts))[i] = ts[(k + 1) + i - 1]
  BY <1>3, <1>4, SubSeqProperties
<1>6. Len(InPeriod(ts)) = Len(ts) - k
  BY <1>1, <1>2, <1>5
<1>7. DOMAIN InPeriod(ts) = 1..(Len(ts) - k)
  BY <1>2, <1>5, <1>6
<1>8. ASSUME NEW i \in DOMAIN InPeriod(ts)
      PROVE  i + k \in DOMAIN ts /\ InPeriod(ts)[i] = ts[i + k]
  <2>1. i \in 1..(Len(ts) - k)
    BY <1>7
  <2>2. i + k \in 1..Len(ts)
    BY <1>1, <2>1
  <2>3. InPeriod(ts)[i] = ts[(k + 1) + i - 1]
    BY <1>1, <1>2, <1>5, <2>1
  <2>4. (k + 1) + i - 1 = i + k
    BY <1>1, <2>1
  <2> QED BY <2>2, <2>3, <2>4
<1> QED BY <1>1, <1>2, <1>5, <1>6, <1>8

\* It loses no failure but expired ones, and adds none.
LEMMA InPeriodRecent ==
    ASSUME NEW ts \in Seq(Ages)
    PROVE  Cardinality(DOMAIN InPeriod(ts) \ Expired(InPeriod(ts)))
               <= Cardinality(DOMAIN ts \ Expired(ts))
<1> DEFINE Old == DOMAIN InPeriod(ts) \ Expired(InPeriod(ts))
           T == DOMAIN ts \ Expired(ts)
<1>1. PICK k \in 0..Len(ts) :
          \A i \in DOMAIN InPeriod(ts) :
              i + k \in DOMAIN ts /\ InPeriod(ts)[i] = ts[i + k]
  BY InPeriodSuffix
<1>2. DOMAIN InPeriod(ts) \subseteq Nat /\ k \in Nat
  <2>1. InPeriod(ts) \in Seq(Ages)
    BY InPeriodSuffix
  <2> QED BY <2>1
<1> DEFINE f == [i \in Old |-> i + k]
<1>3. ASSUME NEW i \in Old PROVE i + k \in T
  BY <1>1 DEF Expired
<1>4. ASSUME NEW i \in Old, NEW j \in Old, f[i] = f[j] PROVE i = j
  BY <1>2, <1>4
<1>5. f \in Injection(Old, T)
  BY <1>3, <1>4 DEF Injection, IsInjective
<1>6. IsFiniteSet(T)
  BY Positions
<1> HIDE DEF Old, T, f
<1>7. Cardinality(Old) <= Cardinality(T)
  BY <1>5, <1>6, FS_Injection
<1> QED BY <1>7 DEF Old, T

-----------------------------------------------------------------------------
(* The operations on a circuit keep it well typed and sound.               *)

LEMMA InitialSound == InitialCircuit \in CircuitState /\ Sound(InitialCircuit)
<1> USE GatewayAssumption
<1>1. /\ <<>> \in Seq(Ages)
      /\ Timeout \in 0..Timeout
  OBVIOUS
<1>2. InitialCircuit \in CircuitState
  BY <1>1 DEF InitialCircuit, CircuitState, CircuitBreakerState
<1>3. DOMAIN InitialCircuit.failureTimestamps = {}
  BY DEF InitialCircuit
<1>4. Cardinality(RecentFailures(InitialCircuit)) = 0
  BY <1>3, FS_EmptySet DEF RecentFailures, Expired
<1>5. Sound(InitialCircuit)
  BY <1>4 DEF Sound, InitialCircuit
<1> QED BY <1>2, <1>5

LEMMA LaterSound ==
    ASSUME NEW b \in CircuitState, Sound(b)
    PROVE  Later(b) \in CircuitState /\ Sound(Later(b))
<1> USE GatewayAssumption
<1> DEFINE ts == b.failureTimestamps
           us == Later(b).failureTimestamps
           last == b.lastFailureTime
<1>1. /\ ts \in Seq(Ages)
      /\ last \in 0..Timeout
  BY DEF CircuitState
<1>2. /\ us = [i \in DOMAIN ts |-> Lesser(ts[i] + 1, MonitoringPeriod)]
      /\ Later(b).lastFailureTime = Lesser(last + 1, Timeout)
      /\ Later(b).state = b.state
      /\ Later(b).failures = b.failures
  BY DEF Later, CircuitState
<1>3. Later(b) = [b EXCEPT !.lastFailureTime = Lesser(last + 1, Timeout),
                        !.failureTimestamps = us]
  BY <1>2 DEF Later, CircuitState
<1> HIDE DEF ts, us, last
<1>4. \A i \in DOMAIN ts : ts[i] \in Ages
  BY <1>1
<1>5. \A i \in DOMAIN us : us[i] \in Ages /\ us[i] >= ts[i]
  BY <1>2, <1>4 DEF Lesser, Ages
<1>6. DOMAIN us = DOMAIN ts
  BY <1>2
<1>7. us \in Seq(Ages) /\ Later(b) \in CircuitState
  <2>1. us \in Seq(Ages)
    BY <1>1, <1>2, <1>5, <1>6
  <2>2. Lesser(last + 1, Timeout) \in 0..Timeout
    BY <1>1 DEF Lesser
  <2> QED BY <1>3, <2>1, <2>2 DEF CircuitState
<1>8. CASE b.state = "CLOSED"
  <2>1. DOMAIN us \ Expired(us) \in SUBSET (DOMAIN ts \ Expired(ts))
    BY <1>4, <1>5, <1>6 DEF Expired, Ages
  <2>2. /\ IsFiniteSet(DOMAIN ts \ Expired(ts))
        /\ Cardinality(DOMAIN ts \ Expired(ts)) \in Nat
        /\ Cardinality(DOMAIN us \ Expired(us)) \in Nat
    BY <1>1, <1>7, Positions
  <2>3. Cardinality(DOMAIN us \ Expired(us))
            <= Cardinality(DOMAIN ts \ Expired(ts))
    BY <2>1, <2>2, FS_Subset
  <2>4. Cardinality(DOMAIN ts \ Expired(ts)) < FailureThreshold
    BY <1>8 DEF Sound, RecentFailures, ts
  <2>5. Cardinality(DOMAIN us \ Expired(us)) < FailureThreshold
    BY <2>2, <2>3, <2>4
  <2> QED BY <1>2, <1>7, <1>8, <2>5 DEF Sound, RecentFailures, us
<1>9. CASE b.state = "HALF_OPEN"
  <2>1. /\ last >= Timeout
        /\ \A i \in DOMAIN ts : ts[i] >= MonitoringPeriod
    BY <1>9 DEF Sound, Rested, Quiet, ts, last
  <2>2. Lesser(last + 1, Timeout) >= Timeout
    BY <1>1, <2>1 DEF Lesser
  <2>3. \A i \in DOMAIN us : us[i] >= MonitoringPeriod
    BY <1>4, <1>5, <1>6, <2>1 DEF Ages
  <2> QED BY <1>2, <1>7, <1>9, <2>2, <2>3 DEF Sound, Rested, Quiet, us
<1>10. CASE b.state = "OPEN"
  <2>1. ASSUME NEW i \in DOMAIN us
        PROVE  us[i] >= Lesser(Lesser(last + 1, Timeout), MonitoringPeriod)
    <3>1. ts[i] >= Lesser(last, MonitoringPeriod)
      BY <1>6, <1>10 DEF Sound, ts, last
    <3>2. us[i] = Lesser(ts[i] + 1, MonitoringPeriod)
      BY <1>2, <1>6
    <3>3. ts[i] \in Ages
      BY <1>4, <1>6
    <3> QED BY <1>1, <3>1, <3>2, <3>3 DEF Lesser, Ages
  <2> QED BY <1>2, <1>7, <1>10, <2>1 DEF Sound, us
<1>11. b.state \in {"CLOSED", "OPEN", "HALF_OPEN"}
  BY DEF CircuitState, CircuitBreakerState
<1> QED BY <1>7, <1>8, <1>9, <1>10, <1>11

\* An open breaker that has rested is quiet, for MonitoringPeriod <= Timeout.
LEMMA GetStateSound ==
    ASSUME NEW b \in CircuitState, Sound(b)
    PROVE  GetState(b) \in CircuitState /\ Sound(GetState(b))
<1> USE GatewayAssumption
<1>1. CASE b.state = "OPEN" /\ Rested(b)
  <2> DEFINE c == [b EXCEPT !.state = "HALF_OPEN", !.successes = 0]
  <2>1. GetState(b) = c
    BY <1>1 DEF GetState
  <2>2. c \in CircuitState
    BY DEF CircuitState, CircuitBreakerState
  <2>3. /\ c.state = "HALF_OPEN"
        /\ c.lastFailureTime = b.lastFailureTime
        /\ c.failureTimestamps = b.failureTimestamps
        /\ b.lastFailureTime \in 0..Timeout
        /\ b.failureTimestamps \in Seq(Ages)
    BY DEF CircuitState
  <2>4. Lesser(b.lastFailureTime, MonitoringPeriod) = MonitoringPeriod
    BY <1>1, <2>3 DEF Rested, Lesser
  <2>5. Sound(c)
    BY <1>1, <2>3, <2>4 DEF Sound, Quiet, Rested
  <2> QED BY <2>1, <2>2, <2>5
<1>2. CASE ~(b.state = "OPEN" /\ Rested(b))
  BY <1>2 DEF GetState
<1> QED BY <1>1, <1>2

\* The filter alone.
LEMMA FilterSound ==
    ASSUME NEW b \in CircuitState, Sound(b)
    PROVE  LET filtered == [b EXCEPT !.failureTimestamps = InPeriod(@)]
           IN  filtered \in CircuitState /\ Sound(filtered)
<1> USE GatewayAssumption
<1> DEFINE ts == b.failureTimestamps
           us == InPeriod(ts)
           c == [b EXCEPT !.failureTimestamps = InPeriod(@)]
<1>1. ts \in Seq(Ages) /\ b.lastFailureTime \in 0..Timeout
  BY DEF CircuitState
<1>2. us \in Seq(Ages)
  BY <1>1, InPeriodSuffix
<1>3. /\ c.state = b.state
      /\ c.failures = b.failures
      /\ c.lastFailureTime = b.lastFailureTime
      /\ c.failureTimestamps = us
      /\ c \in CircuitState
  BY <1>2 DEF CircuitState
<1>4. \A i \in DOMAIN us : \E j \in DOMAIN ts : us[i] = ts[j]
  BY <1>1, InPeriodSuffix
<1>5. Cardinality(DOMAIN us \ Expired(us)) <= Cardinality(DOMAIN ts \ Expired(ts))
  BY <1>1, InPeriodRecent
<1>6. /\ Cardinality(DOMAIN us \ Expired(us)) \in Nat
      /\ Cardinality(DOMAIN ts \ Expired(ts)) \in Nat
  BY <1>1, <1>2, Positions
<1> HIDE DEF us, c
<1>7. Sound(c)
  BY <1>3, <1>4, <1>5, <1>6 DEF Sound, Rested, Quiet, RecentFailures
<1> QED BY <1>3, <1>7 DEF c

\* Closing relies on the breaker being quiet while HALF_OPEN.
LEMMA RecordSuccessSound ==
    ASSUME NEW b \in CircuitState, Sound(b)
    PROVE  RecordSuccess(b) \in CircuitState /\ Sound(RecordSuccess(b))
<1> USE GatewayAssumption
<1> DEFINE f == [b EXCEPT !.failureTimestamps = InPeriod(@)]
<1>1. f \in CircuitState /\ Sound(f)
  BY FilterSound
<1>2. f.state = b.state /\ f.successes = b.successes
  BY DEF CircuitState
<1>3. b.state \in {"CLOSED", "OPEN", "HALF_OPEN"} /\ b.successes \in Nat
  BY DEF CircuitState, CircuitBreakerState
<1>4. CASE b.state = "HALF_OPEN" /\ b.successes + 1 >= SuccessThreshold
  <2> DEFINE c == [f EXCEPT !.state = "CLOSED", !.failures = 0, !.successes = 0]
  <2>1. RecordSuccess(b) = c
    BY <1>3, <1>4 DEF RecordSuccess
  <2> HIDE DEF f
  <2>2. c \in CircuitState /\ c.state = "CLOSED" /\ c.failures = 0
    BY <1>1 DEF CircuitState, CircuitBreakerState
  <2>3. c.failureTimestamps = f.failureTimestamps
    BY <1>1 DEF CircuitState
  <2>4. RecentFailures(c) = {}
    BY <1>1, <1>2, <1>4, <2>3 DEF Sound, Quiet, RecentFailures, Expired
  <2>5. Cardinality(RecentFailures(c)) = 0
    BY <2>4, FS_EmptySet
  <2>6. Sound(c)
    BY <2>2, <2>5 DEF Sound
  <2> QED BY <2>1, <2>2, <2>6
<1>5. CASE b.state = "HALF_OPEN" /\ ~(b.successes + 1 >= SuccessThreshold)
  <2> DEFINE c == [f EXCEPT !.successes = @ + 1]
  <2>1. RecordSuccess(b) = c
    BY <1>3, <1>5 DEF RecordSuccess
  <2> HIDE DEF f
  <2>2. f.successes + 1 \in Nat
    BY <1>2, <1>3
  <2>3. c \in CircuitState
    BY <1>1, <2>2 DEF CircuitState
  <2>4. Sound(c)
    BY <1>1, <1>2, <1>5 DEF Sound, Rested, Quiet, CircuitState
  <2> QED BY <2>1, <2>3, <2>4
<1>6. CASE b.state = "CLOSED"
  <2> DEFINE c == [f EXCEPT !.failures = 0]
  <2>1. RecordSuccess(b) = c
    BY <1>6 DEF RecordSuccess
  <2> HIDE DEF f
  <2>2. c \in CircuitState
    BY <1>1 DEF CircuitState
  <2>3. Sound(c)
    BY <1>1, <1>2, <1>6 DEF Sound, RecentFailures, CircuitState
  <2> QED BY <2>1, <2>2, <2>3
<1>7. CASE b.state = "OPEN"
  <2>1. RecordSuccess(b) = f
    BY <1>7 DEF RecordSuccess
  <2> QED BY <1>1, <2>1
<1> QED BY <1>3, <1>4, <1>5, <1>6, <1>7

\* A recorded failure is the youngest, and a breaker it leaves CLOSED has
\* fewer than FailureThreshold in its whole list.
LEMMA RecordFailureSound ==
    ASSUME NEW b \in CircuitState
    PROVE  RecordFailure(b) \in CircuitState /\ Sound(RecordFailure(b))
<1> USE GatewayAssumption
<1> DEFINE c == Counted(b)
           ts == Append(b.failureTimestamps, 0)
<1>1. ts \in Seq(Ages)
  BY DEF CircuitState, Ages
<1>2. InPeriod(ts) \in Seq(Ages) /\ Len(InPeriod(ts)) \in Nat
  <2>1. InPeriod(ts) \in Seq(Ages)
    BY <1>1, InPeriodSuffix
  <2> QED BY <2>1
<1>3. c = [b EXCEPT !.lastFailureTime = 0, !.failureTimestamps = InPeriod(ts),
                    !.failures = Len(InPeriod(ts))]
  BY DEF Counted
<1> HIDE DEF c, ts
<1>4. /\ c \in CircuitState
      /\ c.lastFailureTime = 0
      /\ c.failureTimestamps = InPeriod(ts)
      /\ c.failures = Len(InPeriod(ts))
      /\ c.state = b.state
  <2> DEFINE us == InPeriod(ts)
  <2>1. us \in Seq(Ages) /\ Len(us) \in Nat /\ 0 \in 0..Timeout
    BY <1>2
  <2> HIDE DEF us
  <2> QED BY <1>3, <2>1 DEF CircuitState, us
<1>5. \A i \in DOMAIN InPeriod(ts) :
          InPeriod(ts)[i] >= Lesser(0, MonitoringPeriod)
  BY <1>2, ElementOfSeq DEF Lesser, Ages
<1>6. /\ Cardinality(RecentFailures(c)) <= Len(InPeriod(ts))
      /\ Cardinality(RecentFailures(c)) \in Nat
  BY <1>2, <1>4, Positions DEF RecentFailures
<1>7. b.state \in {"CLOSED", "OPEN", "HALF_OPEN"}
  BY DEF CircuitState, CircuitBreakerState
<1>8. CASE b.state = "HALF_OPEN"
  <2> DEFINE d == [c EXCEPT !.state = "OPEN", !.successes = 0]
  <2>1. RecordFailure(b) = d
    BY <1>8 DEF RecordFailure, c
  <2>2. d \in CircuitState
    BY <1>4 DEF CircuitState, CircuitBreakerState
  <2>3. /\ d.state = "OPEN"
        /\ d.lastFailureTime = 0
        /\ d.failureTimestamps = InPeriod(ts)
    BY <1>4 DEF CircuitState
  <2>4. Sound(d)
    BY <1>5, <2>3 DEF Sound
  <2> QED BY <2>1, <2>2, <2>4
<1>9. CASE b.state = "CLOSED" /\ c.failures >= FailureThreshold
  <2> DEFINE d == [c EXCEPT !.state = "OPEN"]
  <2>1. RecordFailure(b) = d
    BY <1>2, <1>4, <1>9 DEF RecordFailure, c
  <2>2. d \in CircuitState
    BY <1>4 DEF CircuitState, CircuitBreakerState
  <2>3. /\ d.state = "OPEN"
        /\ d.lastFailureTime = 0
        /\ d.failureTimestamps = InPeriod(ts)
    BY <1>4 DEF CircuitState
  <2>4. Sound(d)
    BY <1>5, <2>3 DEF Sound
  <2> QED BY <2>1, <2>2, <2>4
<1>10. CASE b.state = "CLOSED" /\ ~(c.failures >= FailureThreshold)
  <2>1. c.failures < FailureThreshold
    BY <1>2, <1>4, <1>10
  <2>2. RecordFailure(b) = c
    BY <1>10, <2>1 DEF RecordFailure, c
  <2>3. Sound(c)
    BY <1>2, <1>4, <1>6, <1>10, <2>1 DEF Sound
  <2> QED BY <1>4, <2>2, <2>3
<1>11. CASE b.state = "OPEN"
  <2>1. RecordFailure(b) = c
    BY <1>11 DEF RecordFailure, c
  <2>2. Sound(c)
    BY <1>4, <1>5, <1>11 DEF Sound
  <2> QED BY <1>4, <2>1, <2>2
<1> QED BY <1>7, <1>8, <1>9, <1>10, <1>11

LEMMA RecordErrorResponseSound ==
    ASSUME NEW b \in CircuitState, Sound(b)
    PROVE  RecordErrorResponse(b) \in CircuitState /\ Sound(RecordErrorResponse(b))
BY RecordSuccessSound, RecordFailureSound DEF RecordErrorResponse

-----------------------------------------------------------------------------
(* The invariant.                                                          *)

LEMMA InitIInv == Init => IInv
<1> SUFFICES ASSUME Init PROVE IInv
  OBVIOUS
<1>1. Idle \in Call
  BY GatewayAssumption DEF Idle, Call
<1>2. TypeOK
  BY <1>1, InitialSound, GatewayAssumption DEF Init, TypeOK
<1> QED BY <1>2, InitialSound DEF Init, IInv

\* Ending a request leaves a table of requests.
LEMMA EndTypes ==
    ASSUME TypeOK, NEW r \in Requests, End(r)
    PROVE  call' \in [Requests -> Call]
<1>1. Idle \in Call
  BY GatewayAssumption DEF Idle, Call
<1> QED BY <1>1 DEF TypeOK, End

LEMMA NextIInv == IInv /\ [Next]_vars => IInv'
<1> SUFFICES ASSUME IInv, [Next]_vars PROVE IInv'
  OBVIOUS
<1> USE GatewayAssumption
<1>1. breaker \in CircuitState /\ Sound(breaker) /\ TypeOK
  BY DEF IInv, TypeOK
<1>2. ASSUME NEW r \in Requests, Send(r) PROVE IInv'
  <2>1. breaker' \in CircuitState /\ Sound(breaker)'
    BY <1>1, <1>2, GetStateSound DEF Send
  <2>2. call' \in [Requests -> Call]
    BY <1>1, <1>2 DEF Send, TypeOK, Call
  <2> QED BY <1>1, <1>2, <2>1, <2>2 DEF Send, IInv, TypeOK
<1>3. ASSUME NEW r \in Requests, Succeed(r) PROVE IInv'
  <2>1. breaker' \in CircuitState /\ Sound(breaker)'
    BY <1>1, <1>3, RecordSuccessSound DEF Succeed
  <2> QED BY <1>1, <1>3, <2>1, EndTypes DEF Succeed, IInv, TypeOK
<1>4. ASSUME NEW r \in Requests, ErrorResponse(r) PROVE IInv'
  <2>1. breaker' \in CircuitState /\ Sound(breaker)'
    BY <1>1, <1>4, RecordErrorResponseSound DEF ErrorResponse
  <2> QED BY <1>1, <1>4, <2>1, EndTypes DEF ErrorResponse, IInv, TypeOK
<1>5. ASSUME NEW r \in Requests, Retry(r) PROVE IInv'
  <2>1. call[r] \in Call
    BY <1>1 DEF TypeOK
  <2>2. NextAttempt(call[r].attempt) \in 1..MaxAttempts
    BY <1>5, <2>1 DEF Retry, MayRetry, NextAttempt, Call
  <2>3. [call[r] EXCEPT !.pc = "pausing",
                        !.attempt = NextAttempt(@)] \in Call
    BY <2>1, <2>2 DEF Call
  <2>4. call' = [call EXCEPT ![r] = [call[r] EXCEPT !.pc = "pausing",
                                         !.attempt = NextAttempt(@)]]
    BY <1>1, <1>5 DEF Retry, TypeOK
  <2>5. call' \in [Requests -> Call]
    BY <1>1, <2>3, <2>4 DEF TypeOK
  <2> QED BY <1>1, <1>5, <2>5 DEF Retry, IInv, TypeOK
<1>6. ASSUME NEW r \in Requests, GiveUp(r) PROVE IInv'
  <2>1. breaker' \in CircuitState /\ Sound(breaker)'
    BY <1>1, <1>6, RecordFailureSound DEF GiveUp
  <2> QED BY <1>1, <1>6, <2>1, EndTypes DEF GiveUp, IInv, TypeOK
<1>7. ASSUME NEW r \in Requests, Resend(r) PROVE IInv'
  <2>1. call' \in [Requests -> Call]
    BY <1>1, <1>7 DEF Resend, TypeOK, Call
  <2> QED BY <1>1, <1>7, <2>1 DEF Resend, IInv, TypeOK
<1>8. ASSUME NEW r \in Requests, AnswerTimeout(r) PROVE IInv'
  <2>1. call' \in [Requests -> Call]
    BY <1>1, <1>8 DEF AnswerTimeout, TypeOK, Call
  <2> QED BY <1>1, <1>8, <2>1 DEF AnswerTimeout, IInv, TypeOK
<1>9. CASE Reject
  <2>1. breaker' \in CircuitState /\ Sound(breaker)'
    BY <1>1, <1>9, LaterSound, GetStateSound DEF Reject
  <2> QED BY <1>1, <1>9, <2>1 DEF Reject, IInv, TypeOK
<1>10. CASE Tick
  <2>1. breaker' \in CircuitState /\ Sound(breaker)'
    BY <1>1, <1>10, LaterSound DEF Tick
  <2> QED BY <1>1, <1>10, <2>1 DEF Tick, IInv, TypeOK
<1>11. CASE GoDown
  <2>1. outages' \in 0..MaxOutages
    BY <1>1, <1>11 DEF GoDown, TypeOK
  <2> QED BY <1>1, <1>11, <2>1 DEF GoDown, IInv, TypeOK
<1>12. CASE ComeUp
  BY <1>1, <1>12 DEF ComeUp, IInv, TypeOK
<1>13. CASE Restart
  <2>1. Idle \in Call
    BY DEF Idle, Call
  <2> QED BY <1>1, <1>13, <2>1, InitialSound DEF Restart, IInv, TypeOK
<1>14. CASE UNCHANGED vars
  BY <1>1, <1>14 DEF vars, IInv, TypeOK
<1> QED BY <1>2, <1>3, <1>4, <1>5, <1>6, <1>7, <1>8, <1>9, <1>10, <1>11, <1>12,
           <1>13, <1>14 DEF Next, ProxyRequest

LEMMA Invariance == Spec => []IInv
<1> QED BY InitIInv, NextIInv, PTL DEF Spec

-----------------------------------------------------------------------------
(* The theorems.                                                           *)

\* The variables keep the types of the code: no list of timestamps holds an
\* age that is none, no request makes more than MaxAttempts attempts.
THEOREM TypeCorrect == Spec => []TypeOK
<1>1. IInv => TypeOK
  BY DEF IInv
<1> QED BY <1>1, Invariance, PTL

\* A HALF_OPEN breaker remembers no failure of the monitoring period and a
\* CLOSED one fewer than FailureThreshold, whatever answers arrive late.
THEOREM CleanSlateAlways == Spec => []CleanSlate
<1>1. IInv => CleanSlate
  <2> SUFFICES ASSUME IInv PROVE CleanSlate
    OBVIOUS
  <2>1. breaker.state = "HALF_OPEN" => RecentFailures(breaker) = {}
    BY GatewayAssumption
    DEF IInv, Sound, Quiet, RecentFailures, Expired, TypeOK, CircuitState
  <2> QED BY <2>1 DEF IInv, Sound, CleanSlate
<1> QED BY <1>1, Invariance, PTL

\* Until the breaker closes again it admits nothing within Timeout of the
\* last recorded failure.
THEOREM CoolDownObserved == Spec => AdmittedAfterCoolDown
<1>1. ASSUME IInv, [Next]_vars, NEW r \in Requests,
             call[r].pc = "idle", call'[r].pc = "sending",
             breaker.state # "CLOSED"
      PROVE  breaker.lastFailureTime >= Timeout /\ CooledDown
  <2> USE GatewayAssumption
  <2>1. /\ breaker.state \in {"OPEN", "HALF_OPEN"}
        /\ breaker.lastFailureTime \in 0..Timeout
        /\ Sound(breaker)
        /\ call \in [Requests -> Call]
    BY <1>1 DEF IInv, TypeOK, CircuitState, CircuitBreakerState
  <2>2. Send(r)
    <3>1. ASSUME NEW q \in Requests, Send(q) PROVE q = r
      BY <1>1, <2>1, <3>1 DEF Send
    <3>2. ~(Reject \/ Tick \/ GoDown \/ ComeUp \/ UNCHANGED vars)
      BY <1>1 DEF Reject, Tick, GoDown, ComeUp, vars
    <3>3. ~Restart
      BY <1>1 DEF Restart, Idle
    <3>4. ASSUME NEW q \in Requests PROVE ~ProxyRequest(q)
      BY <1>1, <2>1
      DEF ProxyRequest, Succeed, ErrorResponse, Retry, GiveUp, Resend, End, Idle
    <3>5. ASSUME NEW q \in Requests PROVE ~AnswerTimeout(q)
      BY <1>1, <2>1 DEF AnswerTimeout
    <3> QED BY <1>1, <3>1, <3>2, <3>3, <3>4, <3>5 DEF Next
  <2>3. CASE breaker.state = "OPEN"
    <3>1. Rested(breaker)
      BY <2>2, <2>3 DEF Send, CanExecute, GetState
    <3>2. Lesser(breaker.lastFailureTime, MonitoringPeriod) = MonitoringPeriod
      BY <2>1, <3>1 DEF Rested, Lesser
    <3> QED BY <2>1, <2>3, <3>1, <3>2 DEF Rested, Sound, CooledDown
  <2>4. CASE breaker.state = "HALF_OPEN"
    BY <2>1, <2>4 DEF Sound, Rested, Quiet, CooledDown
  <2> QED BY <2>1, <2>3, <2>4
<1>2. IInv /\ [Next]_vars =>
        [\A r \in Requests :
            /\ call[r].pc = "idle" /\ call'[r].pc = "sending"
            /\ breaker.state # "CLOSED"
            => breaker.lastFailureTime >= Timeout /\ CooledDown]_vars
  BY <1>1
<1> QED BY <1>2, Invariance, PTL DEF Spec, AdmittedAfterCoolDown

-----------------------------------------------------------------------------
(* What stands before the proxy: module Access.                            *)

-----------------------------------------------------------------------------
(* The rate limit.                                                         *)

\* A route with a limit.
Limited(r) == "limit" \in DOMAIN r /\ r.limit \in Nat

LEMMA CombinatorsLimited ==
    /\ \A gateway, to : Limited(G!Route(gateway, to))
    /\ \A r : Limited(r) => Limited(G!Public(r)) /\ Limited(G!Query(r))
                            /\ Limited(G!NoQuery(r)) /\ Limited(G!GraphQL(r))
    /\ \A r, d : Limited(r) => Limited(G!Takes(d, r)) /\ Limited(G!Shows(d, r))
                               /\ Limited(G!Answers(d, r))
    /\ \A r, s : \A n \in Nat : Limited(r) => Limited(G!For(s, n, r))
<1>1. \A gateway, to : Limited(G!Route(gateway, to))
  BY DEF Limited, G!Route, G!CmsDefaultLimit, G!DiscoveryDefaultLimit
<1>2. \A r : Limited(r) => Limited(G!Public(r)) /\ Limited(G!Query(r))
                            /\ Limited(G!NoQuery(r))
  BY DEF Limited, G!Public, G!Query, G!NoQuery
<1>3. \A r : Limited(r) => Limited(G!GraphQL(r))
  BY <1>2 DEF Limited, G!GraphQL
<1>4. \A r, d : Limited(r) => Limited(G!Takes(d, r)) /\ Limited(G!Shows(d, r))
                               /\ Limited(G!Answers(d, r))
  BY DEF Limited, G!Takes, G!Shows, G!Answers
<1>5. \A r, s : \A n \in Nat : Limited(r) => Limited(G!For(s, n, r))
  BY DEF Limited, G!For
<1> QED BY <1>1, <1>2, <1>3, <1>4, <1>5

LEMMA RoutesLimited == \A r \in G!Routes : Limited(r)
<1>1. \A r \in {G!getPrograms, G!getProgram, G!createProgram, G!updateProgram,
          G!deleteProgram} : Limited(r)
  BY CombinatorsLimited
  DEF G!getPrograms, G!getProgram, G!createProgram, G!updateProgram,
      G!deleteProgram
<1>2. \A r \in {G!getEpisodes, G!getEpisode, G!createEpisode, G!updateEpisode,
          G!deleteEpisode} : Limited(r)
  BY CombinatorsLimited
  DEF G!getEpisodes, G!getEpisode, G!createEpisode, G!updateEpisode,
      G!deleteEpisode
<1>3. \A r \in {G!register, G!login, G!refreshToken,
          G!getCurrentUser} : Limited(r)
  BY CombinatorsLimited
  DEF G!register, G!login, G!refreshToken, G!getCurrentUser
<1>4. \A r \in {G!createMetadata, G!getMetadata, G!getMetadataByContentId,
          G!updateMetadata, G!getVersionHistory} : Limited(r)
  BY CombinatorsLimited
  DEF G!createMetadata, G!getMetadata, G!getMetadataByContentId,
      G!updateMetadata, G!getVersionHistory
<1>5. \A r \in {G!uploadMedia, G!getMedia, G!getMediaByContentId, G!deleteMedia,
          G!generateThumbnail} : Limited(r)
  BY CombinatorsLimited
  DEF G!uploadMedia, G!getMedia, G!getMediaByContentId, G!deleteMedia,
      G!generateThumbnail
<1>6. \A r \in {G!createJob, G!getJobs, G!getJob, G!retryJob,
          G!deleteJob} : Limited(r)
  BY CombinatorsLimited
  DEF G!createJob, G!getJobs, G!getJob, G!retryJob, G!deleteJob,
      G!CmsDefaultLimit
<1>7. \A r \in {G!discoverySearch, G!discoveryPrograms, G!discoveryProgram,
          G!discoveryEpisodes, G!discoveryTrending, G!discoveryPopular,
          G!search} : Limited(r)
  BY CombinatorsLimited
  DEF G!discoverySearch, G!discoveryPrograms, G!discoveryProgram,
      G!discoveryEpisodes, G!discoveryTrending, G!discoveryPopular,
      G!search, G!SearchLimit
<1>8. \A r \in {G!qlPrograms, G!qlProgram, G!qlEpisodes, G!qlSearch,
          G!qlTrending, G!qlPopular} : Limited(r)
  BY CombinatorsLimited
  DEF G!qlPrograms, G!qlProgram, G!qlEpisodes, G!qlSearch, G!qlTrending,
      G!qlPopular
<1> QED BY <1>1, <1>2, <1>3, <1>4, <1>5, <1>6, <1>7, <1>8 DEF G!Routes

LEMMA AllLimited == \A r \in AllRoutes : Limited(r)
<1>1. \A to : Limited(Direct(to))
  BY CombinatorsLimited DEF Direct, Limited
<1> QED BY <1>1, RoutesLimited DEF AllRoutes

\* Hits of this window that are no longer to be had: those of requests let
\* through, and of requests between two guards.
Own == IF phase = "halfway" /\ first = "now" THEN 1 ELSE 0
Spent == passed * Guards + between["now"] + Own

\* What was spent has been counted in this window, or spared by a straddling
\* request.
Within ==
    /\ route \in AllRoutes
    /\ hits \in 0..(Limit + 1)
    /\ between \in [Windows -> Nat]
    /\ between["now"] + between["before"] <= Neighbours
    /\ first \in Windows
    /\ passed \in Nat /\ straddling \in Nat
    /\ straddling <= passed /\ passed <= hits
    /\ Spent <= hits + straddling /\ Spent <= Limit + straddling

LEMMA LimitIsNat ==
    ASSUME route \in AllRoutes
    PROVE  Limit \in Nat /\ Guards \in {1, 2}
<1>1. route.limit \in Nat
  BY AllLimited DEF Limited
<1> QED BY <1>1, AccessAssumption DEF Limit, Guards

\* The requests between two guards, after a step.
LEMMA BetweenTyped ==
    ASSUME Within
    PROVE  /\ between["now"] \in Nat /\ between["before"] \in Nat /\ Own \in {0, 1}
           /\ between = [w \in Windows |-> between[w]]
BY DEF Within, Windows, Own

\* Arithmetic of what is spent.
LEMMA Product == \A n \in Nat, g \in {1, 2} : n * g \in Nat
OBVIOUS

LEMMA SpentIsNat ==
    \A n, b, o \in Nat, g \in {1, 2} : n * g + b + o \in Nat
OBVIOUS

LEMMA SpendNothing ==
    \A s, sNew, h, hNew, t, l \in Nat :
        sNew <= s /\ s <= h + t /\ s <= l + t /\ h <= hNew => sNew <= hNew + t /\ sNew <= l + t
OBVIOUS

LEMMA SpendOne ==
    \A s, sNew, h, t, tNew, l \in Nat :
        sNew - tNew <= s - t + 1 /\ s <= h + t /\ h + 1 <= l
        => sNew <= h + 1 + tNew /\ sNew <= l + tNew
OBVIOUS

\* A hit that is refused spends nothing.
LEMMA RefusedHit ==
    ASSUME Within, Hit, UNCHANGED <<route, history>>,
           between' \in [Windows -> Nat], first' \in Windows,
           between'["now"] <= between["now"], between'["before"] <= between["before"],
           Own' \in Nat, Own' <= Own
    PROVE  Within'
<1>1. Limit \in Nat /\ Guards \in {1, 2} /\ Limit' = Limit /\ Guards' = Guards
  BY LimitIsNat DEF Within, Limit, Guards
<1>2. hits' \in 0..(Limit + 1) /\ hits' >= hits
  BY <1>1 DEF Within, Hit
<1>3. /\ between'["now"] \in Nat /\ between'["before"] \in Nat
      /\ between["now"] \in Nat /\ between["before"] \in Nat /\ Own \in Nat
  BY BetweenTyped DEF Windows
<1>4. /\ passed \in Nat /\ straddling \in Nat /\ hits \in Nat /\ hits' \in Nat
      /\ passed' = passed /\ straddling' = straddling
  BY <1>1, <1>2 DEF Within, history
<1>5. Spent \in Nat /\ Spent' \in Nat
  BY <1>1, <1>3, <1>4, SpentIsNat DEF Spent
<1>6. Spent' <= Spent
  <2>1. passed' * Guards' = passed * Guards /\ passed * Guards \in Nat
    BY <1>1, <1>4, Product
  <2> QED BY <1>3, <2>1 DEF Spent
<1>7. Spent <= hits + straddling /\ Spent <= Limit + straddling
  BY DEF Within
<1>8. Spent' <= hits' + straddling' /\ Spent' <= Limit' + straddling'
  BY <1>1, <1>2, <1>4, <1>5, <1>6, <1>7, SpendNothing
<1>9. between["now"] + between["before"] <= Neighbours /\ passed <= hits /\ straddling <= passed
  BY DEF Within
<1>10. between'["now"] + between'["before"] <= Neighbours
  BY <1>3, <1>9, AccessAssumption
<1>11. passed' <= hits' /\ straddling' <= passed'
  BY <1>2, <1>4, <1>9
<1> QED BY <1>1, <1>2, <1>4, <1>8, <1>10, <1>11 DEF Within

\* A hit that is not refused is one of at most Limit, and spent is what it adds.
LEMMA GrantedHit ==
    ASSUME Within, Hit, ~Refused, UNCHANGED route,
           between' \in [Windows -> Nat], first' \in Windows,
           between'["now"] + between'["before"] <= Neighbours,
           Own' \in Nat,
           passed' \in {passed, passed + 1}, straddling' \in Nat,
           straddling' <= passed', straddling' >= straddling,
           passed' * Guards + between'["now"] + Own' - straddling'
               <= passed * Guards + between["now"] + Own - straddling + 1
    PROVE  Within'
<1>1. Limit \in Nat /\ Guards \in {1, 2} /\ Limit' = Limit /\ Guards' = Guards
  BY LimitIsNat DEF Within, Limit, Guards
<1>2. hits' = hits + 1 /\ hits' \in 0..Limit
  BY <1>1 DEF Within, Hit, Refused, Over
<1>3. /\ between'["now"] \in Nat /\ between'["before"] \in Nat
      /\ between["now"] \in Nat /\ between["before"] \in Nat /\ Own \in Nat
  BY BetweenTyped DEF Windows
<1>4. /\ passed \in Nat /\ passed' \in Nat /\ straddling \in Nat /\ hits \in Nat
      /\ passed <= hits
  BY <1>1 DEF Within
<1>5. Spent \in Nat /\ Spent' \in Nat
  BY <1>1, <1>3, <1>4, SpentIsNat DEF Spent
<1>6. Spent' - straddling' <= Spent - straddling + 1
  <2>1. /\ passed' * Guards' = passed' * Guards
        /\ passed' * Guards \in Nat /\ passed * Guards \in Nat
    BY <1>1, <1>4, Product
  <2>2. /\ Spent' = passed' * Guards + between'["now"] + Own'
        /\ Spent = passed * Guards + between["now"] + Own
    BY <2>1 DEF Spent
  <2> HIDE DEF Spent
  <2> QED BY <1>3, <1>4, <2>1, <2>2
<1>7. Spent <= hits + straddling
  BY DEF Within
<1>8. Spent' <= hits' + straddling' /\ Spent' <= Limit' + straddling'
  <2>1. hits + 1 <= Limit
    BY <1>1, <1>2, <1>4
  <2>2. Spent' <= hits + 1 + straddling' /\ Spent' <= Limit + straddling'
    <3> DEFINE s == Spent  sNew == Spent'  tNew == straddling'
    <3>1. /\ s \in Nat /\ sNew \in Nat /\ tNew \in Nat
          /\ sNew - tNew <= s - straddling + 1 /\ s <= hits + straddling
      BY <1>5, <1>6, <1>7
    <3> HIDE DEF s, sNew, tNew
    <3>2. sNew <= hits + 1 + tNew /\ sNew <= Limit + tNew
      BY <1>1, <1>4, <2>1, <3>1, SpendOne
    <3> QED BY <3>2 DEF s, sNew, tNew
  <2> QED BY <1>1, <1>2, <2>2
<1>9. passed' <= hits'
  BY <1>2, <1>4
<1>10. route' \in AllRoutes /\ hits' \in 0..(Limit' + 1)
  BY <1>1, <1>2 DEF Within
<1> QED BY <1>4, <1>8, <1>9, <1>10 DEF Within

LEMMA WithinInit == AccessInit => Within
<1> SUFFICES ASSUME AccessInit PROVE Within
  OBVIOUS
<1>1. Limit \in Nat /\ Guards \in {1, 2} /\ Neighbours \in Nat
  BY LimitIsNat, AccessAssumption DEF AccessInit
<1> QED BY <1>1 DEF AccessInit, Within, Spent, Own, Windows

\* What a pass adds: a hit for each guard, but for a spared one.
LEMMA Multiply ==
    ASSUME Within
    PROVE  /\ (passed + 1) * Guards = passed * Guards + Guards
           /\ passed * Guards \in Nat /\ Guards \in {1, 2}
BY LimitIsNat DEF Within

LEMMA CountRequestKeepsWithin == ASSUME Within, CountRequest PROVE Within'
<1> USE DEF Answer, GoesOn
<1>1. /\ Hit /\ route' = route /\ between' = between /\ phase = "sent" /\ Own = 0
      /\ between["now"] \in Nat /\ between["before"] \in Nat
  BY BetweenTyped DEF CountRequest, Own
<1>2. CASE Refused
  <2>1. phase' = "done" /\ UNCHANGED <<first, history>>
    BY <1>2 DEF CountRequest
  <2>2. Own' = 0
    BY <2>1 DEF Own
  <2> QED BY <1>1, <2>1, <2>2, RefusedHit DEF Within
<1>3. CASE ~Refused /\ Guards = 1
  <2>1. phase' = "counted" /\ first' = first /\ passed' = passed + 1 /\ straddling' = straddling
    BY <1>3 DEF CountRequest, Pass
  <2>2. Own' = 0
    BY <2>1 DEF Own
  <2>3. passed' * Guards + between'["now"] + Own' - straddling'
           <= passed * Guards + between["now"] + Own - straddling + 1
    BY <1>1, <1>3, <2>1, <2>2, Multiply DEF Within
  <2> QED BY <1>1, <1>3, <2>1, <2>2, <2>3, GrantedHit DEF Within
<1>4. CASE ~Refused /\ Guards = 2
  <2>1. phase' = "halfway" /\ first' = "now" /\ UNCHANGED history
    BY <1>4 DEF CountRequest
  <2>2. Own' = 1 /\ passed' = passed /\ straddling' = straddling
    BY <2>1 DEF Own, history
  <2>3. passed' * Guards + between'["now"] + Own' - straddling'
           <= passed * Guards + between["now"] + Own - straddling + 1
    BY <1>1, <2>2, Multiply DEF Within
  <2> QED BY <1>1, <1>4, <2>1, <2>2, <2>3, GrantedHit DEF Within, Windows
<1> QED BY <1>2, <1>3, <1>4, Multiply

LEMMA CountAgainKeepsWithin == ASSUME Within, CountAgain PROVE Within'
<1> USE DEF Answer, GoesOn
<1>1. /\ Hit /\ route' = route /\ between' = between /\ first' = first /\ phase = "halfway"
      /\ between["now"] \in Nat /\ between["before"] \in Nat /\ Own \in {0, 1}
  BY BetweenTyped DEF CountAgain
<1>2. CASE Refused
  <2>1. phase' = "done" /\ UNCHANGED history
    BY <1>2 DEF CountAgain
  <2>2. Own' = 0
    BY <2>1 DEF Own
  <2> QED BY <1>1, <2>1, <2>2, RefusedHit DEF Within
<1>3. CASE ~Refused
  <2>1. phase' = "counted" /\ Pass(first)
    BY <1>3 DEF CountAgain
  <2>2. Own' = 0 /\ passed' = passed + 1
    BY <2>1 DEF Own, Pass
  <2>3. straddling' = straddling + 1 - Own
    BY <1>1, <2>1 DEF Own, Pass, Within, Windows
  <2>4. passed' * Guards + between'["now"] + Own' - straddling'
           <= passed * Guards + between["now"] + Own - straddling + 1
    BY <1>1, <2>2, <2>3, Multiply DEF Within
  <2> QED BY <1>1, <1>3, <2>2, <2>3, <2>4, GrantedHit DEF Within
<1> QED BY <1>2, <1>3

LEMMA OtherClientKeepsWithin == ASSUME Within, OtherClient PROVE Within'
<1>1. /\ Hit /\ route' = route /\ first' = first /\ Own' = Own
      /\ between["now"] \in Nat /\ between["before"] \in Nat /\ Own \in {0, 1}
      /\ between \in [Windows -> Nat]
  BY BetweenTyped DEF OtherClient, Own, Within
<1>2. CASE Refused
  <2>1. UNCHANGED <<between, history>>
    BY <1>2 DEF OtherClient
  <2> QED BY <1>1, <2>1, RefusedHit DEF Within
<1>3. CASE ~Refused /\ Guards = 1
  <2>1. between' = between /\ passed' = passed + 1 /\ straddling' = straddling
    BY <1>3 DEF OtherClient, Pass
  <2>2. passed' * Guards + between'["now"] + Own' - straddling'
           <= passed * Guards + between["now"] + Own - straddling + 1
    BY <1>1, <1>3, <2>1, Multiply DEF Within
  <2> QED BY <1>1, <1>3, <2>1, <2>2, GrantedHit DEF Within
<1>4. CASE ~Refused /\ Guards = 2
  <2>1. /\ between["now"] + between["before"] < Neighbours
        /\ between' = [between EXCEPT !["now"] = @ + 1]
        /\ passed' = passed /\ straddling' = straddling
    BY <1>4 DEF OtherClient, history
  <2>2. /\ between' \in [Windows -> Nat]
        /\ between'["now"] = between["now"] + 1 /\ between'["before"] = between["before"]
    BY <1>1, <2>1 DEF Windows
  <2>3. between'["now"] + between'["before"] <= Neighbours
    BY <1>1, <2>1, <2>2, AccessAssumption
  <2>4. passed' * Guards + between'["now"] + Own' - straddling'
           <= passed * Guards + between["now"] + Own - straddling + 1
    BY <1>1, <2>1, <2>2, Multiply DEF Within
  <2> QED BY <1>1, <1>4, <2>1, <2>2, <2>3, <2>4, GrantedHit DEF Within
<1> QED BY <1>2, <1>3, <1>4, Multiply

LEMMA OtherClientAgainKeepsWithin == ASSUME Within, OtherClientAgain PROVE Within'
<1>1. PICK w \in Windows :
          /\ between[w] > 0 /\ between' = [between EXCEPT ![w] = @ - 1]
          /\ Hit
          /\ IF Refused THEN UNCHANGED history ELSE Pass(w)
  BY DEF OtherClientAgain
<1>2. /\ route' = route /\ first' = first /\ Own' = Own
      /\ between["now"] \in Nat /\ between["before"] \in Nat /\ Own \in {0, 1}
      /\ between \in [Windows -> Nat]
  BY BetweenTyped DEF OtherClientAgain, Own, Within
<1>3. /\ between' \in [Windows -> Nat]
      /\ between'["now"] = between["now"] - (IF w = "now" THEN 1 ELSE 0)
      /\ between'["before"] = between["before"] - (IF w = "before" THEN 1 ELSE 0)
  BY <1>1, <1>2 DEF Windows
<1>4. /\ between'["now"] <= between["now"] /\ between'["before"] <= between["before"]
      /\ between'["now"] + between'["before"] <= Neighbours
  BY <1>2, <1>3, AccessAssumption DEF Within
<1>5. CASE Refused
  BY <1>1, <1>2, <1>3, <1>4, <1>5, RefusedHit DEF Within
<1>6. CASE ~Refused
  <2>1. /\ passed' = passed + 1
        /\ straddling' = straddling + (IF w = "before" THEN 1 ELSE 0)
    BY <1>1, <1>6 DEF Pass, Within
  <2>2. passed' * Guards + between'["now"] + Own' - straddling'
           <= passed * Guards + between["now"] + Own - straddling + 1
    BY <1>2, <1>3, <2>1, Multiply DEF Within, Windows
  <2> QED BY <1>1, <1>2, <1>3, <1>4, <1>6, <2>1, <2>2, GrantedHit DEF Within
<1> QED BY <1>5, <1>6

LEMMA WindowKeepsWithin == ASSUME Within, WindowEnds PROVE Within'
<1>1. Limit \in Nat /\ Guards \in {1, 2} /\ Limit' = Limit /\ Guards' = Guards
  BY LimitIsNat DEF WindowEnds, Within, Limit, Guards
<1>2. /\ between' \in [Windows -> Nat] /\ between'["now"] = 0
      /\ between'["before"] = between["now"] + between["before"]
  BY BetweenTyped DEF WindowEnds, Windows
<1>3. Own' = 0
  BY DEF WindowEnds, Own
<1> QED
  BY <1>1, <1>2, <1>3, BetweenTyped DEF WindowEnds, Within, Spent, Windows

LEMMA WithinNext ==
    ASSUME Within, [AccessNext]_accessVars
    PROVE  Within'
<1> DEFINE Counts == CountRequest \/ CountAgain \/ OtherClient \/ OtherClientAgain
<1>1. CASE Counts
  BY <1>1, CountRequestKeepsWithin, CountAgainKeepsWithin, OtherClientKeepsWithin,
     OtherClientAgainKeepsWithin
<1>2. CASE WindowEnds
  BY <1>2, WindowKeepsWithin
<1>3. CASE UNCHANGED <<route, hits, between, first, history>> /\ Own' = Own
  BY <1>3 DEF Within, Limit, Guards, Spent, history
<1>4. \/ Counts \/ WindowEnds
      \/ UNCHANGED <<route, hits, between, first, history>> /\ Own' = Own
  BY DEF AccessNext, accessVars, limits, SendRequest, TrackerFails, GatewayAuthenticates,
     GatewayChecksRoles, GatewayValidates, ServiceAuthenticates,
     ServiceChecksRoles, ServiceValidates, TokenExpires, BlockEnds,
     NextRequest, Answer, GoesOn, Authenticate, CheckRoles, Own
<1> QED BY <1>1, <1>2, <1>3, <1>4

\* However many requests of one address come in a window, and whatever falls between
\* the guards of each (other requests, the end of the window, of an earlier block),
\* each of those let through spends the limit of the route once for every guard,
\* unless that guard counted it in an earlier window.
THEOREM LimitHolds == AccessSpec => []ForwardedWithinLimit
<1>1. Within => ForwardedWithinLimit
  <2> SUFFICES ASSUME Within PROVE ForwardedWithinLimit
    OBVIOUS
  <2>1. between["now"] \in Nat /\ Own \in Nat /\ passed * Guards \in Nat /\ Limit \in Nat
    BY BetweenTyped, Multiply, LimitIsNat DEF Within
  <2> QED BY <2>1 DEF Within, Spent, ForwardedWithinLimit
<1> QED BY <1>1, WithinInit, WithinNext, PTL DEF AccessSpec

\* What a request has: its token, the user the guards made of it, and its answer.
RequestTyped ==
    /\ phase \in Phases /\ (phase = "done" <=> status # 0)
    /\ token \in Roles \cup {"none", "expired"} /\ user \in Roles \cup {"nobody"}
    /\ status \in {0, 200, 400, 401, 403, 406, 429, 500}
    /\ by \in {"nobody", "gateway", "service"}
    /\ blocked \in {"no", "now", "before"}

LEMMA RequestTypedNext ==
    ASSUME RequestTyped, [AccessNext]_accessVars
    PROVE  RequestTyped'
<1> USE DEF Answer, GoesOn, Phases
<1>1. CASE SendRequest \/ NextRequest \/ TokenExpires
  BY <1>1 DEF RequestTyped, SendRequest, NextRequest, TokenExpires, limits
<1>2. CASE OtherClient \/ OtherClientAgain \/ WindowEnds \/ BlockEnds \/ UNCHANGED accessVars
  BY <1>2 DEF RequestTyped, OtherClient, OtherClientAgain, Hit, WindowEnds, BlockEnds,
     accessVars, limits
<1>3. CASE CountRequest \/ CountAgain
  BY <1>3 DEF RequestTyped, CountRequest, CountAgain, Hit
<1>4. CASE TrackerFails \/ GatewayValidates \/ ServiceValidates
  BY <1>4 DEF RequestTyped, TrackerFails, GatewayValidates, ServiceValidates, limits
<1>5. CASE GatewayAuthenticates \/ ServiceAuthenticates
  BY <1>5 DEF RequestTyped, GatewayAuthenticates, ServiceAuthenticates, Authenticate,
     limits
<1>6. CASE GatewayChecksRoles \/ ServiceChecksRoles
  BY <1>6 DEF RequestTyped, GatewayChecksRoles, ServiceChecksRoles, CheckRoles, limits
<1> QED BY <1>1, <1>2, <1>3, <1>4, <1>5, <1>6 DEF AccessNext

\* The variables keep their types, a request is answered exactly when it is done, and
\* what was let through has been counted.  The guards and pipes of both sides.
THEOREM AccessTypeCorrect == AccessSpec => []AccessTypeOK
<1>1. AccessInit => RequestTyped
  BY DEF AccessInit, RequestTyped, Phases
<1>2. RequestTyped /\ Within => AccessTypeOK
  <2> SUFFICES ASSUME RequestTyped, Within PROVE AccessTypeOK
    OBVIOUS
  <2>1. passed \in 0..hits /\ straddling \in 0..passed
    BY LimitIsNat DEF Within
  <2>2. between \in [Windows -> 0..Neighbours]
    BY AccessAssumption DEF Within, Windows
  <2> QED BY <2>1, <2>2 DEF RequestTyped, Within, AccessTypeOK
<1> QED BY <1>1, <1>2, RequestTypedNext, WithinInit, WithinNext, PTL DEF AccessSpec

-----------------------------------------------------------------------------
(* The routes and their handlers.                                          *)

\* The service's guards are no stricter than the gateway's, and an input the
\* gateway validated is the one the service validates.
Agrees(r) ==
    LET h == S!Handlers[r.to]
    IN  /\ r.gateway \in {"cms", "discovery"}
        /\ r.public => h.public
        /\ h.public => h.roles = {}
        /\ ~r.public =>
              \/ h.roles = {}
              \/ r.roles \in {G!Admins, G!Editors} /\ h.roles = S!Staff
        /\ r.accepts.strict /\ ~r.graphql =>
              \/ r.forwards = "nothing" /\ ~h.accepts.strict
              \/ /\ r.forwards = "body"
                 /\ r \in {G!createProgram, G!updateProgram, G!createEpisode,
                           G!updateEpisode, G!register, G!login}

LEMMA HandlersFound ==
    /\ S!Handlers["programsFindAll"] = S!programsFindAll
    /\ S!Handlers["programsFindOne"] = S!programsFindOne
    /\ S!Handlers["programsCreate"] = S!programsCreate
    /\ S!Handlers["programsUpdate"] = S!programsUpdate
    /\ S!Handlers["programsDelete"] = S!programsDelete
    /\ S!Handlers["episodesFindAll"] = S!episodesFindAll
    /\ S!Handlers["episodesFindOne"] = S!episodesFindOne
    /\ S!Handlers["episodesCreate"] = S!episodesCreate
    /\ S!Handlers["episodesUpdate"] = S!episodesUpdate
    /\ S!Handlers["episodesDelete"] = S!episodesDelete
    /\ S!Handlers["authRegister"] = S!authRegister
    /\ S!Handlers["authLogin"] = S!authLogin
    /\ S!Handlers["authRefreshToken"] = S!authRefreshToken
    /\ S!Handlers["authGetCurrentUser"] = S!authGetCurrentUser
    /\ S!Handlers["metadataCreate"] = S!metadataCreate
    /\ S!Handlers["metadataFindOne"] = S!metadataFindOne
    /\ S!Handlers["metadataFindByContentId"] = S!metadataFindByContentId
    /\ S!Handlers["metadataUpdate"] = S!metadataUpdate
    /\ S!Handlers["metadataGetVersionHistory"] = S!metadataGetVersionHistory
    /\ S!Handlers["mediaUpload"] = S!mediaUpload
    /\ S!Handlers["mediaFindOne"] = S!mediaFindOne
    /\ S!Handlers["mediaFindByContentId"] = S!mediaFindByContentId
    /\ S!Handlers["mediaDelete"] = S!mediaDelete
    /\ S!Handlers["mediaGenerateThumbnail"] = S!mediaGenerateThumbnail
    /\ S!Handlers["ingestCreateJob"] = S!ingestCreateJob
    /\ S!Handlers["ingestGetJobs"] = S!ingestGetJobs
    /\ S!Handlers["ingestGetJob"] = S!ingestGetJob
    /\ S!Handlers["ingestRetryJob"] = S!ingestRetryJob
    /\ S!Handlers["ingestDeleteJob"] = S!ingestDeleteJob
    /\ S!Handlers["discoverySearch"] = S!discoverySearch
    /\ S!Handlers["discoveryGetPrograms"] = S!discoveryGetPrograms
    /\ S!Handlers["discoveryGetProgram"] = S!discoveryGetProgram
    /\ S!Handlers["discoveryGetEpisodes"] = S!discoveryGetEpisodes
    /\ S!Handlers["discoveryGetTrending"] = S!discoveryGetTrending
    /\ S!Handlers["discoveryGetPopular"] = S!discoveryGetPopular
    /\ S!Handlers["searchSearch"] = S!searchSearch
BY DEF S!Handlers

LEMMA RoutesAgree == \A r \in G!Routes : Agrees(r)
<1> USE HandlersFound
    DEF Agrees, G!Answers, G!Takes, G!Shows, G!For, G!Public,
      G!Query, G!NoQuery, G!GraphQL, G!Route, G!Editors, G!Admins,
      G!Unchecked, S!Anyone, S!SignedIn, S!By, S!Staff, S!Handler,
      S!Unchecked
<1>1. Agrees(G!getPrograms)
  BY DEF G!getPrograms, S!programsFindAll
<1>2. Agrees(G!getProgram)
  BY DEF G!getProgram, S!programsFindOne
<1>3. Agrees(G!createProgram)
  BY DEF G!createProgram, S!programsCreate
<1>4. Agrees(G!updateProgram)
  BY DEF G!updateProgram, S!programsUpdate
<1>5. Agrees(G!deleteProgram)
  BY DEF G!deleteProgram, S!programsDelete
<1>6. Agrees(G!getEpisodes)
  BY DEF G!getEpisodes, S!episodesFindAll
<1>7. Agrees(G!getEpisode)
  BY DEF G!getEpisode, S!episodesFindOne
<1>8. Agrees(G!createEpisode)
  BY DEF G!createEpisode, S!episodesCreate
<1>9. Agrees(G!updateEpisode)
  BY DEF G!updateEpisode, S!episodesUpdate
<1>10. Agrees(G!deleteEpisode)
  BY DEF G!deleteEpisode, S!episodesDelete
<1>11. Agrees(G!register)
  BY DEF G!register, S!authRegister
<1>12. Agrees(G!login)
  BY DEF G!login, S!authLogin
<1>13. Agrees(G!refreshToken)
  BY DEF G!refreshToken, S!authRefreshToken
<1>14. Agrees(G!getCurrentUser)
  BY DEF G!getCurrentUser, S!authGetCurrentUser
<1>15. Agrees(G!createMetadata)
  BY DEF G!createMetadata, S!metadataCreate
<1>16. Agrees(G!getMetadata)
  BY DEF G!getMetadata, S!metadataFindOne
<1>17. Agrees(G!getMetadataByContentId)
  BY DEF G!getMetadataByContentId, S!metadataFindByContentId
<1>18. Agrees(G!updateMetadata)
  BY DEF G!updateMetadata, S!metadataUpdate
<1>19. Agrees(G!getVersionHistory)
  BY DEF G!getVersionHistory, S!metadataGetVersionHistory
<1>20. Agrees(G!uploadMedia)
  BY DEF G!uploadMedia, S!mediaUpload
<1>21. Agrees(G!getMedia)
  BY DEF G!getMedia, S!mediaFindOne
<1>22. Agrees(G!getMediaByContentId)
  BY DEF G!getMediaByContentId, S!mediaFindByContentId
<1>23. Agrees(G!deleteMedia)
  BY DEF G!deleteMedia, S!mediaDelete
<1>24. Agrees(G!generateThumbnail)
  BY DEF G!generateThumbnail, S!mediaGenerateThumbnail
<1>25. Agrees(G!createJob)
  BY DEF G!createJob, S!ingestCreateJob
<1>26. Agrees(G!getJobs)
  BY DEF G!getJobs, S!ingestGetJobs
<1>27. Agrees(G!getJob)
  BY DEF G!getJob, S!ingestGetJob
<1>28. Agrees(G!retryJob)
  BY DEF G!retryJob, S!ingestRetryJob
<1>29. Agrees(G!deleteJob)
  BY DEF G!deleteJob, S!ingestDeleteJob
<1>30. Agrees(G!discoverySearch)
  BY DEF G!discoverySearch, S!discoverySearch
<1>31. Agrees(G!discoveryPrograms)
  BY DEF G!discoveryPrograms, S!discoveryGetPrograms
<1>32. Agrees(G!discoveryProgram)
  BY DEF G!discoveryProgram, S!discoveryGetProgram
<1>33. Agrees(G!discoveryEpisodes)
  BY DEF G!discoveryEpisodes, S!discoveryGetEpisodes
<1>34. Agrees(G!discoveryTrending)
  BY DEF G!discoveryTrending, S!discoveryGetTrending
<1>35. Agrees(G!discoveryPopular)
  BY DEF G!discoveryPopular, S!discoveryGetPopular
<1>36. Agrees(G!search)
  BY DEF G!search, S!searchSearch
<1>37. Agrees(G!qlPrograms)
  BY DEF G!qlPrograms, S!discoveryGetPrograms
<1>38. Agrees(G!qlProgram)
  BY DEF G!qlProgram, S!discoveryGetProgram
<1>39. Agrees(G!qlEpisodes)
  BY DEF G!qlEpisodes, S!discoveryGetEpisodes
<1>40. Agrees(G!qlSearch)
  BY DEF G!qlSearch, S!searchSearch
<1>41. Agrees(G!qlTrending)
  BY DEF G!qlTrending, S!discoveryGetTrending
<1>42. Agrees(G!qlPopular)
  BY DEF G!qlPopular, S!discoveryGetPopular
<1> HIDE DEF Agrees
<1> QED
  BY <1>1, <1>2, <1>3, <1>4, <1>5, <1>6, <1>7, <1>8, <1>9, <1>10, <1>11, <1>12,
     <1>13, <1>14, <1>15, <1>16, <1>17, <1>18, <1>19, <1>20, <1>21, <1>22, <1>23,
     <1>24, <1>25, <1>26, <1>27, <1>28, <1>29, <1>30, <1>31, <1>32, <1>33, <1>34,
     <1>35, <1>36, <1>37, <1>38, <1>39, <1>40, <1>41, <1>42
  DEF G!Routes

-----------------------------------------------------------------------------
(* DTOs.                                                                   *)

\* Every field of d but those left out has the same rule in e, and e requires no
\* other.
Includes(e, d, without) ==
    /\ DOMAIN e.fields \cap without = {}
    /\ \A f \in DOMAIN d.fields \ without :
          f \in DOMAIN e.fields /\ e.fields[f] = d.fields[f]
    /\ \A f \in DOMAIN e.fields \ DOMAIN d.fields : e.fields[f].optional

\* Whatever the values of a body are: valid for d, valid for e.
LEMMA ValidImplied ==
    ASSUME NEW d, NEW e, NEW without, NEW input,
           Includes(e, d, without), d.strict, G!Valid(d, input),
           DOMAIN input \cap without = {}
    PROVE  S!Valid(e, input)
<1>1. DOMAIN input \subseteq DOMAIN e.fields
  BY DEF Includes, G!Valid
<1>2. ASSUME NEW f \in DOMAIN e.fields, f \in DOMAIN input
      PROVE  S!Accepts(e.fields[f], input[f])
  BY <1>2 DEF Includes, G!Valid, G!Accepts, S!Accepts
<1>3. ASSUME NEW f \in DOMAIN e.fields, f \notin DOMAIN input
      PROVE  e.fields[f].optional
  BY <1>3 DEF Includes, G!Valid
<1> QED BY <1>1, <1>2, <1>3 DEF S!Valid

LEMMA AllOptionalRules ==
    \A fields : /\ DOMAIN S!AllOptional(fields) = DOMAIN fields
                /\ \A f \in DOMAIN fields :
                      S!AllOptional(fields)[f] = S!Optional(fields[f])
BY DEF S!AllOptional

LEMMA OptionalRules ==
    /\ \A rule : G!Optional(rule) = S!Optional(rule)
    /\ \A rule : S!Optional(S!Optional(rule)) = S!Optional(rule)
    /\ \A rule : "optional" \in DOMAIN rule => S!Optional(rule).optional
<1>1. \A rule : G!Optional(rule) = S!Optional(rule)
  BY DEF G!Optional, S!Optional
<1>2. \A rule : S!Optional(S!Optional(rule)) = S!Optional(rule)
  BY DEF S!Optional
<1>3. \A rule : "optional" \in DOMAIN rule => S!Optional(rule).optional
  BY DEF S!Optional
<1> QED BY <1>1, <1>2, <1>3

LEMMA DtosIncluded ==
    /\ Includes(S!RegisterDto, G!RegisterDto, {})
    /\ Includes(S!LoginDto, G!LoginDto, {})
    /\ Includes(S!CreateEpisodeDto, G!CreateEpisodeDto, {})
    /\ Includes(S!UpdateEpisodeDto, G!UpdateEpisodeDto, {})
    /\ Includes(S!UpdateProgramDto, G!UpdateProgramDto, {"metadataId"})
<1> USE DEF G!Dto, S!Dto, G!Text, S!Text, G!A, S!A, G!Int, S!Int,
      G!Title, S!Title, G!EpisodeTitle, G!Unbounded, S!Unbounded
<1>1. Includes(S!RegisterDto, G!RegisterDto, {})
  BY DEF Includes, S!RegisterDto, G!RegisterDto
<1>2. Includes(S!LoginDto, G!LoginDto, {})
  BY DEF Includes, S!LoginDto, G!LoginDto
<1>3. Includes(S!CreateEpisodeDto, G!CreateEpisodeDto, {})
  BY DEF Includes, S!CreateEpisodeDto, G!CreateEpisodeDto, S!EpisodeFields,
         G!Optional, S!Optional
<1>4. Includes(S!UpdateEpisodeDto, G!UpdateEpisodeDto, {})
  <2> DEFINE F == [f \in DOMAIN S!EpisodeFields \ {"programId"} |->
                      S!EpisodeFields[f]]
             Inner == S!UpdateEpisodeDto.fields
             Outer == G!UpdateEpisodeDto.fields
  <2>1. Inner = S!AllOptional(F)
    BY DEF S!UpdateEpisodeDto
  <2>2. DOMAIN F = {"title", "description", "episodeNumber", "duration", "status",
                    "metadataId"}
    BY DEF S!EpisodeFields
  <2>3. \A f \in DOMAIN F : F[f] = S!EpisodeFields[f]
    OBVIOUS
  <2> HIDE DEF F, Inner
  <2>4. DOMAIN Inner = DOMAIN F /\ \A f \in DOMAIN F : Inner[f] = S!Optional(F[f])
    BY <2>1, AllOptionalRules
  <2>5. DOMAIN Outer = DOMAIN Inner
    BY <2>2, <2>4 DEF G!UpdateEpisodeDto
  <2>6. \A f \in DOMAIN F : Inner[f] = Outer[f]
    <3>1. \A f \in DOMAIN F : Inner[f] = S!Optional(S!EpisodeFields[f])
      BY <2>3, <2>4
    <3>2. Inner["title"] = Outer["title"]
      BY <2>2, <3>1, OptionalRules DEF S!EpisodeFields, G!UpdateEpisodeDto
    <3>3. Inner["description"] = Outer["description"]
      BY <2>2, <3>1, OptionalRules DEF S!EpisodeFields, G!UpdateEpisodeDto
    <3>4. Inner["episodeNumber"] = Outer["episodeNumber"]
      BY <2>2, <3>1, OptionalRules DEF S!EpisodeFields, G!UpdateEpisodeDto
    <3>5. Inner["duration"] = Outer["duration"]
      BY <2>2, <3>1, OptionalRules DEF S!EpisodeFields, G!UpdateEpisodeDto
    <3>6. Inner["status"] = Outer["status"]
      BY <2>2, <3>1, OptionalRules DEF S!EpisodeFields, G!UpdateEpisodeDto
    <3>7. Inner["metadataId"] = Outer["metadataId"]
      BY <2>2, <3>1, OptionalRules DEF S!EpisodeFields, G!UpdateEpisodeDto
    <3> HIDE DEF Outer
    <3> QED BY <2>2, <3>2, <3>3, <3>4, <3>5, <3>6, <3>7
  <2> QED BY <2>4, <2>5, <2>6 DEF Includes, Inner
<1>5. Includes(S!UpdateProgramDto, G!UpdateProgramDto, {"metadataId"})
  <2> DEFINE Inner == S!UpdateProgramDto.fields
             Outer == G!UpdateProgramDto.fields
  <2>1. /\ DOMAIN Inner = DOMAIN S!ProgramFields
        /\ \A f \in DOMAIN Inner : Inner[f] = S!Optional(S!ProgramFields[f])
    <3>1. Inner = S!AllOptional(S!ProgramFields)
      BY DEF S!UpdateProgramDto
    <3> HIDE DEF Inner
    <3> QED BY <3>1, AllOptionalRules
  <2> HIDE DEF Inner
  <2>2. DOMAIN S!ProgramFields =
            {"title", "description", "contentType", "status", "thumbnailUrl",
             "posterUrl", "genres", "tags", "releaseDate", "duration", "rating"}
    BY DEF S!ProgramFields
  <2>3. DOMAIN Outer = {"title", "description", "status", "metadataId"}
    BY DEF G!UpdateProgramDto
  <2>4. \A f \in {"title", "description", "status"} : Inner[f] = Outer[f]
    <3>1. Inner["title"] = Outer["title"]
      <4>1. Inner["title"] = S!Optional(S!ProgramFields["title"])
        BY <2>1, <2>2
      <4>2. S!ProgramFields["title"] = G!Title
        BY DEF S!ProgramFields
      <4>3. Outer["title"] = G!Optional(G!Title)
        BY DEF G!UpdateProgramDto
      <4> QED BY <4>1, <4>2, <4>3, OptionalRules
    <3>2. Inner["description"] = Outer["description"]
      BY <2>1, <2>2, OptionalRules DEF S!ProgramFields, G!UpdateProgramDto
    <3>3. Inner["status"] = Outer["status"]
      BY <2>1, <2>2, OptionalRules DEF S!ProgramFields, G!UpdateProgramDto
    <3> HIDE DEF Outer
    <3> QED BY <3>1, <3>2, <3>3
  <2>5. \A f \in DOMAIN Inner : Inner[f].optional
    <3>1. \A f \in DOMAIN Inner : "optional" \in DOMAIN S!ProgramFields[f]
      BY <2>1, <2>2 DEF S!ProgramFields, S!Optional
    <3> QED BY <2>1, <3>1, OptionalRules
  <2> QED BY <2>1, <2>2, <2>3, <2>4, <2>5 DEF Includes, Inner
<1> QED BY <1>1, <1>2, <1>3, <1>4, <1>5

\* The DTOs on both sides of the routes that validate a body.
LEMMA StrictRoutes ==
    /\ G!register.accepts = G!RegisterDto
    /\ S!Handlers[G!register.to].accepts = S!RegisterDto
    /\ G!login.accepts = G!LoginDto
    /\ S!Handlers[G!login.to].accepts = S!LoginDto
    /\ G!createEpisode.accepts = G!CreateEpisodeDto
    /\ S!Handlers[G!createEpisode.to].accepts = S!CreateEpisodeDto
    /\ G!updateEpisode.accepts = G!UpdateEpisodeDto
    /\ S!Handlers[G!updateEpisode.to].accepts = S!UpdateEpisodeDto
    /\ G!updateProgram.accepts = G!UpdateProgramDto
    /\ S!Handlers[G!updateProgram.to].accepts = S!UpdateProgramDto
    /\ G!createProgram # G!updateProgram
<1> USE HandlersFound DEF G!Answers, G!Takes, G!For, G!Public, G!Route,
      S!Anyone, S!By, S!Handler
<1>1. /\ G!register.accepts = G!RegisterDto
      /\ S!Handlers[G!register.to].accepts = S!RegisterDto
  BY DEF G!register, S!authRegister
<1>2. /\ G!login.accepts = G!LoginDto
      /\ S!Handlers[G!login.to].accepts = S!LoginDto
  BY DEF G!login, S!authLogin
<1>3. /\ G!createEpisode.accepts = G!CreateEpisodeDto
      /\ S!Handlers[G!createEpisode.to].accepts = S!CreateEpisodeDto
  BY DEF G!createEpisode, S!episodesCreate
<1>4. /\ G!updateEpisode.accepts = G!UpdateEpisodeDto
      /\ S!Handlers[G!updateEpisode.to].accepts = S!UpdateEpisodeDto
  BY DEF G!updateEpisode, S!episodesUpdate
<1>5. /\ G!updateProgram.accepts = G!UpdateProgramDto
      /\ S!Handlers[G!updateProgram.to].accepts = S!UpdateProgramDto
  BY DEF G!updateProgram, S!programsUpdate
<1>6. G!createProgram.to # G!updateProgram.to
  BY DEF G!createProgram, G!updateProgram
<1> QED BY <1>1, <1>2, <1>3, <1>4, <1>5, <1>6

\* The two DTOs of a program are known to differ.
Excused(r, input) ==
    /\ r \in {G!createProgram, G!updateProgram}
    /\ r = G!updateProgram => "metadataId" \in DOMAIN input

Accepted(r, input) ==
    S!Valid(S!Handlers[r.to].accepts, input) \/ Excused(r, input)

LEMMA StrictInputAccepted ==
    ASSUME NEW r \in {G!createProgram, G!updateProgram, G!createEpisode,
                      G!updateEpisode, G!register, G!login},
           NEW input, G!Valid(r.accepts, input)
    PROVE  Accepted(r, input)
<1>1. /\ G!RegisterDto.strict /\ G!LoginDto.strict /\ G!CreateEpisodeDto.strict
      /\ G!UpdateEpisodeDto.strict /\ G!UpdateProgramDto.strict
  BY DEF G!RegisterDto, G!LoginDto, G!CreateEpisodeDto, G!UpdateEpisodeDto,
         G!UpdateProgramDto, G!Dto
<1>2. CASE r = G!createProgram
  BY <1>2, StrictRoutes DEF Accepted, Excused
<1>3. CASE r = G!updateProgram
  <2>1. CASE "metadataId" \in DOMAIN input
    BY <1>3, <2>1 DEF Accepted, Excused
  <2>2. CASE "metadataId" \notin DOMAIN input
    <3>1. DOMAIN input \cap {"metadataId"} = {}
      BY <2>2
    <3> QED BY <3>1, <1>1, <1>3, StrictRoutes, DtosIncluded, ValidImplied DEF Accepted
  <2> QED BY <2>1, <2>2
<1>4. CASE r \in {G!createEpisode, G!updateEpisode, G!register, G!login}
  <2>1. DOMAIN input \cap {} = {}
    OBVIOUS
  <2>2. CASE r = G!createEpisode
    BY <2>1, <2>2, <1>1, StrictRoutes, DtosIncluded, ValidImplied DEF Accepted
  <2>3. CASE r = G!updateEpisode
    BY <2>1, <2>3, <1>1, StrictRoutes, DtosIncluded, ValidImplied DEF Accepted
  <2>4. CASE r = G!register
    BY <2>1, <2>4, <1>1, StrictRoutes, DtosIncluded, ValidImplied DEF Accepted
  <2>5. CASE r = G!login
    BY <2>1, <2>5, <1>1, StrictRoutes, DtosIncluded, ValidImplied DEF Accepted
  <2> QED BY <1>4, <2>2, <2>3, <2>4, <2>5
<1> QED BY <1>2, <1>3, <1>4

LEMMA PassedAccepted ==
    ASSUME route \in G!Routes, route.accepts.strict, ~route.graphql,
           G!Valid(route.accepts, body)
    PROVE  Accepted(route, Passed(body))
<1>1. Agrees(route)
  BY RoutesAgree
<1>2. CASE route.forwards = "nothing" /\ ~S!Handlers[route.to].accepts.strict
  BY <1>2 DEF Accepted, S!Valid
<1>3. CASE /\ route.forwards = "body"
           /\ route \in {G!createProgram, G!updateProgram, G!createEpisode,
                         G!updateEpisode, G!register, G!login}
  BY <1>3, StrictInputAccepted DEF Passed
<1> QED BY <1>1, <1>2, <1>3 DEF Agrees

-----------------------------------------------------------------------------
(* What is known of a request as it passes the guards and pipes.           *)

Allowed(u, roles) ==
    \/ roles = {}
    \/ u \in Roles /\ \E least \in roles : Rank(u) >= Rank(least)

\* Whom the gateway's RolesGuard lets through the service's does.
LEMMA RolesAgree ==
    ASSUME NEW r \in G!Routes, ~r.public, NEW u \in Roles, Allowed(u, r.roles)
    PROVE  Allowed(u, S!Handlers[r.to].roles)
<1>1. Rank("ADMIN") = 3 /\ Rank("EDITOR") = 2 /\ Rank("USER") = 1
  BY DEF Rank
<1>2. u \in {"ADMIN", "EDITOR", "USER"}
  BY DEF Roles
<1>3. Agrees(r)
  BY RoutesAgree
<1>4. CASE S!Handlers[r.to].roles = {}
  BY <1>4 DEF Allowed
<1>5. CASE /\ r.roles \in {{"ADMIN"}, {"ADMIN", "EDITOR"}}
           /\ S!Handlers[r.to].roles = {"ADMIN", "EDITOR"}
  <2>1. \E s \in r.roles : Rank(u) >= Rank(s)
    BY <1>5 DEF Allowed
  <2>2. Rank(u) >= 2
    BY <2>1, <1>1, <1>2, <1>5
  <2> QED BY <2>2, <1>1, <1>5 DEF Allowed
<1> QED
  BY <1>3, <1>4, <1>5 DEF Agrees, G!Admins, G!Editors, S!Staff

Identified == user \in Roles /\ token \in {user, "expired"}

Admission ==
    /\ phase # "done" => by # "service"
    /\ phase = "known" => route.public \/ Identified
    /\ phase = "admitted" =>
          \/ route.public
          \/ Identified /\ Allowed(user, route.roles)
    /\ phase = "forwarded" =>
          \/ route.public \/ token = "expired"
          \/ token \in Roles /\ Allowed(token, route.roles)
    /\ phase = "identified" =>
          \/ handler.roles = {}
          \/ user \in Roles /\ Allowed(user, handler.roles)
    /\ AdmittedByService

Validation ==
    route.accepts.strict =>
        /\ route.graphql => phase \in {"idle", "sent", "done"} /\ by # "service"
        /\ phase \in {"forwarded", "identified", "permitted"} => Accepted(route, body)
        /\ ValidatedBodyIsAccepted

Granted ==
    /\ route \in AllRoutes
    /\ phase \in Phases
    /\ route.gateway # "none" => Admission /\ Validation

\* A service asked directly validates nothing before it is asked.
LEMMA DirectRoutes ==
    \A to : Direct(to).gateway = "none" /\ ~Direct(to).accepts.strict
BY DEF Direct, G!Public, G!Route, G!Unchecked

LEMMA ThroughGateway ==
    ASSUME route \in AllRoutes, route.gateway # "none"
    PROVE  route \in G!Routes /\ Agrees(route)
BY DirectRoutes, RoutesAgree DEF AllRoutes

-----------------------------------------------------------------------------
(* The steps.                                                              *)

LEMMA GrantedInit == AccessInit => Granted
<1> SUFFICES ASSUME AccessInit PROVE Granted
  OBVIOUS
<1>1. route \in AllRoutes /\ phase = "idle" /\ by = "nobody"
  BY DEF AccessInit
<1> QED BY <1>1 DEF Granted, Phases, Admission, Validation, AdmittedByService,
              ValidatedBodyIsAccepted

\* JwtAuthGuard and RolesGuard of the gateway, then the service's.
LEMMA AdmissionKept ==
    ASSUME Granted, AccessNext, route.gateway # "none"
    PROVE  Admission'
<1> USE DEF GoesOn, Answer
<1>1. Admission /\ route \in G!Routes /\ Agrees(route) /\ route' = route
  BY ThroughGateway DEF Granted, AccessNext, SendRequest, CountRequest, CountAgain,
     TrackerFails, OtherClient, OtherClientAgain, GatewayAuthenticates, GatewayChecksRoles, GatewayValidates,
     ServiceAuthenticates, ServiceChecksRoles, ServiceValidates, TokenExpires,
     WindowEnds, BlockEnds, NextRequest, Authenticate, CheckRoles
<1>2. handler' = handler
  BY <1>1 DEF handler
<1>3. CASE SendRequest \/ CountRequest \/ CountAgain \/ TrackerFails \/ NextRequest
  BY <1>1, <1>3 DEF Admission, SendRequest, CountRequest, CountAgain, TrackerFails,
     NextRequest,
     AdmittedByService
<1>4. CASE OtherClient \/ OtherClientAgain \/ WindowEnds \/ BlockEnds
  BY <1>1, <1>2, <1>4 DEF Admission, OtherClient, OtherClientAgain, WindowEnds, BlockEnds,
     AdmittedByService, Identified
<1>5. CASE GatewayAuthenticates
  BY <1>1, <1>5 DEF Admission, GatewayAuthenticates, Authenticate,
     AdmittedByService, Identified
<1>6. CASE GatewayChecksRoles
  <2>1. CASE MayUse(route.roles)
    <3>1. /\ phase = "known" /\ phase' = "admitted"
          /\ UNCHANGED <<route, token, status, by, user>>
      BY <1>6, <2>1 DEF GatewayChecksRoles, CheckRoles
    <3>2. \/ route.public
          \/ Identified /\ Allowed(user, route.roles)
      BY <1>1, <2>1, <3>1 DEF Admission, MayUse, Allowed, Identified
    <3> QED BY <1>1, <3>1, <3>2 DEF Admission, AdmittedByService, Identified
  <2>2. CASE ~MayUse(route.roles)
    BY <1>1, <1>6, <2>2 DEF Admission, GatewayChecksRoles, CheckRoles,
       AdmittedByService
  <2> QED BY <2>1, <2>2
<1>7. CASE GatewayValidates
  BY <1>1, <1>7 DEF Admission, GatewayValidates, AdmittedByService, Identified
<1>8. CASE ServiceAuthenticates
  <2>1. phase = "forwarded"
    BY <1>8 DEF ServiceAuthenticates
  <2>2. CASE handler.public
    <3>1. handler.roles = {}
      BY <1>1, <2>2 DEF Agrees, handler
    <3>2. phase' = "identified" /\ by' = by
      BY <1>8, <2>2 DEF ServiceAuthenticates, Authenticate
    <3> QED BY <1>1, <1>2, <2>1, <3>1, <3>2 DEF Admission, AdmittedByService
  <2>3. CASE ~handler.public
    <3>1. ~route.public
      BY <1>1, <2>3 DEF Agrees, handler
    <3>2. CASE token \in Roles
      <4>1. phase' = "identified" /\ by' = by /\ user' = token
        BY <1>8, <2>3, <3>2 DEF ServiceAuthenticates, Authenticate
      <4>2. Allowed(token, route.roles)
        BY <1>1, <2>1, <3>1, <3>2 DEF Admission, Roles
      <4>3. Allowed(token, handler.roles)
        BY <1>1, <3>1, <3>2, <4>2, RolesAgree DEF handler
      <4> QED
        BY <1>1, <1>2, <2>1, <3>2, <4>1, <4>3 DEF Admission, AdmittedByService
    <3>3. CASE token \notin Roles
      <4>1. /\ phase' = "done" /\ status' = 401 /\ by' = "service"
            /\ token' = token /\ token = "expired"
        BY <1>1, <1>8, <2>1, <2>3, <3>1, <3>3
        DEF Admission, ServiceAuthenticates, Authenticate
      <4> QED BY <1>1, <3>1, <4>1 DEF Admission, AdmittedByService
    <3> QED BY <3>2, <3>3
  <2> QED BY <2>2, <2>3
<1>9. CASE ServiceChecksRoles
  BY <1>1, <1>2, <1>9 DEF Admission, ServiceChecksRoles, CheckRoles, MayUse,
     Allowed, AdmittedByService, Roles
<1>10. CASE ServiceValidates
  BY <1>1, <1>10 DEF Admission, ServiceValidates, AdmittedByService
<1>11. CASE TokenExpires
  BY <1>1, <1>2, <1>11 DEF Admission, TokenExpires, AdmittedByService, Identified
<1> QED
  BY <1>3, <1>4, <1>5, <1>6, <1>7, <1>8, <1>9, <1>10, <1>11 DEF AccessNext

\* The two ValidationPipes.
LEMMA ValidationKept ==
    ASSUME Granted, AccessNext, route.gateway # "none"
    PROVE  Validation'
<1> USE DEF GoesOn, Answer
<1>1. /\ Admission /\ Validation /\ route \in G!Routes /\ Agrees(route)
      /\ route' = route
  BY ThroughGateway DEF Granted, AccessNext, SendRequest, CountRequest, CountAgain,
     TrackerFails, OtherClient, OtherClientAgain, GatewayAuthenticates, GatewayChecksRoles, GatewayValidates,
     ServiceAuthenticates, ServiceChecksRoles, ServiceValidates, TokenExpires,
     WindowEnds, BlockEnds, NextRequest, Authenticate, CheckRoles
<1>2. CASE SendRequest \/ CountRequest \/ CountAgain \/ TrackerFails \/ NextRequest
  BY <1>1, <1>2 DEF Admission, Validation, SendRequest, CountRequest, CountAgain,
     TrackerFails, NextRequest, ValidatedBodyIsAccepted
<1>3. CASE OtherClient \/ OtherClientAgain \/ WindowEnds \/ BlockEnds \/ TokenExpires
  BY <1>1, <1>3 DEF Validation, OtherClient, OtherClientAgain, WindowEnds, BlockEnds,
     TokenExpires, ValidatedBodyIsAccepted
<1>4. CASE GatewayAuthenticates \/ GatewayChecksRoles
  BY <1>1, <1>4 DEF Admission, Validation, GatewayAuthenticates,
     GatewayChecksRoles, Authenticate, CheckRoles, ValidatedBodyIsAccepted
<1>5. CASE GatewayValidates
  <2>1. phase = "admitted" /\ route' = route
    BY <1>1, <1>5 DEF GatewayValidates
  <2>2. CASE G!Valid(route.accepts, body)
    <3>1. phase' = "forwarded" /\ body' = Passed(body) /\ by' = by
      BY <1>5, <2>2 DEF GatewayValidates
    <3> QED
      BY <1>1, <2>1, <2>2, <3>1, PassedAccepted
      DEF Admission, Validation, ValidatedBodyIsAccepted
  <2>3. CASE ~G!Valid(route.accepts, body)
    BY <1>1, <1>5, <2>3
    DEF Validation, GatewayValidates, ValidatedBodyIsAccepted
  <2> QED BY <2>2, <2>3
<1>6. CASE ServiceAuthenticates \/ ServiceChecksRoles
  BY <1>1, <1>6 DEF Admission, Validation, ServiceAuthenticates,
     ServiceChecksRoles, Authenticate, CheckRoles, ValidatedBodyIsAccepted
<1>7. CASE ServiceValidates
  <2>1. /\ phase = "permitted" /\ body' = body /\ phase' = "done" /\ by' = "service"
        /\ status' = 400 => ~S!Valid(handler.accepts, body)
    BY <1>7 DEF ServiceValidates
  <2> QED
    BY <1>1, <2>1 DEF Validation, Accepted, Excused, handler,
       ValidatedBodyIsAccepted
<1> QED
  BY <1>2, <1>3, <1>4, <1>5, <1>6, <1>7 DEF AccessNext

LEMMA GrantedNext == ASSUME Granted, [AccessNext]_accessVars PROVE Granted'
<1>1. CASE AccessNext
  <2>1. route' = route /\ phase' \in Phases
    BY <1>1 DEF Granted, AccessNext, SendRequest, CountRequest, CountAgain,
       TrackerFails, OtherClient, OtherClientAgain, GatewayAuthenticates, GatewayChecksRoles, GatewayValidates,
       ServiceAuthenticates, ServiceChecksRoles, ServiceValidates,
       TokenExpires, WindowEnds, BlockEnds, NextRequest, Authenticate,
       CheckRoles, GoesOn, Answer, Phases
  <2> QED BY <1>1, <2>1, AdmissionKept, ValidationKept DEF Granted
<1>2. CASE UNCHANGED accessVars
  BY <1>2 DEF accessVars, limits, Granted, Admission, Validation, AdmittedByService,
     ValidatedBodyIsAccepted, Identified, Accepted, Excused, handler
<1> QED BY <1>1, <1>2

LEMMA GrantedAlways == AccessSpec => []Granted
BY GrantedInit, GrantedNext, PTL DEF AccessSpec

\* JwtAuthGuard and RolesGuard on both sides: whom the gateway lets in the service
\* lets in, unless the token expires on the way.
THEOREM AdmittedThroughout == AccessSpec => []AdmittedByService
<1>1. Granted => AdmittedByService
  BY DEF Granted, Admission, AdmittedByService
<1> QED BY <1>1, GrantedAlways, PTL

\* The ValidationPipes on both sides: a body the gateway validated, whatever its
\* values, is refused by the service only for the two programs' known differences.
THEOREM ValidatedThroughout == AccessSpec => []ValidatedBodyIsAccepted
<1>1. route \in AllRoutes /\ route.gateway = "none" => ~route.accepts.strict
  BY DirectRoutes, RoutesAgree DEF AllRoutes, Agrees
<1>2. Granted => ValidatedBodyIsAccepted
  BY <1>1 DEF Granted, Validation, ValidatedBodyIsAccepted
<1> QED BY <1>2, GrantedAlways, PTL
=============================================================================
